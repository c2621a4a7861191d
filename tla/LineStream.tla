----------------------------- MODULE LineStream ----------------------------
(***************************************************************************)
(* WriteLn and ReadLn of the base stream (include/uc_stream.h): a writer   *)
(* puts lines into a pipe or socket, a reader takes them out byte by byte  *)
(* into a buffer of bufsize bytes.                                         *)
(***************************************************************************)
EXTENDS Naturals, Sequences

CONSTANTS
  Line,       \* the lines that are written, sequences of bytes without "LF"
  bufsize,    \* the reader's buffer
  PipeSize,   \* bytes the stream holds
  MaxLines,   \* how many lines are begun
  Env         \* "short": a write may be short or fail; "readFails": a read may
              \* fail; "closes": the writer may close the stream

VARIABLES
  writing,    \* the part WriteLn is about to write: "text", "break" or "no"
  line,       \* what it writes
  begun,      \* how many lines it has begun
  pipe,       \* the bytes in the stream
  closed,     \* has the writer closed it?
  reading,    \* is the reader in ReadLn?
  buf,        \* what it has read there
  sent,       \* the lines for which WriteLn returned true
  delivered,  \* the lines ReadLn returned
  broken      \* has a write been short, a read failed or a line been too long?

writer == <<writing, line, begun, sent>>
reader == <<reading, buf, delivered>>
vars == <<writer, pipe, closed, reader, broken>>

LineBreak == <<"CR", "LF">>
Byte == UNION {{l[i] : i \in DOMAIN l} : l \in Line \cup {LineBreak}}

TypeOK ==
  /\ writing \in {"text", "break", "no"} /\ line \in Line \cup {<<>>}
  /\ begun \in 0 .. MaxLines
  /\ pipe \in Seq(Byte) /\ Len(pipe) <= PipeSize
  /\ closed \in BOOLEAN /\ reading \in BOOLEAN /\ broken \in BOOLEAN
  /\ buf \in Seq(Byte) /\ Len(buf) < bufsize
  /\ sent \in Seq(Line) /\ delivered \in Seq(Seq(Byte))

Init ==
  /\ writing = "no" /\ line = <<>> /\ begun = 0 /\ sent = <<>>
  /\ pipe = <<>> /\ closed = FALSE
  /\ reading = FALSE /\ buf = <<>> /\ delivered = <<>>
  /\ broken = FALSE

-----------------------------------------------------------------------------
(* A line needs room for a CR and a NUL.                                   *)
Fits(l) == Len(l) + 2 <= bufsize

WriteLn(l) ==
  /\ writing = "no" /\ ~ closed /\ begun < MaxLines
  /\ line' = l /\ begun' = begun + 1
  /\ writing' = IF l = <<>> THEN "break" ELSE "text"
  /\ broken' = (broken \/ ~ Fits(l))
  /\ UNCHANGED <<pipe, closed, reader, sent>>

Part == IF writing = "text" THEN line ELSE LineBreak

(* WriteLn gives up after a short write, without taking back what went out.*)
Write ==
  /\ writing # "no"
  /\ \E n \in {Len(Part)} \cup IF "short" \in Env THEN 0 .. Len(Part) ELSE {} :
       /\ Len(pipe) + n <= PipeSize
       /\ pipe' = pipe \o SubSeq(Part, 1, n)
       /\ writing' = IF writing = "text" /\ n = Len(Part) THEN "break" ELSE "no"
       /\ sent' = IF writing = "break" /\ n = Len(Part) THEN Append(sent, line) ELSE sent
       /\ broken' = (broken \/ n < Len(Part))
  /\ UNCHANGED <<line, begun, closed, reader>>

CloseStream ==
  /\ "closes" \in Env /\ writing = "no" /\ closed' = TRUE
  /\ UNCHANGED <<writer, pipe, reader, broken>>

-----------------------------------------------------------------------------
ReadLn ==
  /\ ~ reading /\ reading' = TRUE /\ buf' = <<>>
  /\ UNCHANGED <<writer, pipe, closed, delivered, broken>>

Returns(l) == delivered' = Append(delivered, l) /\ reading' = FALSE /\ buf' = buf
Fails == reading' = FALSE /\ UNCHANGED <<buf, delivered>>

WithoutCR == IF buf[Len(buf)] = "CR" THEN SubSeq(buf, 1, Len(buf) - 1) ELSE buf

EndLineKeepsCR == Returns(buf)

(* Before the first byte of buf there may be a CR as well, and then ReadLn *)
(* returns -1.                                                             *)
EndLine == IF buf = <<>> THEN Returns(<<>>) \/ Fails ELSE Returns(WithoutCR)

(* EMSGSIZE leaves the rest of the line in the stream.                     *)
Stores(CH) ==
  IF Len(buf) + 1 < bufsize THEN buf' = Append(buf, CH) /\ UNCHANGED <<reading, delivered>> ELSE Fails

Gets(CH) == (CH = "LF" /\ EndLine) \/ (CH # "LF" /\ Stores(CH))

(* A read of one byte; with EAGAIN it is tried again.                      *)
Read ==
  /\ reading /\ pipe # <<>>
  /\ pipe' = Tail(pipe) /\ Gets(Head(pipe))
  /\ UNCHANGED <<writer, closed, broken>>

(* At the end of a closed stream a read returns 0, which is not less than  *)
(* 0, and CH is what the memory holds.                                     *)
ReadNothing ==
  /\ reading /\ pipe = <<>> /\ closed
  /\ \E CH \in Byte : Gets(CH)
  /\ UNCHANGED <<writer, pipe, closed, broken>>

ReadFails ==
  /\ "readFails" \in Env /\ reading /\ Fails
  /\ broken' = TRUE
  /\ UNCHANGED <<writer, pipe, closed>>

Next ==
  \/ (\E l \in Line : WriteLn(l)) \/ Write \/ CloseStream
  \/ ReadLn \/ Read \/ ReadNothing \/ ReadFails

Spec == Init /\ [][Next]_vars

-----------------------------------------------------------------------------
(* Lines that fit into the reader's buffer arrive as they were written, in *)
(* order and once, none is dropped and none made up; until a write is      *)
(* short, a read fails or a line is too long, and on a stream that the     *)
(* writer leaves open (include/uc_stream.h:71-105, 132-142).               *)
Channel == INSTANCE FrameChannel WITH Frame <- Line

LinesArrive == Channel!Spec
=============================================================================
