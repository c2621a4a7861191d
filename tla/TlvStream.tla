------------------------------ MODULE TlvStream ----------------------------
(***************************************************************************)
(* TLVTransceiver (src/hc_transceiver.cpp) over a byte stream              *)
(* (include/uc_stream.h): SendTLV writes a header and a payload, ReceiveTLV*)
(* reads them.  WriteBuf and ReadBuf go on where a write or a read was     *)
(* short and give up where one fails.  The stream is a pipe or a socket    *)
(* that holds some bytes.                                                  *)
(*                                                                         *)
(* A byte is named by the frame it was written for and its place in it.    *)
(***************************************************************************)
EXTENDS FiniteSets, Naturals, Sequences

CONSTANTS
  Sender,      \* the threads that send on one stream
  Lens,        \* the payload lengths they send
  Shortest,    \* SendFrame refuses less; 0 for SendTLV itself
  HeaderLen,   \* bytes of type and len
  PipeSize,    \* bytes the stream holds
  MaxFrames,   \* how many frames are sent in all
  Env          \* what may happen, see below

(* "readFails":  a read returns no byte (a signal, a closed peer).         *)
(* "writeFails": a write writes no byte.                                   *)
(* "unlocked":   a thread sends while another is in the middle of a frame. *)
ASSUME TlvStreamAssumption ==
  /\ Lens \subseteq Nat /\ Shortest \in Nat
  /\ HeaderLen \in Nat \ {0} /\ PipeSize \in Nat \ {0} /\ MaxFrames \in Nat
  /\ Env \subseteq {"readFails", "writeFails", "unlocked"}

VARIABLES
  len,         \* the payload length of each frame begun
  sending,     \* the frame each thread is sending, 0 if none
  wrote,       \* how much of it each thread has written
  pipe,        \* the bytes in the stream
  phase,       \* the part of a frame that ReceiveTLV reads, or "idle"
  want,        \* the length in the header it has read
  got,         \* the bytes it has read
  sent,        \* the frames written to the end, in order
  delivered,   \* the frames ReceiveTLV returned, 0 for one nobody sent
  reported     \* has any call returned a failure?

sender == <<len, sending, wrote, sent>>
receiver == <<phase, want, got, delivered>>
vars == <<sender, receiver, pipe, reported>>

Frame == 1 .. MaxFrames
Byte == [frame : Frame, at : Nat]

TypeOK ==
  /\ len \in Seq(Lens) /\ Len(len) <= MaxFrames
  /\ sending \in [Sender -> 0 .. Len(len)]
  /\ \A s \in Sender : sending[s] # 0 => wrote[s] \in 0 .. HeaderLen + len[sending[s]]
  /\ pipe \in Seq(Byte) /\ Len(pipe) <= PipeSize
  /\ phase \in {"idle", "header", "payload"}
  /\ want \in Lens \cup {0}
  /\ got \in Seq(Byte) /\ Len(got) <= HeaderLen + want
  /\ sent \in Seq(Frame)
  /\ delivered \in Seq(Frame \cup {0})
  /\ reported \in BOOLEAN

Init ==
  /\ len = <<>>
  /\ sending = [s \in Sender |-> 0]
  /\ wrote = [s \in Sender |-> 0]
  /\ pipe = <<>>
  /\ phase = "idle" /\ want = 0 /\ got = <<>>
  /\ sent = <<>> /\ delivered = <<>>
  /\ reported = FALSE

-----------------------------------------------------------------------------
(* SendTLV, in a thread.                                                   *)

(* What SendFrame passes on to SendTLV.                                    *)
Accepts(l) == l >= Shortest

SendTLV(s, l) ==
  /\ sending[s] = 0
  /\ Len(len) < MaxFrames /\ Accepts(l)
  /\ "unlocked" \in Env \/ \A r \in Sender : sending[r] = 0
  /\ len' = Append(len, l)
  /\ sending' = [sending EXCEPT ![s] = Len(len) + 1]
  /\ wrote' = [wrote EXCEPT ![s] = 0]
  /\ UNCHANGED <<receiver, pipe, sent, reported>>

(* Where the part ends that WriteBuf is at: header or payload.             *)
PartEnd(s) == IF wrote[s] < HeaderLen THEN HeaderLen ELSE HeaderLen + len[sending[s]]

Bytes(s, n) == [i \in 1 .. n |-> [frame |-> sending[s], at |-> wrote[s] + i]]

(* The handle takes no more than the stream has room for.                  *)
HasRoom(n) == Len(pipe) + n <= PipeSize

WriteOnce(s) ==
  /\ sending[s] # 0
  /\ \E n \in 1 .. PartEnd(s) - wrote[s] :
       /\ HasRoom(n)
       /\ pipe' = pipe \o Bytes(s, n)
       /\ wrote' = [wrote EXCEPT ![s] = PartEnd(s)]
       /\ IF PartEnd(s) = HeaderLen + len[sending[s]]
            THEN sending' = [sending EXCEPT ![s] = 0] /\ sent' = Append(sent, sending[s])
            ELSE UNCHANGED <<sending, sent>>
  /\ UNCHANGED <<receiver, len, reported>>

(* A write takes what the stream has room for; SendTLV returns after the   *)
(* last byte.                                                              *)
Write(s) ==
  /\ sending[s] # 0
  /\ \E n \in 1 .. PartEnd(s) - wrote[s] :
       /\ HasRoom(n)
       /\ pipe' = pipe \o Bytes(s, n)
       /\ wrote' = [wrote EXCEPT ![s] = wrote[s] + n]
       /\ IF wrote[s] + n = HeaderLen + len[sending[s]]
            THEN sending' = [sending EXCEPT ![s] = 0] /\ sent' = Append(sent, sending[s])
            ELSE UNCHANGED <<sending, sent>>
  /\ UNCHANGED <<receiver, len, reported>>

WriteFailsUnseen(s) ==
  /\ "writeFails" \in Env /\ sending[s] # 0
  /\ sending' = [sending EXCEPT ![s] = 0]
  /\ UNCHANGED <<receiver, pipe, len, wrote, sent, reported>>

(* SendTLV then returns 0 for the header, what it wrote of the payload     *)
(* else: not len, unless len is 0.                                         *)
WriteFails(s) ==
  /\ "writeFails" \in Env /\ sending[s] # 0
  /\ sending' = [sending EXCEPT ![s] = 0]
  /\ reported' = (reported \/ len[sending[s]] # 0)
  /\ UNCHANGED <<receiver, pipe, len, wrote, sent>>

-----------------------------------------------------------------------------
(* ReceiveTLV.                                                             *)

ReceiveTLV ==
  /\ phase = "idle"
  /\ phase' = "header" /\ want' = 0 /\ got' = <<>>
  /\ UNCHANGED <<sender, pipe, delivered, reported>>

(* Are these the first bytes of a frame?                                   *)
Begins(bytes) == \A i \in DOMAIN bytes : bytes[i] = [frame |-> bytes[1].frame, at |-> i]

(* The len in a header; bytes that are not a header may say anything, of   *)
(* which some of Lens and 0 are enough.                                    *)
LenIn(bytes) == IF Begins(bytes) THEN {len[bytes[1].frame]} ELSE Lens \cup {0}

(* The frame that was received, if it is one that was sent.                *)
FrameOf(bytes) ==
  IF Begins(bytes) /\ Len(bytes) = HeaderLen + len[bytes[1].frame] THEN bytes[1].frame ELSE 0

(* One read of the stream's handle.                                        *)
Take(n) ==
  /\ n <= Len(pipe)
  /\ got' = got \o SubSeq(pipe, 1, n)
  /\ pipe' = SubSeq(pipe, n + 1, Len(pipe))

(* A step of ReadBuf, which reads until it has what is missing.            *)
ReadBuf(missing) == \E n \in 1 .. missing : Take(n)

(* A len of 0 ends the call with 0, as a failure does.                     *)
ReadHeader ==
  /\ phase = "header"
  /\ ReadBuf(HeaderLen - Len(got))
  /\ IF Len(got') < HeaderLen
       THEN UNCHANGED <<phase, want, delivered, reported>>
       ELSE /\ want' \in LenIn(got')
            /\ IF want' > 0
                 THEN phase' = "payload" /\ UNCHANGED <<delivered, reported>>
                 ELSE /\ phase' = "idle"
                      /\ delivered' = Append(delivered, FrameOf(got'))
                      /\ reported' = TRUE
  /\ UNCHANGED sender

ReadPayload ==
  /\ phase = "payload"
  /\ ReadBuf(HeaderLen + want - Len(got))
  /\ IF Len(got') < HeaderLen + want
       THEN UNCHANGED <<phase, delivered>>
       ELSE phase' = "idle" /\ delivered' = Append(delivered, FrameOf(got'))
  /\ UNCHANGED <<sender, want, reported>>

(* ReceiveTLV then returns 0 for the header, and less than the whole frame *)
(* for the payload (one less than the header if nothing came).             *)
ReadFails ==
  /\ "readFails" \in Env
  /\ phase # "idle"
  /\ phase' = "idle"
  /\ reported' = TRUE
  /\ UNCHANGED <<sender, pipe, want, got, delivered>>

-----------------------------------------------------------------------------
Read == ReadHeader \/ ReadPayload

Next ==
  \/ \E s \in Sender : (\E l \in Lens : SendTLV(s, l)) \/ Write(s) \/ WriteFails(s)
  \/ ReceiveTLV \/ Read \/ ReadFails

Spec == Init /\ [][Next]_vars

(* A thread goes on with the frame it sends, and a receiver keeps calling. *)
FairSpec ==
  Spec /\ WF_vars(ReceiveTLV) /\ WF_vars(Read) /\ \A s \in Sender : WF_vars(Write(s))

-----------------------------------------------------------------------------
(* However short the reads and writes are, the frames arrive whole, in     *)
(* order and once; when a read or a write fails they may not, and nothing  *)
(* that nobody sent is taken for a frame before a call has returned a      *)
(* failure (src/hc_transceiver.cpp:10-57, include/uc_stream.h:52-68,       *)
(* 111-129).                                                               *)
Channel == INSTANCE FrameChannel WITH broken <- reported

ImplementsChannel == Channel!Spec

(* What is sent is delivered, also when it is longer than the stream       *)
(* holds, or someone is told of a failure.                                 *)
EveryFrameArrives ==
  \A k \in Frame : Len(len) >= k ~> Len(delivered) >= k \/ reported
=============================================================================
