----------------------------- MODULE LoopBuffer -----------------------------
(***************************************************************************)
(* TLoopBuffer (include/hc_loopbuffer.h): the ring of bytes between the    *)
(* thread that produces audio and the SDL callback that plays it.  Here    *)
(* every call runs alone; SharedLoopBuffer lets the two threads overlap.   *)
(***************************************************************************)
EXTENDS RingState, Sequences

CONSTANTS
  Byte,       \* the values of a byte
  Counts,     \* the byte counts a caller asks Read for
  Inputs      \* the byte strings a caller passes to Write

ASSUME LoopBufferAssumption ==
  /\ Byte # {}
  /\ Counts \subseteq Nat
  /\ Inputs \subseteq Seq(Byte)

VARIABLES
  FBuf,       \* the allocated bytes, by offset
  result      \* what the last call handed back: its count and its bytes

ringVars == <<FBuf, FReadIdx, FWrited, result>>

Offsets == 0 .. FCapcity - 1

RingTypeOK ==
  /\ FBuf \in [Offsets -> Byte]
  /\ FReadIdx \in Offsets
  /\ FWrited \in 0 .. FCapcity
  /\ result \in [count : Nat, bytes : Seq(Byte)]

-----------------------------------------------------------------------------
Unclamped(a, b) == a

(* A request is clamped to what is there, data to the room that is left.   *)
Smaller(a, b) == IF a < b THEN a ELSE b

(* memcpy out of the buffer: the len bytes that start at an offset.        *)
BytesAt(offset, len) == [i \in 1 .. len |-> FBuf[offset + i - 1]]

CopyToStart(buf, offset, src) ==
  [o \in Offsets |-> IF o < Len(src) THEN src[o + 1] ELSE buf[o]]

(* memcpy into a buffer: src replaces the bytes from an offset on.         *)
CopyTo(buf, offset, src) ==
  [o \in Offsets |->
     IF offset <= o /\ o < offset + Len(src) THEN src[o - offset + 1] ELSE buf[o]]

(* operator new[] leaves the bytes as they come.                           *)
RingInit ==
  /\ FBuf \in [Offsets -> Byte]
  /\ FReadIdx = 0
  /\ FWrited = 0
  /\ result = [count |-> 0, bytes |-> <<>>]

(* The copy is split in two when the bytes run over the end of the buffer. *)
Read(count) ==
  LET n == Smaller(count, FWrited)
      tail == FCapcity - FReadIdx
  IN /\ result' = [count |-> n,
                   bytes |-> IF FReadIdx + n > FCapcity
                               THEN BytesAt(FReadIdx, tail) \o BytesAt(0, n - tail)
                               ELSE BytesAt(FReadIdx, n)]
     /\ FReadIdx' = (FReadIdx + n) % FCapcity
     /\ FWrited' = FWrited - n
     /\ UNCHANGED FBuf

Write(data) ==
  LET writable == FCapcity - FWrited
      writeIdx == (FReadIdx + FWrited) % FCapcity
      n == Smaller(Len(data), writable)
      tail == FCapcity - writeIdx
  IN /\ FBuf' = IF writeIdx + n > FCapcity
                  THEN CopyTo(CopyTo(FBuf, writeIdx, SubSeq(data, 1, tail)),
                              0, SubSeq(data, tail + 1, n))
                  ELSE CopyTo(FBuf, writeIdx, SubSeq(data, 1, n))
     /\ FWrited' = FWrited + n
     /\ result' = [count |-> n, bytes |-> <<>>]
     /\ UNCHANGED FReadIdx

Clear ==
  /\ FReadIdx' = 0
  /\ FWrited' = 0
  /\ result' = [count |-> 0, bytes |-> <<>>]
  /\ UNCHANGED FBuf

RingNext ==
  \/ \E count \in Counts : Read(count)
  \/ \E data \in Inputs : Write(data)
  \/ Clear

RingSpec == RingInit /\ [][RingNext]_ringVars

-----------------------------------------------------------------------------
(* The unread bytes in the order they were written.                        *)
Unread == [i \in 1 .. FWrited |-> FBuf[(FReadIdx + i - 1) % FCapcity]]

Fifo == INSTANCE ByteFifo WITH fifo <- Unread

(* The ring is a bounded FIFO queue: every call of TLoopBuffer hands back  *)
(* and keeps exactly what the queue would, whatever the wrap-around of the *)
(* two indexes, and a short Write or Read loses and repeats no byte.       *)
ImplementsFifo == Fifo!Spec
=============================================================================
