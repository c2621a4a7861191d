------------------------------ MODULE RingState -----------------------------
(***************************************************************************)
(* What the two models of TLoopBuffer (include/hc_loopbuffer.h) share: the *)
(* capacity and the two counters.  LoopBuffer adds the bytes,              *)
(* SharedLoopBuffer the threads.                                           *)
(***************************************************************************)
EXTENDS Naturals

CONSTANT FCapcity   \* the size given to the constructor, in bytes

(* TSDLAudioPlay::Open builds the buffer from a sample count and a channel *)
(* count; Write divides by the capacity, so it has to be positive.         *)
ASSUME RingAssumption == FCapcity \in Nat \ {0}

VARIABLES
  FReadIdx,   \* offset of the oldest unread byte
  FWrited     \* how many bytes are unread
=============================================================================
