---------------------------- MODULE FrameChannel ---------------------------
(***************************************************************************)
(* What the two ends of a transceiver rely on: until one of them is told   *)
(* of a failure, the frames that were sent arrive, whole, in order and     *)
(* once.  TlvStream implements it.                                         *)
(***************************************************************************)
EXTENDS Naturals, Sequences

CONSTANT Frame

VARIABLES sent, delivered, broken

Init == sent = <<>> /\ delivered = <<>> /\ broken = FALSE

Send(f) ==
  /\ sent' = Append(sent, f)
  /\ UNCHANGED delivered

Deliver ==
  /\ Len(delivered) < Len(sent)
  /\ delivered' = Append(delivered, sent[Len(delivered) + 1])
  /\ UNCHANGED sent

(* Nobody mends a channel that is broken.                                  *)
Next ==
  \/ ~ broken' /\ ~ broken /\ ((\E f \in Frame : Send(f)) \/ Deliver)
  \/ broken'

Spec == Init /\ [][Next]_<<sent, delivered, broken>>
=============================================================================
