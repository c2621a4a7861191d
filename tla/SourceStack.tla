---------------------------- MODULE SourceStack ----------------------------
(***************************************************************************)
(* What the mixer promises about several audio sources: the one added last *)
(* plays, the others wait in the order they were displaced, and when the   *)
(* playing one leaves, the one displaced last takes over.  AudioMixer      *)
(* implements it.                                                          *)
(***************************************************************************)
EXTENDS SourceList

CONSTANT Source

VARIABLE stack   \* the sources, each at most once, the playing one first

Init == stack = <<>>

Add(s) == stack' = <<s>> \o Without(stack, s)

Remove(s) == stack' = Without(stack, s)

Next == \E s \in Source : Add(s) \/ Remove(s)

Spec == Init /\ [][Next]_stack
=============================================================================
