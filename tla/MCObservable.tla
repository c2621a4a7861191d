---------------------------- MODULE MCObservable ---------------------------
(***************************************************************************)
(* Instance of Observable for TLC.                                         *)
(***************************************************************************)
EXTENDS Observable, TLC

MCSymmetry == Permutations(Node) \cup Permutations(Value)
=============================================================================
