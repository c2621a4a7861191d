----------------------------- MODULE MCUtilities ----------------------------
(***************************************************************************)
(* One instance for TLC of three utilities that share nothing: a behaviour *)
(* is one of LoopBuffer, of LinkedList or of Schedule, which part tells,   *)
(* and the variables of the other two stay as they begin.                  *)
(*                                                                         *)
(* The ring has a few bytes and gets requests up to one byte longer than   *)
(* it is; the items of the list are interchangeable; days have four        *)
(* seconds, and the local time is one of them ahead of UTC.                *)
(***************************************************************************)
EXTENDS LoopBuffer, LinkedList, MCSchedule, TLC

CONSTANT Longest   \* the longest request

VARIABLE part

Seqs == INSTANCE SequencesExt

MCCounts == 0 .. Longest
MCInputs == Seqs!BoundedSeq(Byte, Longest)
MCSymmetry == Permutations(Node)

MCInit ==
  /\ part \in {"ring", "list", "schedule"}
  /\ RingInit /\ ListInit /\ Init
  /\ part # "ring" => FBuf = [o \in Offsets |-> CHOOSE b \in Byte : TRUE]
  /\ part # "schedule" => kind = [e \in Event |-> CHOOSE k \in Kinds : TRUE]

MCNext ==
  \/ part = "ring" /\ RingNext /\ UNCHANGED <<part, listVars, vars>>
  \/ part = "list" /\ ListNext /\ UNCHANGED <<part, ringVars, vars>>
  \/ part = "schedule" /\ Next /\ UNCHANGED <<part, ringVars, listVars>>

MCSpec == MCInit /\ [][MCNext]_<<part, ringVars, listVars, vars>>
=============================================================================
