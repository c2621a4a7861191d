----------------------------- MODULE ValueList -----------------------------
(***************************************************************************)
(* What users of TList rely on: a sequence of values that grows at both    *)
(* ends, shrinks at the front, and gives up the value an iterator stands   *)
(* before.  LinkedList implements it.                                      *)
(***************************************************************************)
EXTENDS Naturals, Sequences

CONSTANT Value

VARIABLE values

Init == values = <<>>

PushFront(v) == values' = <<v>> \o values

PushBack(v) == values' = Append(values, v)

(* All values but the i-th.                                                *)
RemoveOne(i) ==
  values' = [k \in 1 .. Len(values) - 1 |-> values[IF k < i THEN k ELSE k + 1]]

Clear == values' = <<>>

Next ==
  \/ \E v \in Value : PushFront(v) \/ PushBack(v)
  \/ \E i \in 1 .. Len(values) : RemoveOne(i)
  \/ Clear

Spec == Init /\ [][Next]_values
=============================================================================
