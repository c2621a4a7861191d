------------------------------ MODULE ByteFifo ------------------------------
(***************************************************************************)
(* What a byte buffer of the audio path promises to its callers: a bounded *)
(* first-in first-out queue of bytes whose two operations move as many     *)
(* bytes as they can and say how many that was.  LoopBuffer implements it. *)
(***************************************************************************)
EXTENDS Naturals, Sequences

CONSTANTS
  FCapcity,   \* the most bytes the queue holds
  Byte,       \* the values of a byte
  Counts,     \* the byte counts a caller asks Read for
  Inputs      \* the byte strings a caller passes to Write

VARIABLES
  fifo,       \* the bytes written and not read yet, oldest first
  result      \* what the last call handed back: its count and its bytes

vars == <<fifo, result>>

Smaller(a, b) == IF a < b THEN a ELSE b

Init ==
  /\ fifo = <<>>
  /\ result = [count |-> 0, bytes |-> <<>>]

(* The oldest bytes leave, as many as are asked for and there.             *)
Read(count) ==
  LET n == Smaller(count, Len(fifo)) IN
  /\ result' = [count |-> n, bytes |-> SubSeq(fifo, 1, n)]
  /\ fifo' = SubSeq(fifo, n + 1, Len(fifo))

(* A prefix of the data enters, as long as the free room allows.           *)
Write(data) ==
  LET n == Smaller(Len(data), FCapcity - Len(fifo)) IN
  /\ result' = [count |-> n, bytes |-> <<>>]
  /\ fifo' = fifo \o SubSeq(data, 1, n)

Clear ==
  /\ fifo' = <<>>
  /\ result' = [count |-> 0, bytes |-> <<>>]

Next ==
  \/ \E count \in Counts : Read(count)
  \/ \E data \in Inputs : Write(data)
  \/ Clear

Spec == Init /\ [][Next]_vars
=============================================================================
