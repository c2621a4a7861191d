----------------------------- MODULE SourceList -----------------------------
(***************************************************************************)
(* Lists of audio sources: std::list as the mixer and the stack it         *)
(* implements use it.  The recursion is that of a function on an interval, *)
(* which, unlike SelectSeq and the folds, can be reasoned about.           *)
(***************************************************************************)
EXTENDS Naturals, Sequences

(* What stands in those places of a sequence, in order.                    *)
Picked(seq, places) ==
  LET picked[i \in 0 .. Len(seq)] ==
        IF i = 0 THEN <<>>
        ELSE IF i \in places THEN Append(picked[i - 1], seq[i]) ELSE picked[i - 1]
  IN picked[Len(seq)]

(* All but s: std::list::remove.                                           *)
Without(seq, s) == Picked(seq, {i \in DOMAIN seq : seq[i] # s})

(* Only the first place of each counts.                                    *)
Once(seq) == Picked(seq, {i \in DOMAIN seq : \A j \in 1 .. i - 1 : seq[j] # seq[i]})
=============================================================================
