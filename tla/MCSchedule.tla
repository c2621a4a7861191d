----------------------------- MODULE MCSchedule ----------------------------
(***************************************************************************)
(* Instance of Schedule for TLC: days of four seconds, the local time one  *)
(* of them ahead of UTC.                                                   *)
(***************************************************************************)
EXTENDS Schedule

MCKinds ==
  {[density |-> "once", interval |-> t, flag |-> {}] : t \in {9, 14}}
  \cup {[density |-> "secondly", interval |-> n, flag |-> {}] : n \in {0, 1, 3}}
  \cup {[density |-> "daysOfWeek", interval |-> t, flag |-> f]
          : t \in {1, 2}, f \in {{0, 1, 2}, {6}, {0, 3, 4, 5, 6}}}
=============================================================================
