------------------------------ MODULE Schedule -----------------------------
(***************************************************************************)
(* TSchedule and TScheduleList (include/hc_schedule.h) with the part of    *)
(* TDateTime (include/hc_datetime.h) they use.  The owner of the list      *)
(* calls Execute from time to time, several times in a second or once in   *)
(* a day; the clock goes on, or is set.                                    *)
(***************************************************************************)
EXTENDS Integers, Sequences

CONSTANTS
  Event,      \* the objects derived from TSchedule
  Kinds,      \* what they may be constructed with
  DayLen,     \* seconds in a day, 86400
  UtcOffset,  \* local time minus UTC, in seconds
  Word,       \* 2^32, the number of values of uint32_t
  Start,      \* when the clock starts, 2000 or later
  MaxNow,     \* where it ends
  MaxEntries  \* bound: how often an event stands in the list

ASSUME ScheduleAssumption ==
  /\ \A k \in Kinds : /\ k.density \in {"once", "secondly", "daysOfWeek"}
                      /\ k.interval \in Nat /\ k.flag \subseteq 0 .. 6
  /\ DayLen \in Nat \ {0} /\ UtcOffset \in 1 - DayLen .. DayLen - 1
  /\ Start \in Nat /\ MaxNow \in Nat /\ Word \in Nat
  /\ Start > 2 * DayLen /\ MaxNow >= Start /\ Word > MaxNow + DayLen
  /\ MaxEntries \in Nat

VARIABLES
  kind,             \* FDensity, FInterval and FFlag of each event
  list,             \* how often each event stands in the list
  FLastExecuteDT,   \* of each event, or Null
  now,              \* the clock
  polled,           \* has the list's Execute just returned?
  ran,              \* how often it has executed each event
  lastRun,          \* when each event was executed last, 0 for never
  clockSet          \* no variable of the code: has someone set the clock?

vars == <<kind, list, FLastExecuteDT, now, polled, ran, lastRun, clockSet>>

(* What a TScheduleList finds the clock at: the constructor sets one that  *)
(* was never set to the year 2000.                                         *)
Clock == Start .. MaxNow

Null == 0   \* no time

TypeOK ==
  /\ kind \in [Event -> Kinds]
  /\ list \in [Event -> 0 .. MaxEntries]
  /\ FLastExecuteDT \in [Event -> 0 .. MaxNow + DayLen]
  /\ now \in Clock
  /\ polled \in BOOLEAN
  /\ ran \in [Event -> 0 .. MaxEntries]
  /\ lastRun \in [Event -> {Null} \cup Clock]
  /\ clockSet \in BOOLEAN

Init ==
  /\ kind \in [Event -> Kinds]
  /\ list = [e \in Event |-> 0]
  /\ FLastExecuteDT = [e \in Event |-> Null]
  /\ now = Start
  /\ polled = FALSE
  /\ ran = [e \in Event |-> 0]
  /\ lastRun = [e \in Event |-> 0]
  /\ clockSet = FALSE

-----------------------------------------------------------------------------
(* What localtime_r makes of a time.  The first day was a Thursday.        *)
LocalDay(t) == (t + UtcOffset) \div DayLen
SecondOfDay(t) == (t + UtcOffset) % DayLen
DayOfWeek(t) == (LocalDay(t) + 4) % 7

SecondDiffSigned(f) == now - f

(* SecondsBetween, kept in a uint32_t: a clock set back makes it large.    *)
SecondDiff(f) == (now - f) % Word

NeedOften(e, f) ==
  LET k == kind[e]
  IN /\ k.interval # 0
     /\ \/ /\ k.density = "once"
           /\ now >= k.interval
        \/ /\ k.density = "secondly"
           /\ SecondDiff(f) > 0
        \/ /\ k.density = "daysOfWeek"
           /\ SecondDiff(f) > 0
           /\ SecondOfDay(now) >= k.interval /\ DayOfWeek(now) \in k.flag

(* Is an event due that has f in its FLastExecuteDT?                       *)
NeedExecute(e, f) ==
  LET k == kind[e]
  IN /\ k.interval # 0
     /\ \/ /\ k.density = "once"
           /\ f = Null /\ now >= k.interval
        \/ /\ k.density = "secondly"
           /\ SecondDiff(f) > 0 /\ SecondDiff(f) >= k.interval
        \/ /\ k.density = "daysOfWeek"
           /\ SecondDiff(f) >= DayLen
           /\ SecondOfDay(now) >= k.interval /\ DayOfWeek(now) \in k.flag

LastPlain(e) == now

LastAdds(e) ==
  IF kind[e].density = "daysOfWeek" THEN now + kind[e].interval + (now % DayLen) ELSE now

(* A daily event notes the hour it was due, on the day it is in Greenwich. *)
UpdateLastExecute(e) ==
  IF kind[e].density = "daysOfWeek" THEN now + (kind[e].interval - (now % DayLen)) ELSE now

-----------------------------------------------------------------------------
GoesOn == polled' = FALSE /\ ran' = [e \in Event |-> 0]

(* PushBack, of an event that is in the list as well.                      *)
Add(e) ==
  /\ list[e] < MaxEntries
  /\ list' = [list EXCEPT ![e] = @ + 1]
  /\ GoesOn
  /\ UNCHANGED <<kind, FLastExecuteDT, now, lastRun, clockSet>>

Remove(e) ==
  /\ list[e] > 0
  /\ list' = [list EXCEPT ![e] = @ - 1]
  /\ GoesOn
  /\ UNCHANGED <<kind, FLastExecuteDT, now, lastRun, clockSet>>

(* An event that is due is executed for its first entry; what it notes     *)
(* then is the same each time, and decides about its other entries.        *)
Times(e) ==
  IF ~ NeedExecute(e, FLastExecuteDT[e]) THEN 0
  ELSE IF list[e] > 1 /\ ~ NeedExecute(e, UpdateLastExecute(e)) THEN 1
  ELSE list[e]

(* The list executes what is due and removes what was to happen once.      *)
Execute ==
  /\ ~ polled /\ polled' = TRUE
  /\ ran' = [e \in Event |-> Times(e)]
  /\ FLastExecuteDT' =
       [e \in Event |-> IF Times(e) > 0 THEN UpdateLastExecute(e) ELSE FLastExecuteDT[e]]
  /\ lastRun' = [e \in Event |-> IF Times(e) > 0 THEN now ELSE lastRun[e]]
  /\ list' = [e \in Event |-> IF kind[e].density = "once" THEN list[e] - Times(e) ELSE list[e]]
  /\ UNCHANGED <<kind, now, clockSet>>

Return ==
  /\ polled
  /\ GoesOn
  /\ UNCHANGED <<kind, list, FLastExecuteDT, now, lastRun, clockSet>>

Tick ==
  /\ now < MaxNow
  /\ now' = now + 1
  /\ GoesOn
  /\ UNCHANGED <<kind, list, FLastExecuteDT, lastRun, clockSet>>

SetClock(t) ==
  /\ now' = t
  /\ clockSet' = TRUE
  /\ GoesOn
  /\ UNCHANGED <<kind, list, FLastExecuteDT, lastRun>>

Next ==
  \/ \E e \in Event : Add(e) \/ Remove(e)
  \/ Execute \/ Return \/ Tick
  \/ \E t \in Clock : SetClock(t)

Spec == Init /\ [][Next]_vars

-----------------------------------------------------------------------------
Of(density) == {e \in Event : kind[e].density = density}

(* What is to happen once happens at most once and not before its time,    *)
(* also when it is added again, added twice or the clock is set            *)
(* (include/hc_schedule.h:90-91, 130-142).                                 *)
OnceOnly ==
  [][\A e \in Of("once") : ran'[e] > 0 =>
       ran'[e] = 1 /\ lastRun[e] = 0 /\ now >= kind[e].interval]_vars

(* Until someone sets the clock, an event with an interval is not executed *)
(* twice within it (include/hc_schedule.h:93-100).                         *)
Spaced ==
  [][~ clockSet => \A e \in Of("secondly") : ran'[e] > 0 =>
       ran'[e] = 1 /\ (lastRun[e] # 0 => now - lastRun[e] >= kind[e].interval)]_vars

(* And when the list is executed, it is executed unless it was within that *)
(* interval: setting the clock back does not stop it until the old time    *)
(* comes round again (include/hc_schedule.h:93-100).                       *)
IntervalIsServed ==
  [][polled' =>
       \A e \in Of("secondly") :
         list[e] > 0 /\ kind[e].interval # 0
           => lastRun'[e] \in now - kind[e].interval + 1 .. now]_vars

(* The hour of a daily event, taken in UTC, on the day a time t is in UTC: *)
(* this is what UpdateLastExecute notes, whatever the local time is.       *)
UtcHour(e, t) == DayLen * (t \div DayLen) + kind[e].interval

(* Until someone sets the clock, a daily event is executed on its local    *)
(* days and not before its local hour only; and if it has run when its     *)
(* hour was past in UTC as well, then neither by another of its entries    *)
(* nor before that hour in UTC of the next day.  (Where the two hours      *)
(* differ, an event that has run before its hour in UTC has noted a time   *)
(* ahead of the clock, and nothing holds it back until then.)              *)
(* (include/hc_schedule.h:65-70, 102-103.)                                 *)
OnceADay ==
  [][~ clockSet => \A e \in Of("daysOfWeek") : ran'[e] > 0 =>
       /\ SecondOfDay(now) >= kind[e].interval
       /\ DayOfWeek(now) \in kind[e].flag
       /\ UtcHour(e, now) <= now => ran'[e] = 1
       /\ (lastRun[e] # 0 /\ UtcHour(e, lastRun[e]) <= lastRun[e])
            => now >= UtcHour(e, lastRun[e]) + DayLen]_vars

(* And it is executed: whenever the list is, past the event's local hour   *)
(* on one of its local days, the event is executed now, or this is one of  *)
(* the 24 hours that follow its hour in UTC on the day it ran last,        *)
(* however long the owner of the list was away and whoever set the clock.  *)
(* (Away from Greenwich these may take in its local hour of the next day,  *)
(* and it is not served then.)                                             *)
(* (include/hc_schedule.h:65-70, 102-103, 130-142.)                        *)
DayIsServed ==
  [][polled' =>
       \A e \in Of("daysOfWeek") :
         (/\ list[e] > 0 /\ kind[e].interval # 0
          /\ SecondOfDay(now) >= kind[e].interval
          /\ DayOfWeek(now) \in kind[e].flag)
           => /\ lastRun'[e] # 0
              /\ \/ lastRun'[e] = now
                 \/ now \in UtcHour(e, lastRun'[e]) .. UtcHour(e, lastRun'[e]) + DayLen - 1]_vars

(* "schedule least 1 second" (include/hc_schedule.h:94): an event is not   *)
(* executed twice in one second.                                           *)
LeastOneSecond ==
  [][\A e \in Event : ran'[e] > 0 => ran'[e] = 1 /\ lastRun[e] # now]_vars
=============================================================================
