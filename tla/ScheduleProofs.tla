--------------------------- MODULE ScheduleProofs --------------------------
(***************************************************************************)
(* What holds of Schedule for all events, clocks and time zones.           *)
(***************************************************************************)
EXTENDS Schedule, TLAPS

(* An event that does not count days notes when it has run.                *)
Noted ==
  \A e \in Event : kind[e].density # "daysOfWeek" => FLastExecuteDT[e] = lastRun[e]

(* And that was not in the future, until someone sets the clock.           *)
Past ==
  ~ clockSet =>
    /\ now \in Clock
    /\ \A e \in Event : lastRun[e] \in 0 .. now

-----------------------------------------------------------------------------
(* Only the list's Execute executes anything.                              *)
LEMMA OnlyExecuteRuns ==
  ASSUME Next, ~ Execute
  PROVE  /\ ran' = [e \in Event |-> 0]
         /\ UNCHANGED <<kind, FLastExecuteDT, lastRun>>
BY DEF Next, Add, Remove, Return, Tick, SetClock, GoesOn

(* What it executes was due, and an event notes the moment; no other entry *)
(* of an event is due that has noted the moment.                           *)
LEMMA ExecuteRuns ==
  ASSUME Execute, NEW e \in Event
  PROVE  /\ ran'[e] = Times(e)
         /\ FLastExecuteDT'[e] = IF Times(e) > 0 THEN UpdateLastExecute(e) ELSE FLastExecuteDT[e]
         /\ lastRun'[e] = IF Times(e) > 0 THEN now ELSE lastRun[e]
         /\ kind' = kind /\ now' = now /\ clockSet' = clockSet
BY DEF Execute

LEMMA TimesIs ==
  ASSUME NEW e \in Event
  PROVE  /\ Times(e) > 0 => NeedExecute(e, FLastExecuteDT[e])
         /\ Times(e) > 0 /\ list[e] \in Nat /\ ~ NeedExecute(e, UpdateLastExecute(e))
              => Times(e) = 1
         /\ NeedExecute(e, FLastExecuteDT[e]) /\ list[e] \in Nat /\ list[e] > 0 => Times(e) > 0
BY DEF Times

LEMMA ExecuteNotes ==
  ASSUME Execute, NEW e \in Event, kind[e].density # "daysOfWeek"
  PROVE  /\ FLastExecuteDT'[e] = IF Times(e) > 0 THEN now ELSE FLastExecuteDT[e]
         /\ lastRun'[e] = IF Times(e) > 0 THEN now ELSE lastRun[e]
         /\ Times(e) > 0 => NeedExecute(e, FLastExecuteDT[e])
BY ExecuteRuns, TimesIs DEF UpdateLastExecute

LEMMA NotedInit == Init => Noted
BY DEF Init, Noted, Null

LEMMA NotedStep ==
  ASSUME Noted, [Next]_vars
  PROVE  Noted'
<1>1. CASE Execute
  <2> SUFFICES ASSUME NEW e \in Event, kind'[e].density # "daysOfWeek"
               PROVE  FLastExecuteDT'[e] = lastRun'[e]
    BY DEF Noted
  <2>1. kind[e].density # "daysOfWeek"
    BY <1>1 DEF Execute
  <2> QED
    BY <1>1, <2>1, ExecuteNotes DEF Noted
<1>2. CASE Next /\ ~ Execute
  BY <1>2, OnlyExecuteRuns DEF Noted
<1>3. CASE UNCHANGED vars
  BY <1>3 DEF vars, Noted
<1> QED
  BY <1>1, <1>2, <1>3

-----------------------------------------------------------------------------
(* What the list and the clock hold, and when events ran.                  *)
Known ==
  /\ kind \in [Event -> Kinds]
  /\ now \in Clock
  /\ lastRun \in [Event -> {0} \cup Clock]
  /\ list \in [Event -> Nat]

LEMMA KnownInit == Init => Known
BY ScheduleAssumption DEF Init, Known, Clock

LEMMA KnownStep ==
  ASSUME Known, [Next]_vars
  PROVE  Known'
<1>1. CASE Execute
  <2>1. now' = now /\ kind' = kind
    BY <1>1 DEF Execute
  <2>2. lastRun' = [e \in Event |-> IF Times(e) > 0 THEN now ELSE lastRun[e]]
    BY <1>1 DEF Execute
  <2>3. lastRun' \in [Event -> {0} \cup Clock]
    BY <2>2 DEF Known
  <2>4. list' = [e \in Event |-> IF kind[e].density = "once" THEN list[e] - Times(e) ELSE list[e]]
    BY <1>1 DEF Execute
  <2>5. ASSUME NEW e \in Event PROVE list[e] \in Nat /\ list[e] - Times(e) \in Nat
    BY DEF Known, Times
  <2>6. list' \in [Event -> Nat]
    BY <2>4, <2>5
  <2> QED
    BY <2>1, <2>3, <2>6 DEF Known, Clock
<1>2. CASE Next /\ ~ Execute
  <2>1. now' \in Clock
    BY <1>2, ScheduleAssumption DEF Next, Add, Remove, Return, Tick, SetClock, Known, Clock
  <2>2. lastRun' = lastRun /\ kind' = kind
    BY <1>2, OnlyExecuteRuns
  <2>3. list' \in [Event -> Nat]
    <3>1. CASE \E e \in Event : Add(e)
      BY <3>1 DEF Add, Known
    <3>2. CASE \E e \in Event : Remove(e)
      <4>1. PICK e \in Event : list[e] > 0 /\ list' = [list EXCEPT ![e] = @ - 1]
        BY <3>2 DEF Remove
      <4>2. list[e] \in Nat /\ list[e] - 1 \in Nat
        BY <4>1 DEF Known
      <4> QED
        BY <4>1, <4>2 DEF Known
    <3>3. CASE list' = list
      BY <3>3 DEF Known
    <3> QED
      BY <1>2, <3>1, <3>2, <3>3 DEF Next, Return, Tick, SetClock
  <2> QED
    BY <2>1, <2>2, <2>3 DEF Known, Clock
<1>3. CASE UNCHANGED vars
  BY <1>3 DEF vars, Known, Clock
<1> QED
  BY <1>1, <1>2, <1>3

-----------------------------------------------------------------------------
OnceOnlyStep ==
  \A e \in Of("once") : ran'[e] > 0 => ran'[e] = 1 /\ lastRun[e] = 0 /\ now >= kind[e].interval

LEMMA OnceOnlyHolds ==
  ASSUME Noted, Known, Next
  PROVE  OnceOnlyStep
<1>1. CASE Execute
  <2> SUFFICES ASSUME NEW e \in Event, kind[e].density = "once", Times(e) > 0
               PROVE  Times(e) = 1 /\ lastRun[e] = 0 /\ now >= kind[e].interval
    BY <1>1, ExecuteRuns DEF OnceOnlyStep, Of
  <2>1. NeedExecute(e, FLastExecuteDT[e])
    BY TimesIs
  <2>2. FLastExecuteDT[e] = 0 /\ now >= kind[e].interval
    BY <2>1 DEF NeedExecute, Null
  <2>3. ~ NeedExecute(e, UpdateLastExecute(e))
    <3>1. UpdateLastExecute(e) = now /\ now # 0
      BY ScheduleAssumption DEF UpdateLastExecute, Known, Clock
    <3> QED
      BY <3>1 DEF NeedExecute, Null
  <2> QED
    BY <2>2, <2>3, TimesIs DEF Noted, Known
<1>2. CASE ~ Execute
  BY <1>2, OnlyExecuteRuns DEF OnceOnlyStep, Of
<1> QED
  BY <1>1, <1>2

(* What is to happen once happens once at most and not before its time,    *)
(* whoever adds the event again and whoever sets the clock                 *)
(* (TSchedule::NeedExecute).                                               *)
THEOREM OnceIsOnce == Spec => OnceOnly
<1>1. Init => Noted /\ Known
  BY NotedInit, KnownInit
<1>2. Noted /\ Known /\ [Next]_vars => (Noted /\ Known)'
  BY NotedStep, KnownStep
<1>3. Noted /\ Known /\ [Next]_vars => [OnceOnlyStep]_vars
  BY OnceOnlyHolds
<1> QED
  BY <1>1, <1>2, <1>3, PTL DEF Spec, OnceOnly, OnceOnlyStep

-----------------------------------------------------------------------------
LEMMA PastInit == Init => Past
BY ScheduleAssumption DEF Init, Past, Clock

LEMMA PastStep ==
  ASSUME Past, [Next]_vars
  PROVE  Past'
<1> SUFFICES ASSUME ~ clockSet'
             PROVE  Past'
  BY DEF Past
<1>0. ~ clockSet
  BY DEF Next, Add, Remove, Execute, Return, Tick, SetClock, vars
<1>1. CASE Execute
  <2>1. now' = now /\ now \in Nat
    BY <1>0, <1>1, ScheduleAssumption DEF Execute, Past, Clock
  <2>2. \A e \in Event : lastRun'[e] \in {now, lastRun[e]}
    BY <1>1, ExecuteRuns
  <2> QED
    BY <1>0, <2>1, <2>2 DEF Past, Clock
<1>2. CASE Next /\ ~ Execute
  <2>1. now' \in {now, now + 1} /\ now' \in Clock
    BY <1>0, <1>2, ScheduleAssumption DEF Next, Add, Remove, Return, Tick, SetClock, Past, Clock
  <2>2. lastRun' = lastRun
    BY <1>2, OnlyExecuteRuns
  <2> QED
    BY <1>0, <2>1, <2>2, ScheduleAssumption DEF Past, Clock
<1>3. CASE UNCHANGED vars
  BY <1>3 DEF vars, Past, Clock
<1> QED
  BY <1>1, <1>2, <1>3

(* While the time noted is not ahead of the clock, the difference of the   *)
(* two does not wrap.                                                      *)
LEMMA DiffExact ==
  ASSUME Past, ~ clockSet, NEW e \in Event, FLastExecuteDT[e] = lastRun[e]
  PROVE  SecondDiff(FLastExecuteDT[e]) = now - lastRun[e]
<1> DEFINE d == now - lastRun[e]
<1>1. d \in Nat /\ d < Word /\ Word \in Nat
  BY ScheduleAssumption DEF Past, Clock
<1>2. SecondDiff(FLastExecuteDT[e]) = d % Word
  BY DEF SecondDiff
<1> HIDE DEF d
<1>3. d % Word = d
  BY <1>1
<1> QED
  BY <1>2, <1>3 DEF d

(* Nor does it wrap for an event that has noted the moment.                *)
LEMMA DiffNow ==
  ASSUME Known
  PROVE  SecondDiff(now) = 0
<1>1. now - now = 0 /\ Word \in Nat \ {0}
  BY ScheduleAssumption DEF Known, Clock
<1>2. 0 % Word = 0
  BY <1>1
<1> QED
  BY <1>1, <1>2 DEF SecondDiff

SpacedStep ==
  ~ clockSet => \A e \in Of("secondly") : ran'[e] > 0 =>
    ran'[e] = 1 /\ (lastRun[e] # 0 => now - lastRun[e] >= kind[e].interval)

LEMMA SpacedHolds ==
  ASSUME Noted, Known, Past, Next
  PROVE  SpacedStep
<1>1. CASE Execute
  <2> SUFFICES ASSUME ~ clockSet, NEW e \in Event, kind[e].density = "secondly", Times(e) > 0
               PROVE  Times(e) = 1 /\ now - lastRun[e] >= kind[e].interval
    BY <1>1, ExecuteRuns DEF SpacedStep, Of
  <2>1. NeedExecute(e, FLastExecuteDT[e])
    BY TimesIs
  <2>2. SecondDiff(FLastExecuteDT[e]) >= kind[e].interval
    BY <2>1 DEF NeedExecute
  <2>3. ~ NeedExecute(e, UpdateLastExecute(e))
    <3>1. UpdateLastExecute(e) = now
      BY DEF UpdateLastExecute
    <3>2. ~ (SecondDiff(now) > 0)
      BY DiffNow
    <3> QED
      BY <3>1, <3>2 DEF NeedExecute
  <2> QED
    BY <2>2, <2>3, TimesIs, DiffExact DEF Noted, Known
<1>2. CASE ~ Execute
  BY <1>2, OnlyExecuteRuns DEF SpacedStep, Of
<1> QED
  BY <1>1, <1>2

(* Until someone sets the clock, an event with an interval is not executed *)
(* twice within it, however often the list is executed                     *)
(* (TSchedule::NeedExecute).                                               *)
THEOREM IntervalsKept == Spec => Spaced
<1>1. Init => Noted /\ Known /\ Past
  BY NotedInit, KnownInit, PastInit
<1>2. Noted /\ Known /\ Past /\ [Next]_vars => (Noted /\ Known /\ Past)'
  BY NotedStep, KnownStep, PastStep
<1>3. Noted /\ Known /\ Past /\ [Next]_vars => [SpacedStep]_vars
  BY SpacedHolds
<1> QED
  BY <1>1, <1>2, <1>3, PTL DEF Spec, Spaced, SpacedStep

-----------------------------------------------------------------------------
(* Events with an interval get their turn.                                 *)

(* No interval is as long as 2^32 seconds (136 years) less the time that   *)
(* the clock may be set back.                                              *)
NoLongInterval ==
  \A k \in Kinds : k.density = "secondly" => k.interval + (MaxNow - Start) < Word

(* The difference of two times in a uint32_t.                              *)
LEMMA Wraps ==
  ASSUME NEW a \in Int, NEW w \in Nat, - w <= a, a < w
  PROVE  a % w = IF a < 0 THEN a + w ELSE a
OBVIOUS

LEMMA SecondDiffIs ==
  ASSUME Known, NEW f \in 0 .. MaxNow + DayLen
  PROVE  SecondDiff(f) = IF now < f THEN now - f + Word ELSE now - f
<1> DEFINE a == now - f
<1>1. now \in Nat /\ f \in Nat /\ Word \in Nat /\ now < Word /\ f < Word
  BY ScheduleAssumption DEF Known, Clock
<1>2. a \in Int /\ - Word <= a /\ a < Word /\ (a < 0 <=> now < f)
  BY <1>1
<1> HIDE DEF a
<1>3. a % Word = IF a < 0 THEN a + Word ELSE a
  BY <1>1, <1>2, Wraps
<1>4. SecondDiff(f) = a % Word
  BY DEF SecondDiff, a
<1> QED
  BY <1>2, <1>3, <1>4 DEF a

(* The list's Execute alone returns with polled set.                       *)
LEMMA OnlyExecutePolls ==
  ASSUME Next, polled'
  PROVE  Execute
BY DEF Next, Add, Remove, Return, Tick, SetClock, GoesOn

IntervalStep ==
  polled' =>
    \A e \in Of("secondly") :
      list[e] > 0 /\ kind[e].interval # 0 => lastRun'[e] \in now - kind[e].interval + 1 .. now

(* Either the event was due, or it has run within the interval, or it has  *)
(* never run and the clock has not gone so far.                            *)
LEMMA IntervalHolds ==
  ASSUME NoLongInterval, Noted, Known, Next
  PROVE  IntervalStep
<1> SUFFICES ASSUME polled', NEW e \in Event, kind[e].density = "secondly", list[e] > 0,
                    kind[e].interval # 0
             PROVE  lastRun'[e] \in now - kind[e].interval + 1 .. now
  BY DEF IntervalStep, Of
<1>1. Execute
  BY OnlyExecutePolls
<1> DEFINE i == kind[e].interval
           f == lastRun[e]
           due == NeedExecute(e, FLastExecuteDT[e])
<1>2. lastRun'[e] = IF due THEN now ELSE f
  BY <1>1, ExecuteRuns, TimesIs DEF Known
<1>3. i \in Nat \ {0} /\ i + (MaxNow - Start) < Word
  BY ScheduleAssumption DEF Known, NoLongInterval
<1>4. /\ f \in {0} \cup Clock /\ FLastExecuteDT[e] = f
      /\ now \in Clock
  BY DEF Known, Noted
<1>5. /\ now \in Nat /\ f \in Nat /\ Start <= now /\ now <= MaxNow
      /\ f <= MaxNow /\ MaxNow \in Nat /\ Start \in Nat /\ Word \in Nat
  BY <1>4, ScheduleAssumption DEF Clock
<1>6. SecondDiff(f) = IF now < f THEN now - f + Word ELSE now - f
  BY <1>4, <1>5, ScheduleAssumption, SecondDiffIs
<1>7. due <=> SecondDiff(f) > 0 /\ SecondDiff(f) >= i
  BY <1>4 DEF NeedExecute
<1> HIDE DEF i, f, due
<1>8. CASE due
  <2>1. now \in now - i + 1 .. now
    BY <1>3, <1>5
  <2> QED
    BY <1>2, <1>8, <2>1 DEF i
<1>9. CASE ~ due
  <2>1. ~ (now < f)
    <3> SUFFICES ASSUME now < f
                 PROVE  FALSE
      OBVIOUS
    <3>1. SecondDiff(f) = now - f + Word
      BY <1>6
    <3>2. now - f + Word > 0 /\ now - f + Word >= i
      BY <1>3, <1>5
    <3> QED
      BY <1>7, <1>9, <3>1, <3>2
  <2>2. SecondDiff(f) = now - f
    BY <1>6, <2>1
  <2>3. f \in now - i + 1 .. now
    BY <1>3, <1>5, <1>7, <1>9, <2>1, <2>2
  <2> QED
    BY <1>2, <1>9, <2>3 DEF i
<1> QED
  BY <1>8, <1>9

(* Whenever the list is executed, an event with an interval is executed or *)
(* was within that interval, whoever set the clock, forth or back          *)
(* (TSchedule::NeedExecute).                                               *)
THEOREM IntervalsServed ==
  ASSUME NoLongInterval
  PROVE  Spec => IntervalIsServed
<1>1. Init => Noted /\ Known
  BY NotedInit, KnownInit
<1>2. Noted /\ Known /\ [Next]_vars => (Noted /\ Known)'
  BY NotedStep, KnownStep
<1>3. Noted /\ Known /\ [Next]_vars => [IntervalStep]_vars
  BY IntervalHolds
<1> QED
  BY <1>1, <1>2, <1>3, PTL DEF Spec, IntervalIsServed, IntervalStep

-----------------------------------------------------------------------------
(* Daily events, in any time zone.                                         *)

(* Times as days and seconds.                                              *)
LEMMA DayAndSecond ==
  ASSUME NEW t \in Nat
  PROVE  /\ t % DayLen \in 0 .. DayLen - 1
         /\ t = DayLen * (t \div DayLen) + (t % DayLen)
         /\ DayLen * (t \div DayLen) \in Nat
<1>1. \A d \in Nat \ {0} : t \div d \in Nat /\ t % d \in 0 .. d - 1
  OBVIOUS
<1>2. \A d \in Nat \ {0} : t = d * (t \div d) + (t % d)
  OBVIOUS
<1>3. \A d, k \in Nat : d * k \in Nat
  OBVIOUS
<1>4. DayLen \in Nat \ {0}
  BY ScheduleAssumption
<1> QED
  BY <1>1, <1>2, <1>3, <1>4

(* An event that is due at its local hour has one within the day, and what *)
(* it notes is that hour in UTC.                                           *)
LEMMA HourWithinDay ==
  ASSUME Known, NEW e \in Event, kind[e].density = "daysOfWeek",
         SecondOfDay(now) >= kind[e].interval
  PROVE  /\ kind[e].interval \in 0 .. DayLen - 1
         /\ UpdateLastExecute(e) = UtcHour(e, now)
<1> DEFINE i == kind[e].interval
           q == DayLen * (now \div DayLen)
           r == now % DayLen
<1>1. i \in Nat /\ now \in Nat /\ DayLen \in Nat \ {0}
  BY ScheduleAssumption DEF Known, Clock
<1>2. i \in 0 .. DayLen - 1
  <2>1. now + UtcOffset \in Nat
    BY ScheduleAssumption DEF Known, Clock
  <2>2. SecondOfDay(now) \in 0 .. DayLen - 1
    BY <1>1, <2>1 DEF SecondOfDay
  <2> HIDE DEF i
  <2> QED
    BY <1>1, <2>2 DEF i
<1>3. now = q + r /\ q \in Nat /\ r \in 0 .. DayLen - 1
  BY <1>1, DayAndSecond
<1>4. UpdateLastExecute(e) = now + (i - r) /\ UtcHour(e, now) = q + i
  BY DEF UpdateLastExecute, UtcHour
<1> HIDE DEF i, q, r
<1>5. now + (i - r) = q + i
  BY <1>1, <1>3
<1> QED
  BY <1>2, <1>4, <1>5 DEF i

(* A daily event has noted its hour in UTC, on the day it ran in UTC.      *)
HourNoted ==
  \A e \in Event : kind[e].density = "daysOfWeek" =>
    IF lastRun[e] = 0 THEN FLastExecuteDT[e] = 0
    ELSE FLastExecuteDT[e] = UtcHour(e, lastRun[e]) /\ kind[e].interval < DayLen

LEMMA HourInit == Init => HourNoted
BY DEF Init, HourNoted, Null

LEMMA HourStep ==
  ASSUME Known, HourNoted, [Next]_vars
  PROVE  HourNoted'
<1>1. CASE Execute
  <2> SUFFICES ASSUME NEW e \in Event, kind[e].density = "daysOfWeek"
               PROVE  IF lastRun'[e] = 0 THEN FLastExecuteDT'[e] = 0
                      ELSE /\ FLastExecuteDT'[e] = UtcHour(e, lastRun'[e])
                           /\ kind[e].interval < DayLen
    BY <1>1 DEF HourNoted, UtcHour, Execute
  <2>1. CASE Times(e) > 0
    <3>1. lastRun'[e] = now /\ FLastExecuteDT'[e] = UpdateLastExecute(e)
      BY <1>1, <2>1, ExecuteRuns
    <3>2. SecondOfDay(now) >= kind[e].interval
      BY <2>1, TimesIs DEF NeedExecute
    <3>3. FLastExecuteDT'[e] = UtcHour(e, now) /\ kind[e].interval \in 0 .. DayLen - 1
      BY <3>1, <3>2, HourWithinDay
    <3>4. now # 0 /\ kind[e].interval < DayLen
      BY <3>3, ScheduleAssumption DEF Known, Clock
    <3> QED
      BY <3>1, <3>3, <3>4
  <2>2. CASE ~ (Times(e) > 0)
    <3>1. lastRun'[e] = lastRun[e] /\ FLastExecuteDT'[e] = FLastExecuteDT[e]
      BY <1>1, <2>2, ExecuteRuns
    <3> QED
      BY <3>1 DEF HourNoted
  <2> QED
    BY <2>1, <2>2
<1>2. CASE Next /\ ~ Execute
  BY <1>2, OnlyExecuteRuns DEF HourNoted, UtcHour
<1>3. CASE UNCHANGED vars
  BY <1>3 DEF vars, HourNoted, UtcHour
<1> QED
  BY <1>1, <1>2, <1>3

(* What has been noted, and the difference from it to the clock: it wraps  *)
(* when the hour noted is ahead, and is then more than a day.              *)
LEMMA HourDiff ==
  ASSUME Known, NEW e \in Event, NEW t \in Nat, t <= MaxNow,
         kind[e].interval \in 0 .. DayLen - 1
  PROVE  /\ UtcHour(e, t) \in Nat
         /\ SecondDiff(UtcHour(e, t)) \in Nat
         /\ SecondDiff(UtcHour(e, t)) < DayLen => UtcHour(e, t) <= now
         /\ UtcHour(e, t) <= now => SecondDiff(UtcHour(e, t)) = now - UtcHour(e, t)
<1> DEFINE i == kind[e].interval
           q == DayLen * (t \div DayLen)
           r == t % DayLen
           f == UtcHour(e, t)
<1>1. /\ now \in Nat /\ Start <= now /\ now <= MaxNow /\ MaxNow \in Nat /\ DayLen \in Nat
      /\ Word \in Nat /\ Start \in Nat /\ Word > MaxNow + DayLen /\ Start > 2 * DayLen
  BY ScheduleAssumption DEF Known, Clock
<1>2. t = q + r /\ q \in Nat /\ r \in 0 .. DayLen - 1
  BY DayAndSecond
<1>3. f = q + i
  BY DEF UtcHour
<1> HIDE DEF f, i, q, r
<1>4. i \in 0 .. DayLen - 1
  BY DEF i
<1>5. f \in 0 .. MaxNow + DayLen
  BY <1>1, <1>2, <1>3, <1>4
<1>6. SecondDiff(f) = IF now < f THEN now - f + Word ELSE now - f
  BY <1>5, SecondDiffIs
<1>7. f \in Nat /\ f <= MaxNow + DayLen
  BY <1>1, <1>5
<1>8. now < f => now - f + Word \in Nat /\ ~ (now - f + Word < DayLen)
  BY <1>1, <1>7
<1>9. ~ (now < f) => now - f \in Nat
  BY <1>1, <1>7
<1>10. (now < f) \/ (f <= now)
  BY <1>1, <1>7
<1>11. f <= now => ~ (now < f)
  BY <1>1, <1>7
<1> QED
  BY <1>6, <1>7, <1>8, <1>9, <1>10, <1>11 DEF f

-----------------------------------------------------------------------------
DailyStep ==
  ~ clockSet => \A e \in Of("daysOfWeek") : ran'[e] > 0 =>
    /\ SecondOfDay(now) >= kind[e].interval
    /\ DayOfWeek(now) \in kind[e].flag
    /\ UtcHour(e, now) <= now => ran'[e] = 1
    /\ (lastRun[e] # 0 /\ UtcHour(e, lastRun[e]) <= lastRun[e])
         => now >= UtcHour(e, lastRun[e]) + DayLen

LEMMA DailyHolds ==
  ASSUME Known, Past, HourNoted, Next
  PROVE  DailyStep
<1>1. CASE Execute
  <2> SUFFICES ASSUME ~ clockSet, NEW e \in Event, kind[e].density = "daysOfWeek", Times(e) > 0
               PROVE  /\ SecondOfDay(now) >= kind[e].interval
                      /\ DayOfWeek(now) \in kind[e].flag
                      /\ UtcHour(e, now) <= now => Times(e) = 1
                      /\ (lastRun[e] # 0 /\ UtcHour(e, lastRun[e]) <= lastRun[e])
                           => now >= UtcHour(e, lastRun[e]) + DayLen
    BY <1>1, ExecuteRuns DEF DailyStep, Of
  <2>1. NeedExecute(e, FLastExecuteDT[e])
    BY TimesIs
  <2>2. /\ SecondDiff(FLastExecuteDT[e]) >= DayLen
        /\ SecondOfDay(now) >= kind[e].interval /\ DayOfWeek(now) \in kind[e].flag
    BY <2>1 DEF NeedExecute
  <2>3. now \in Nat /\ now <= MaxNow /\ lastRun[e] \in Nat /\ lastRun[e] <= now
        /\ lastRun[e] <= MaxNow /\ DayLen \in Nat \ {0}
    BY ScheduleAssumption DEF Known, Past, Clock
  <2>4. kind[e].interval \in 0 .. DayLen - 1 /\ UpdateLastExecute(e) = UtcHour(e, now)
    BY <2>2, HourWithinDay
  <2>5. ASSUME UtcHour(e, now) <= now
        PROVE  Times(e) = 1
    <3> DEFINE i == kind[e].interval
               q == DayLen * (now \div DayLen)
               r == now % DayLen
    <3>1. now = q + r /\ q \in Nat /\ r \in 0 .. DayLen - 1
      BY <2>3, DayAndSecond
    <3>2. UtcHour(e, now) = q + i /\ SecondDiff(UtcHour(e, now)) = now - UtcHour(e, now)
      BY <2>3, <2>4, <2>5, HourDiff DEF UtcHour
    <3>3. i \in 0 .. DayLen - 1
      BY <2>4
    <3> HIDE DEF i, q, r
    <3>4. ~ (now - (q + i) >= DayLen)
      BY <2>3, <3>1, <3>3
    <3>5. ~ NeedExecute(e, UpdateLastExecute(e))
      BY <2>4, <3>2, <3>4 DEF NeedExecute
    <3> QED
      BY <3>5, TimesIs DEF Known
  <2>6. ASSUME lastRun[e] # 0, UtcHour(e, lastRun[e]) <= lastRun[e]
        PROVE  now >= UtcHour(e, lastRun[e]) + DayLen
    <3> DEFINE f == UtcHour(e, lastRun[e])
    <3>1. FLastExecuteDT[e] = f /\ f \in Nat
      BY <2>3, <2>4, <2>6, HourDiff DEF HourNoted
    <3>2. f <= now => SecondDiff(f) = now - f
      BY <2>3, <2>4, HourDiff
    <3>3. f <= lastRun[e]
      BY <2>6
    <3> HIDE DEF f
    <3>4. f <= now
      BY <2>3, <3>1, <3>3
    <3>5. now - f >= DayLen
      BY <2>2, <3>1, <3>2, <3>4
    <3>6. now >= f + DayLen
      BY <2>3, <3>1, <3>5
    <3> QED
      BY <3>6 DEF f
  <2> QED
    BY <2>2, <2>5, <2>6
<1>2. CASE ~ Execute
  BY <1>2, OnlyExecuteRuns DEF DailyStep, Of
<1> QED
  BY <1>1, <1>2

DayStep ==
  polled' =>
    \A e \in Of("daysOfWeek") :
      (/\ list[e] > 0 /\ kind[e].interval # 0
       /\ SecondOfDay(now) >= kind[e].interval
       /\ DayOfWeek(now) \in kind[e].flag)
        => /\ lastRun'[e] # 0
           /\ \/ lastRun'[e] = now
              \/ now \in UtcHour(e, lastRun'[e]) .. UtcHour(e, lastRun'[e]) + DayLen - 1

(* If the event is not due although its hour is past, the hour noted is    *)
(* not ahead of the clock, nor a day behind it.                            *)
LEMMA DayHolds ==
  ASSUME Known, HourNoted, Next
  PROVE  DayStep
<1> SUFFICES ASSUME polled', NEW e \in Event, kind[e].density = "daysOfWeek", list[e] > 0,
                    kind[e].interval # 0, SecondOfDay(now) >= kind[e].interval,
                    DayOfWeek(now) \in kind[e].flag
             PROVE  /\ lastRun'[e] # 0
                    /\ \/ lastRun'[e] = now
                       \/ now \in UtcHour(e, lastRun'[e]) .. UtcHour(e, lastRun'[e]) + DayLen - 1
  BY DEF DayStep, Of
<1>1. Execute
  BY OnlyExecutePolls
<1> DEFINE due == NeedExecute(e, FLastExecuteDT[e])
           l == lastRun[e]
           f == UtcHour(e, l)
<1>2. lastRun'[e] = IF due THEN now ELSE l
  BY <1>1, ExecuteRuns, TimesIs DEF Known
<1>3. due <=> SecondDiff(FLastExecuteDT[e]) >= DayLen
  BY DEF NeedExecute
<1>4. /\ now \in Nat /\ l \in Nat /\ l <= MaxNow /\ DayLen \in Nat \ {0}
      /\ Start \in Nat /\ Start > 2 * DayLen /\ Start <= now
      /\ Word \in Nat /\ MaxNow \in Nat
  BY ScheduleAssumption DEF Known, Clock
<1>5. kind[e].interval \in 0 .. DayLen - 1
  BY HourWithinDay
<1>6. /\ f \in Nat /\ SecondDiff(f) \in Nat
      /\ SecondDiff(f) < DayLen => f <= now
      /\ f <= now => SecondDiff(f) = now - f
  BY <1>4, <1>5, HourDiff
<1>7. IF l = 0 THEN FLastExecuteDT[e] = 0 ELSE FLastExecuteDT[e] = f
  BY DEF HourNoted
<1> HIDE DEF due, f, l
<1>8. CASE due
  <2>1. now # 0
    BY <1>4
  <2> QED
    BY <1>2, <1>8, <2>1
<1>9. CASE ~ due
  <2>1. l # 0
    <3> SUFFICES ASSUME l = 0 PROVE FALSE
      OBVIOUS
    <3>1. SecondDiff(0) = IF now < 0 THEN now - 0 + Word ELSE now - 0
      <4>1. 0 \in 0 .. MaxNow + DayLen
        BY <1>4
      <4> QED
        BY <4>1, SecondDiffIs
    <3>2. SecondDiff(0) >= DayLen
      BY <1>4, <3>1
    <3> QED
      BY <1>3, <1>7, <1>9, <3>2
  <2>2. SecondDiff(f) < DayLen
    <3>1. ~ (SecondDiff(f) >= DayLen)
      BY <1>3, <1>7, <1>9, <2>1
    <3> QED
      BY <1>4, <1>6, <3>1
  <2>3. f <= now /\ now - f < DayLen
    BY <1>6, <2>2
  <2>4. now \in f .. f + DayLen - 1
    BY <1>4, <1>6, <2>3
  <2> QED
    BY <1>2, <1>9, <2>1, <2>4 DEF f
<1> QED
  BY <1>8, <1>9

(* Whatever the time zone, until someone sets the clock a daily event is   *)
(* executed on its local days only, not before its local hour, and, if it  *)
(* ran past its hour in UTC, neither by another entry of the list nor      *)
(* before that hour of the next day                                        *)
(* (TSchedule::NeedExecute, UpdateLastExecute).                            *)
THEOREM DailyOnce == Spec => OnceADay
<1>1. Init => Known /\ Past /\ HourNoted
  BY KnownInit, PastInit, HourInit
<1>2. Known /\ Past /\ HourNoted /\ [Next]_vars => (Known /\ Past /\ HourNoted)'
  BY KnownStep, PastStep, HourStep
<1>3. Known /\ Past /\ HourNoted /\ [Next]_vars => [DailyStep]_vars
  BY DailyHolds
<1> QED
  BY <1>1, <1>2, <1>3, PTL DEF Spec, OnceADay, DailyStep

(* Whatever the time zone and whoever set the clock, a daily event whose   *)
(* local hour is past on one of its days is executed with the list, unless *)
(* this is one of the 24 hours from its hour in UTC on the day it ran last *)
(* (TSchedule::NeedExecute, UpdateLastExecute, TScheduleList::Execute).    *)
THEOREM DaysServed == Spec => DayIsServed
<1>1. Init => Known /\ HourNoted
  BY KnownInit, HourInit
<1>2. Known /\ HourNoted /\ [Next]_vars => (Known /\ HourNoted)'
  BY KnownStep, HourStep
<1>3. Known /\ HourNoted /\ [Next]_vars => [DayStep]_vars
  BY DayHolds
<1> QED
  BY <1>1, <1>2, <1>3, PTL DEF Spec, DayIsServed, DayStep
=============================================================================
