------------------------ MODULE FFAudioPlayerProofs ------------------------
(***************************************************************************)
(* Stop never takes the decoder away from a decode thread that has the     *)
(* player to itself: whatever files fail to load, whatever clients call    *)
(* and however threads are preempted, as long as Play has not started a    *)
(* thread beside another and a new thread got going within Play's 20 ms.   *)
(* On the same terms, and barring the mishaps it names, the last Release   *)
(* leaves nobody behind.  The state tells clients the truth in any case.   *)
(***************************************************************************)
EXTENDS FFAudioPlayerHistory, TLAPS

AllLabels ==
  {"idle", "load", "settle", "rewind", "pause", "seek", "dead", "born", "loop", "feed",
   "read", "leave", "last", "check", "mark", "wait", "free", "end"}

Working == {"loop", "feed", "read"}

StopLabels == {"check", "mark", "wait", "free", "end"}

Labels ==
  /\ pc \in [Actor -> AllLabels]
  /\ pc[App] \in {"idle", "load", "settle", "rewind", "pause", "seek"} \cup StopLabels
  /\ \A t \in Thread : pc[t] \in {"dead", "born", "leave", "last"} \cup Working \cup StopLabels

(* The application's steps within a call, other than those of Stop.        *)
CallGoesOn == LoadReturns \/ PlayAdds \/ RewindPauses \/ RewindSeeks \/ PauseMarks

(* No thread has a player that it shares or that has not heard of it.      *)
Calm == happened \cap {"crowded", "late"} = {}

(* At most one decode thread exists.                                       *)
OneThread == \A t, u \in Thread : pc[t] # "dead" /\ pc[u] # "dead" => t = u

(* A thread that has not run yet is known to the application, which sleeps *)
(* in Play; any later one is known by FThreadDone.                         *)
Announced ==
  \A t \in Thread : /\ pc[t] = "born" => pc[App] = "settle"
                    /\ pc[t] \in Working \cup {"leave"} => ~ FThreadDone

(* Whoever frees the decoder has waited for the thread, and a stopped      *)
(* player has none.                                                        *)
FreedAlone ==
  \A t \in Thread : pc[t] \in {"born"} \cup Working =>
    /\ FState # "STOPPED"
    /\ \A a \in Actor : pc[a] \notin {"free", "end"}

Supplied ==
  \A t \in Thread : pc[t] \in {"born", "loop", "feed", "read"} => decoder = "live"

Inv == Labels /\ OneThread /\ Announced /\ FreedAlone /\ Supplied

-----------------------------------------------------------------------------
(* Init establishes the invariant.                                         *)
LEMMA InvInit == Init => Inv
<1> SUFFICES ASSUME Init PROVE Inv
  OBVIOUS
<1>1. /\ pc \in [Actor -> AllLabels]
      /\ pc[App] = "idle"
      /\ \A t \in Thread : pc[t] = "dead"
  BY AppAssumption DEF Init, Actor, AllLabels
<1> QED
  BY <1>1 DEF Inv, Labels, OneThread, Announced, FreedAlone, Supplied, Working, StopLabels

(* A jump moves one thread and leaves the others where they are.           *)
LEMMA GotoMoves ==
  ASSUME pc \in [Actor -> AllLabels], NEW a \in Actor, NEW label \in AllLabels,
         Goto(a, label)
  PROVE  /\ pc' \in [Actor -> AllLabels]
         /\ pc'[a] = label
         /\ \A b \in Actor \ {a} : pc'[b] = pc[b]
  BY DEF Goto

(* The start of a thread preserves it: no other thread is there.           *)
LEMMA InvPlayStarts ==
  ASSUME Inv, NEW loop, PlayStarts(loop), decoder = "live",
         Alive = {}, pc[App] \notin {"free", "end"}
  PROVE  Inv'
<1> PICK t \in Thread :
      pc' = [pc EXCEPT ![t] = "born", ![App] = "settle"]
  BY DEF PlayStarts
<1>1. FState' = "RUNNING" /\ decoder' = "live" /\ FThreadDone' = FThreadDone
  BY DEF PlayStarts
<1>2. \A u \in Thread : pc[u] = "dead"
  BY DEF Alive
<1>3. /\ pc' \in [Actor -> AllLabels]
      /\ pc'[App] = "settle"
      /\ pc'[t] = "born"
      /\ \A u \in Thread \ {t} : pc'[u] = "dead"
  <2>1. pc' = [pc EXCEPT ![t] = "born", ![App] = "settle"] /\ t \in Thread /\ t # App
    BY AppAssumption
  <2>2. pc \in [Actor -> AllLabels] /\ Thread \subseteq Actor /\ App \in Actor
    BY DEF Inv, Labels, Actor
  <2>3. pc' = [a \in Actor |-> IF a = App THEN "settle" ELSE IF a = t THEN "born" ELSE pc[a]]
    BY <2>1, <2>2
  <2>4. "born" \in AllLabels /\ "settle" \in AllLabels
    BY DEF AllLabels
  <2>5. pc' \in [Actor -> AllLabels]
    BY <2>2, <2>3, <2>4
  <2> QED
    BY <1>2, <2>1, <2>2, <2>3, <2>5, AppAssumption
<1>4. \A a \in Actor : pc'[a] \notin {"free", "end"}
  BY <1>3 DEF Actor
<1> QED
  BY <1>1, <1>3, <1>4
  DEF Inv, Labels, OneThread, Announced, FreedAlone, Supplied, Working, StopLabels

(* And if one were, the start would be noted.                              *)
LEMMA StartsAlone ==
  ASSUME Labels, NEW loop, PlayStarts(loop), ~ Crowds
  PROVE  Alive = {}
<1> PICK t \in Thread : pc[t] = "dead" /\ pc' = [pc EXCEPT ![t] = "born", ![App] = "settle"]
  BY DEF PlayStarts
<1>1. pc \in [Actor -> AllLabels] /\ t \in Actor /\ t # App
  BY AppAssumption DEF Labels, Actor
<1>2. pc'[t] = "born" /\ t \in Thread \ Alive
  BY <1>1 DEF Alive
<1> QED
  BY <1>2 DEF Crowds

-----------------------------------------------------------------------------
(* The application's steps preserve it.                                    *)
LEMMA InvApp ==
  ASSUME Inv, ~ Crowds, ~ Late, Call \/ CallGoesOn
  PROVE  Inv'
<1> USE AppAssumption
<1>1. App \in Actor /\ Thread = Actor \ {App} /\ pc \in [Actor -> AllLabels]
  BY DEF Inv, Labels, Actor
<1>2. ASSUME NEW loop, PlayStarts(loop) PROVE Alive = {}
  BY <1>2, StartsAlone DEF Inv
<1>3. Alive = {} <=> \A t \in Thread : pc[t] = "dead"
  BY DEF Alive
<1>4. CASE Load \/ LoadReturns
  <2>1. /\ pc[App] \in {"idle", "load"} /\ FThreadDone' = FThreadDone
        /\ Goto(App, "idle") \/ Goto(App, "load")
        /\ FState' \in {"LOADING", "LOADED"} \/ FState' = FState
        /\ decoder' \in {decoder, "live"}
    BY <1>4 DEF Load, LoadReturns
  <2> QED
    BY <1>1, <2>1, GotoMoves
    DEF Inv, Labels, OneThread, Announced, FreedAlone, Supplied, Working, StopLabels, AllLabels
<1>5. ASSUME NEW loop, Play(loop) PROVE Inv'
  BY <1>2, <1>5, InvPlayStarts DEF Play, CanPlay
<1>6. CASE PlayAdds
  <2>1. Goto(App, "idle") /\ pc[App] = "settle" /\ UNCHANGED player
    BY <1>6 DEF PlayAdds
  <2>2. pc'[App] = "idle"
    BY <1>1, <2>1, GotoMoves DEF AllLabels
  <2>3. \A t \in Thread : pc[t] # "born"
    BY <2>1, <2>2 DEF Late
  <2> QED
    BY <1>1, <2>1, <2>3, GotoMoves
    DEF player, Inv, Labels, OneThread, Announced, FreedAlone, Supplied,
        Working, StopLabels, AllLabels
<1>7. CASE Pause
  <2>1. Goto(App, "pause") /\ pc[App] = "idle" /\ UNCHANGED player
    BY <1>7 DEF Pause
  <2> QED
    BY <1>1, <2>1, GotoMoves
    DEF player, Inv, Labels, OneThread, Announced, FreedAlone, Supplied,
        Working, StopLabels, AllLabels
<1>8. CASE Rewind \/ RewindPauses
  <2>1. /\ Goto(App, "rewind") \/ Goto(App, "pause") \/ Goto(App, "seek")
        /\ pc[App] \in {"idle", "rewind"} /\ UNCHANGED player
    BY <1>8 DEF Rewind, RewindPauses
  <2> QED
    BY <1>1, <1>3, <2>1, GotoMoves
    DEF player, Inv, Labels, OneThread, Announced, FreedAlone, Supplied,
        Working, StopLabels, AllLabels
<1>9. CASE RewindSeeks
  <2>1. pc[App] = "seek"
    BY <1>9 DEF RewindSeeks
  <2>2. CASE CanPlay
    BY <1>2, <1>9, <2>1, <2>2, InvPlayStarts DEF RewindSeeks, CanPlay
  <2>3. CASE ~ CanPlay
    <3>1. Goto(App, "idle") /\ UNCHANGED player
      BY <1>9, <2>3 DEF RewindSeeks
    <3> QED
      BY <1>1, <1>3, <2>1, <3>1, GotoMoves
      DEF player, Inv, Labels, OneThread, Announced, FreedAlone, Supplied,
          Working, StopLabels, AllLabels
  <2> QED
    BY <2>2, <2>3
<1>10. CASE RadioAdds
  <2>1. pc[App] = "idle" /\ UNCHANGED player /\ (Goto(App, "pause") \/ UNCHANGED pc)
    BY <1>10 DEF RadioAdds
  <2> QED
    BY <1>1, <2>1, GotoMoves
    DEF player, Inv, Labels, OneThread, Announced, FreedAlone, Supplied,
        Working, StopLabels, AllLabels
<1>11. CASE PauseMarks
  <2>1. /\ pc[App] = "pause" /\ FState' = "PAUSED" /\ UNCHANGED <<FThreadDone, decoder>>
        /\ Goto(App, "seek") \/ Goto(App, "idle")
    BY <1>11 DEF PauseMarks
  <2> QED
    BY <1>1, <2>1, GotoMoves
    DEF Inv, Labels, OneThread, Announced, FreedAlone, Supplied,
        Working, StopLabels, AllLabels
<1>12. CASE RadioRemoves
  <2>1. pc[App] = "idle"
    BY <1>12 DEF RadioRemoves
  <2>2. \/ PlayStarts(1) /\ decoder = "live"
        \/ UNCHANGED <<player, pc>>
    BY <1>12 DEF RadioRemoves, CanPlay
  <2>3. CASE UNCHANGED <<player, pc>>
    BY <2>1, <2>3 DEF player, Inv, Labels, OneThread, Announced, FreedAlone, Supplied,
                      Working, StopLabels
  <2> QED
    BY <1>2, <2>1, <2>2, <2>3, InvPlayStarts
<1>13. CASE StopCall
  <2>1. Goto(App, "check") /\ pc[App] = "idle" /\ UNCHANGED player
    BY <1>13 DEF StopCall
  <2> QED
    BY <1>1, <2>1, GotoMoves
    DEF player, Inv, Labels, OneThread, Announced, FreedAlone, Supplied,
        Working, StopLabels, AllLabels
<1> QED
  BY <1>4, <1>5, <1>6, <1>7, <1>8, <1>9, <1>10, <1>11, <1>12, <1>13
  DEF Call, CallGoesOn

(* The references: a new player has no thread, and the destructor is a     *)
(* Stop that the application calls.                                        *)
LEMMA InvLife ==
  ASSUME Inv, InstRef \/ Release
  PROVE  Inv'
<1> USE AppAssumption
<1>1. pc \in [Actor -> AllLabels] /\ App \in Actor /\ Thread = Actor \ {App}
  BY DEF Inv, Labels, Actor
<1>2. CASE UNCHANGED steps
  BY <1>2 DEF steps, player, Inv, Labels, OneThread, Announced, FreedAlone, Supplied
<1>3. CASE Alive = {} /\ UNCHANGED pc
  BY <1>3 DEF Alive, Inv, Labels, OneThread, Announced, FreedAlone, Supplied,
              Working, StopLabels
<1>4. CASE Goto(App, "check") /\ pc[App] = "idle" /\ UNCHANGED player
  BY <1>1, <1>4, GotoMoves
  DEF player, Inv, Labels, OneThread, Announced, FreedAlone, Supplied,
      Working, StopLabels, AllLabels
<1> QED
  BY <1>2, <1>3, <1>4 DEF InstRef, Release, steps, player, mixer

(* Stop preserves it, whoever calls: the decoder goes when FThreadDone has *)
(* been seen true, and then no thread is between its start and its end.    *)
LEMMA InvStop ==
  ASSUME Inv, NEW a \in Actor, StopStep(a)
  PROVE  Inv'
<1> USE AppAssumption
<1>1. pc \in [Actor -> AllLabels]
  BY DEF Inv, Labels
<1> DEFINE back == IF a = App THEN "idle" ELSE "dead"
<1>2. back \in AllLabels /\ back \in {"idle", "dead"} /\ (back = "idle" <=> a = App)
  BY DEF AllLabels
<1> HIDE DEF back
<1>3. CASE StopChecks(a)
  <2>1. /\ pc[a] = "check" /\ UNCHANGED player
        /\ Goto(a, back) \/ Goto(a, "mark")
    BY <1>3 DEF StopChecks, Return, back
  <2> QED
    BY <1>1, <1>2, <2>1, GotoMoves
    DEF player, Inv, Labels, OneThread, Announced, FreedAlone, Supplied,
        Working, StopLabels, AllLabels, Actor
<1>4. CASE StopMarks(a)
  <2>1. /\ pc[a] = "mark" /\ Goto(a, "wait") /\ FState' = "STOPPING"
        /\ UNCHANGED <<FThreadDone, decoder>>
    BY <1>4 DEF StopMarks
  <2> QED
    BY <1>1, <2>1, GotoMoves
    DEF Inv, Labels, OneThread, Announced, FreedAlone, Supplied,
        Working, StopLabels, AllLabels, Actor
<1>5. CASE StopWaits(a)
  <2>1. /\ pc[a] = "wait" /\ FThreadDone /\ Goto(a, "free")
        /\ UNCHANGED player
    BY <1>5 DEF StopWaits
  <2>2. \A t \in Thread : pc[t] \notin {"born"} \cup Working
    BY <2>1 DEF Inv, OneThread, Announced, Actor, Working
  <2> QED
    BY <1>1, <2>1, <2>2, GotoMoves
    DEF player, Inv, Labels, OneThread, Announced, FreedAlone, Supplied,
        Working, StopLabels, AllLabels, Actor
<1>6. CASE StopFrees(a)
  <2>1. /\ pc[a] = "free" /\ Goto(a, "end")
        /\ UNCHANGED <<FThreadDone>>
    BY <1>6 DEF StopFrees
  <2>2. \A t \in Thread : pc[t] \notin {"born"} \cup Working
    BY <2>1 DEF Inv, FreedAlone
  <2> QED
    BY <1>1, <2>1, <2>2, GotoMoves
    DEF Inv, Labels, OneThread, Announced, FreedAlone, Supplied,
        Working, StopLabels, AllLabels, Actor
<1>7. CASE StopEnds(a)
  <2>1. /\ pc[a] = "end" /\ Goto(a, back)
        /\ UNCHANGED <<FThreadDone, decoder>>
    BY <1>7 DEF StopEnds, Return, back
  <2>2. \A t \in Thread : pc[t] \notin {"born"} \cup Working
    BY <2>1 DEF Inv, FreedAlone
  <2> QED
    BY <1>1, <1>2, <2>1, <2>2, GotoMoves
    DEF Inv, Labels, OneThread, Announced, FreedAlone, Supplied,
        Working, StopLabels, AllLabels, Actor
<1> QED
  BY <1>3, <1>4, <1>5, <1>6, <1>7 DEF StopStep

(* Execute preserves it.                                                   *)
LEMMA InvExecute ==
  ASSUME Inv, NEW t \in Thread, ExecuteStep(t)
  PROVE  Inv'
<1> USE AppAssumption
<1>1. pc \in [Actor -> AllLabels] /\ t \in Actor /\ t # App
  BY DEF Inv, Labels, Actor
<1>2. pc[t] # "dead" => \A u \in Thread \ {t} : pc[u] = "dead"
  BY DEF Inv, OneThread
<1>3. CASE Enter(t)
  <2>1. /\ pc[t] = "born" /\ Goto(t, "loop") /\ FThreadDone' = FALSE
        /\ UNCHANGED <<FState, decoder>>
    BY <1>3 DEF Enter
  <2> QED
    BY <1>1, <2>1, GotoMoves
    DEF Inv, Labels, OneThread, Announced, FreedAlone, Supplied,
        Working, StopLabels, AllLabels, Actor
<1>4. CASE Loop(t) \/ Feed(t) \/ ReadPacket(t) \/ ReadEnd(t)
  <2>1. /\ pc[t] \in Working
        /\ UNCHANGED <<FThreadDone, FState, decoder>>
    BY <1>4 DEF Loop, Feed, ReadPacket, ReadEnd, Working, player
  <2>2. \/ UNCHANGED pc
        \/ \E l \in {"loop", "feed", "read", "leave"} : Goto(t, l)
    BY <1>4 DEF Loop, Feed, ReadPacket, ReadEnd
  <2>3. CASE UNCHANGED pc
    BY <2>1, <2>3
    DEF Inv, Labels, OneThread, Announced, FreedAlone, Supplied
  <2>4. CASE \E l \in {"loop", "feed", "read", "leave"} : Goto(t, l)
    <3> PICK l \in {"loop", "feed", "read", "leave"} : Goto(t, l)
      BY <2>4
    <3> QED
      BY <1>1, <2>1, GotoMoves
      DEF Inv, Labels, OneThread, Announced, FreedAlone, Supplied,
          Working, StopLabels, AllLabels, Actor
  <2> QED
    BY <2>2, <2>3, <2>4
<1>5. CASE Leave(t)
  <2>1. /\ pc[t] = "leave" /\ Goto(t, "last")
        /\ UNCHANGED <<FState, decoder>>
    BY <1>5 DEF Leave
  <2> QED
    BY <1>1, <1>2, <2>1, GotoMoves
    DEF Inv, Labels, OneThread, Announced, FreedAlone, Supplied,
        Working, StopLabels, AllLabels, Actor
<1>6. CASE Last(t)
  <2>1. /\ pc[t] = "last"
        /\ Goto(t, "check") \/ Goto(t, "dead")
        /\ UNCHANGED player
    BY <1>6 DEF Last
  <2> QED
    BY <1>1, <2>1, GotoMoves
    DEF player, Inv, Labels, OneThread, Announced, FreedAlone, Supplied,
        Working, StopLabels, AllLabels, Actor
<1> QED
  BY <1>3, <1>4, <1>5, <1>6 DEF ExecuteStep

LEMMA InvNext ==
  ASSUME Inv, ~ Crowds, ~ Late, [Next]_vars
  PROVE  Inv'
<1>1. CASE Call \/ CallGoesOn
  BY <1>1, InvApp
<1>2. ASSUME NEW a \in Actor, StopStep(a) PROVE Inv'
  BY <1>2, InvStop
<1>3. ASSUME NEW t \in Thread, ExecuteStep(t) PROVE Inv'
  BY <1>3, InvExecute
<1>4. CASE InstRef \/ Release
  BY <1>4, InvLife
<1>5. CASE UNCHANGED vars
  BY <1>5 DEF vars, steps, player, Inv, Labels, OneThread, Announced, FreedAlone, Supplied
<1> QED
  BY <1>1, <1>2, <1>3, <1>4, <1>5 DEF Next, AppStep, CallGoesOn, ThreadStep, Actor

-----------------------------------------------------------------------------
(* A player that says it runs has a thread, whatever clients and scheduler *)
(* do: this needs neither of the two provisos.                             *)
Served == pc \in [Actor -> AllLabels] /\ RunningIsServed

(* Only a jump of a thread to its end leaves one thread less.              *)
LEMMA GotoServes ==
  ASSUME pc \in [Actor -> AllLabels], NEW a \in Actor, NEW label \in AllLabels,
         Goto(a, label), a = App \/ label # "dead"
  PROVE  pc' \in [Actor -> AllLabels] /\ Alive \subseteq Alive'
<1> USE AppAssumption
<1>1. /\ pc' \in [Actor -> AllLabels] /\ pc'[a] = label
      /\ \A b \in Actor \ {a} : pc'[b] = pc[b]
  BY GotoMoves
<1> QED
  BY <1>1 DEF Alive, Actor

(* PlayStarts comes with a thread.                                         *)
LEMMA StartServes ==
  ASSUME pc \in [Actor -> AllLabels], NEW loop, PlayStarts(loop)
  PROVE  Served'
<1> PICK t \in Thread : pc' = [pc EXCEPT ![t] = "born", ![App] = "settle"]
  BY DEF PlayStarts
<1>1. t \in Actor /\ App \in Actor /\ t # App
  BY AppAssumption DEF Actor
<1>2. pc' \in [Actor -> AllLabels] /\ pc'[t] = "born"
  BY <1>1 DEF AllLabels
<1> QED
  BY <1>2 DEF Served, RunningIsServed, Alive

(* The application's calls and steps.                                      *)
LEMMA ServedApp ==
  ASSUME Served, Call \/ CallGoesOn \/ InstRef \/ Release
  PROVE  Served'
<1>1. App \in Actor /\ pc \in [Actor -> AllLabels]
  BY DEF Actor, Served
<1>2. {"idle", "load", "rewind", "pause", "seek", "check"} \subseteq AllLabels
  BY DEF AllLabels
<1>3. ASSUME NEW label \in {"idle", "load", "rewind", "pause", "seek", "check"}, Goto(App, label),
             FState' = FState \/ FState' # "RUNNING"
      PROVE  Served'
  BY <1>1, <1>2, <1>3, GotoServes DEF Served, RunningIsServed
<1>4. ASSUME pc' = pc, FState' = FState \/ FState' # "RUNNING" PROVE Served'
  BY <1>4 DEF Served, RunningIsServed, Alive
<1>5. CASE Load \/ LoadReturns
  BY <1>3, <1>5 DEF Load, LoadReturns
<1>6. ASSUME NEW loop, Play(loop) PROVE Served'
  BY <1>1, <1>6, StartServes DEF Play
<1>7. CASE PlayAdds \/ Pause \/ Rewind \/ RewindPauses \/ PauseMarks \/ StopCall
  BY <1>3, <1>7 DEF PlayAdds, Pause, Rewind, RewindPauses, PauseMarks, StopCall, player
<1>8. CASE RewindSeeks
  BY <1>1, <1>3, <1>8, StartServes DEF RewindSeeks, player
<1>9. CASE RadioAdds
  BY <1>3, <1>4, <1>9 DEF RadioAdds, player
<1>10. CASE RadioRemoves
  <2>1. PlayStarts(1) \/ (pc' = pc /\ FState' = FState)
    BY <1>10 DEF RadioRemoves, player
  <2> QED
    BY <1>1, <1>4, <2>1, StartServes
<1>11. CASE InstRef \/ Release
  <2>1. \/ Goto(App, "check") /\ FState' = FState
        \/ pc' = pc /\ (FState' = FState \/ FState' = "STOPPED")
    BY <1>11 DEF InstRef, Release, steps, player
  <2> QED
    BY <1>3, <1>4, <2>1
<1> QED
  BY <1>5, <1>6, <1>7, <1>8, <1>9, <1>10, <1>11 DEF Call, CallGoesOn

(* A thread ends with a state other than RUNNING.                          *)
LEMMA ServedThread ==
  ASSUME Served, NEW a \in Actor, StopStep(a) \/ (a \in Thread /\ ExecuteStep(a))
  PROVE  Served'
<1>1. pc \in [Actor -> AllLabels]
  BY DEF Served
<1>2. {"idle", "loop", "feed", "read", "leave", "last", "check", "mark", "wait", "free", "end",
       "dead"} \subseteq AllLabels
  BY DEF AllLabels
<1>3. ASSUME NEW label \in AllLabels \ {"dead"}, Goto(a, label),
             FState' = FState \/ FState' # "RUNNING"
      PROVE  Served'
  BY <1>1, <1>3, GotoServes DEF Served, RunningIsServed
<1>4. ASSUME Goto(a, "idle") \/ Goto(a, "dead"), FState' # "RUNNING" PROVE Served'
  BY <1>1, <1>2, <1>4, GotoMoves DEF Served, RunningIsServed
<1>5. ASSUME pc' = pc, FState' = FState PROVE Served'
  BY <1>5 DEF Served, RunningIsServed, Alive
<1>6. CASE StopChecks(a)
  BY <1>2, <1>3, <1>4, <1>6 DEF StopChecks, Return, player
<1>7. CASE StopMarks(a) \/ StopWaits(a)
  BY <1>2, <1>3, <1>7 DEF StopMarks, StopWaits, player
<1>8. CASE StopFrees(a)
  <2>1. Goto(a, "end") /\ (FState' = FState \/ FState' = "PAUSED")
    BY <1>8 DEF StopFrees
  <2> QED
    BY <1>2, <1>3, <2>1
<1>9. CASE StopEnds(a)
  BY <1>4, <1>9 DEF StopEnds, Return
<1>10. CASE Enter(a) \/ Loop(a) \/ ReadEnd(a) \/ Leave(a)
  BY <1>2, <1>3, <1>10 DEF Enter, Loop, ReadEnd, Leave, player
<1>11. CASE Feed(a) \/ ReadPacket(a)
  BY <1>2, <1>3, <1>5, <1>11 DEF Feed, ReadPacket
<1>12. CASE Last(a)
  BY <1>2, <1>3, <1>4, <1>12 DEF Last, player
<1> QED
  BY <1>6, <1>7, <1>8, <1>9, <1>10, <1>11, <1>12 DEF StopStep, ExecuteStep

(* Whatever the order of Pause, Play, the end of the file and the mixer's  *)
(* own pauses, and wherever a thread is preempted: a state RUNNING is      *)
(* never left without a thread (src/ff_audio.cpp:154-184, 252-308).        *)
THEOREM RunningHasThread == Spec => []RunningIsServed
<1>1. Init => Served
  BY DEF Init, Served, RunningIsServed, AllLabels
<1>2. Served /\ [Next]_vars => Served'
  <2> SUFFICES ASSUME Served, [Next]_vars PROVE Served'
    OBVIOUS
  <2>1. ASSUME NEW t \in Thread, ThreadStep(t) PROVE Served'
    BY <2>1, ServedThread DEF ThreadStep, Actor
  <2>2. CASE AppStep
    BY <2>2, ServedApp, ServedThread DEF AppStep, CallGoesOn, Actor
  <2>3. CASE Call \/ InstRef \/ Release
    BY <2>3, ServedApp
  <2>4. CASE UNCHANGED vars
    BY <2>4 DEF vars, steps, player, Served, RunningIsServed, Alive
  <2> QED
    BY <2>1, <2>2, <2>3, <2>4 DEF Next
<1>3. Served => RunningIsServed
  BY DEF Served
<1> QED
  BY <1>1, <1>2, <1>3, PTL DEF Spec

-----------------------------------------------------------------------------
(* The ranges of the fields, and the labels each actor may be at.          *)
AppLabels == {"idle", "load", "settle", "rewind", "pause", "seek"} \cup StopLabels

ThreadLabels == {"dead", "born", "leave", "last"} \cup Working \cup StopLabels

Fields ==
  /\ FState \in States
  /\ FThreadDone \in BOOLEAN /\ FTerminating \in BOOLEAN
  /\ FLoop \in 0 .. MaxLoop /\ unsent \in BOOLEAN
  /\ decoder \in {"none", "live"} /\ FCodecCtx \in {"null", "live", "dangling"}

Stacked ==
  /\ FPausedByRace \in BOOLEAN
  /\ top \in {"none", "player", "radio"}
  /\ below \subseteq {"player", "radio"} \ {top}

Places == Labels /\ afterPause \in {"return", "rewind", "radio"}

(* A jump to a label of the actor's own.                                   *)
LEMMA GotoPlaces ==
  ASSUME Places, NEW a \in Actor, NEW label \in AllLabels, Goto(a, label),
         a = App => label \in AppLabels, a # App => label \in ThreadLabels
  PROVE  Labels'
<1>1. pc \in [Actor -> AllLabels]
  BY DEF Places, Labels
<1>2. /\ pc' \in [Actor -> AllLabels] /\ pc'[a] = label
      /\ \A b \in Actor \ {a} : pc'[b] = pc[b]
  BY <1>1, GotoMoves
<1>3. pc'[App] \in AppLabels
  BY <1>2 DEF Places, Labels, AppLabels, Actor
<1>4. ASSUME NEW t \in Thread PROVE pc'[t] \in ThreadLabels
  <2>1. t \in Actor /\ t # App /\ pc[t] \in ThreadLabels
    BY AppAssumption DEF Places, Labels, ThreadLabels, Actor
  <2> QED
    BY <1>2, <2>1
<1> QED
  BY <1>2, <1>3, <1>4 DEF Labels, AppLabels, ThreadLabels

LEMMA StartPlaces ==
  ASSUME Places, NEW loop, PlayStarts(loop)
  PROVE  Labels'
<1> PICK t \in Thread : pc[t] = "dead" /\ pc' = [pc EXCEPT ![t] = "born", ![App] = "settle"]
  BY DEF PlayStarts
<1>1. pc \in [Actor -> AllLabels] /\ Thread \subseteq Actor /\ App \in Actor /\ App # t
  BY AppAssumption DEF Places, Labels, Actor
<1>2. "born" \in AllLabels /\ "settle" \in AllLabels
  BY DEF AllLabels
<1>3. pc' = [a \in Actor |-> IF a = App THEN "settle" ELSE IF a = t THEN "born" ELSE pc[a]]
  BY <1>1
<1>4. pc' \in [Actor -> AllLabels]
  BY <1>1, <1>2, <1>3
<1>5. /\ pc'[App] = "settle" /\ pc'[t] = "born"
      /\ \A u \in Thread \ {t} : pc'[u] = pc[u]
  BY <1>1, <1>3, AppAssumption
<1> QED
  BY <1>4, <1>5 DEF Places, Labels

LEMMA StartFields ==
  ASSUME Fields, NEW loop \in 0 .. MaxLoop, PlayStarts(loop)
  PROVE  Fields'
BY DEF Fields, PlayStarts, States

LEMMA OneLoop == 1 \in 0 .. MaxLoop
BY FFAudioPlayerAssumption

(* Leaving the mixer keeps its stack one.                                  *)
LEMMA RemoveStacks ==
  ASSUME top \in {"none", "player", "radio"}, below \subseteq {"player", "radio"} \ {top},
         NEW s \in {"player", "radio"}, RemoveSource(s)
  PROVE  /\ top' \in {"none", "player", "radio"} /\ below' \subseteq {"player", "radio"} \ {top'}
         /\ s # top' /\ s \notin below'
         /\ ({top'} \cup below') \subseteq ({top} \cup below \cup {"none"})
<1>1. CASE top # s
  BY <1>1 DEF RemoveSource
<1>2. CASE top = s /\ below = {}
  BY <1>2 DEF RemoveSource
<1>3. CASE top = s /\ below # {}
  <2>1. (CHOOSE x \in below : TRUE) \in below
    BY <1>3
  <2>2. top' \in below /\ below' = {}
    BY <1>3, <2>1 DEF RemoveSource
  <2> QED
    BY <1>3, <2>2
<1> QED
  BY <1>1, <1>2, <1>3

Typed == Fields /\ Stacked /\ Places

LEMMA TypedApp ==
  ASSUME Typed, Call \/ CallGoesOn
  PROVE  Typed'
<1> USE DEF Typed
<1>1. /\ App \in Actor /\ App \notin Thread
      /\ {"idle", "load", "rewind", "pause", "seek", "check"} \subseteq AppLabels \cap AllLabels
  BY AppAssumption DEF Actor, AppLabels, AllLabels, StopLabels
<1>2. ASSUME NEW label \in {"idle", "load", "rewind", "pause", "seek", "check"}, Goto(App, label)
      PROVE  Labels'
  BY <1>1, <1>2, GotoPlaces
<1>3. UNCHANGED player => Fields'
  BY DEF Fields, player
<1>4. UNCHANGED mixer => Stacked'
  BY DEF Stacked, mixer
<1>5. UNCHANGED pc => Labels'
  BY DEF Places, Labels
<1>6. CASE Load \/ LoadReturns
  <2>1. Fields'
    BY <1>6 DEF Load, LoadReturns, Fields, States
  <2> QED
    BY <1>2, <1>4, <1>6, <2>1 DEF Load, LoadReturns, Places
<1>7. ASSUME NEW loop \in 1 .. MaxLoop, Play(loop) PROVE Typed'
  <2>1. loop \in 0 .. MaxLoop
    BY FFAudioPlayerAssumption
  <2> QED
    BY <1>4, <1>7, <2>1, StartFields, StartPlaces DEF Play, Places
<1>8. CASE PlayAdds
  <2>1. Stacked'
    BY <1>8 DEF PlayAdds, Stacked
  <2> QED
    BY <1>2, <1>3, <1>8, <2>1 DEF PlayAdds, Places
<1>9. CASE Pause \/ Rewind \/ RewindPauses \/ StopCall
  BY <1>2, <1>3, <1>4, <1>9 DEF Pause, Rewind, RewindPauses, StopCall, Places
<1>10. CASE RewindSeeks
  BY <1>2, <1>3, <1>4, <1>10, OneLoop, StartFields, StartPlaces DEF RewindSeeks, Places
<1>11. CASE RadioAdds
  <2>1. Stacked'
    BY <1>4, <1>11 DEF RadioAdds, Stacked
  <2> QED
    BY <1>2, <1>3, <1>5, <1>11, <2>1 DEF RadioAdds, Places
<1>12. CASE PauseMarks
  <2>1. Fields'
    BY <1>12 DEF PauseMarks, Fields, States
  <2>2. Stacked'
    BY <1>4, <1>12 DEF PauseMarks, Stacked
  <2> QED
    BY <1>2, <1>12, <2>1, <2>2 DEF PauseMarks, Places
<1>13. CASE RadioRemoves
  <2>1. RemoveSource("radio") /\ afterPause' = afterPause
    BY <1>13 DEF RadioRemoves
  <2>2. top' \in {"none", "player", "radio"} /\ below' \subseteq {"player", "radio"} \ {top'}
    BY <2>1, RemoveStacks DEF Stacked
  <2>3. \/ PlayStarts(1) /\ FPausedByRace' = FPausedByRace
        \/ UNCHANGED <<player, pc>> /\ FPausedByRace' \in BOOLEAN
    BY <1>13 DEF RadioRemoves, Stacked
  <2>4. FPausedByRace' \in BOOLEAN
    BY <2>3 DEF Stacked
  <2> QED
    BY <1>3, <1>5, <2>1, <2>2, <2>3, <2>4, OneLoop, StartFields, StartPlaces DEF Stacked, Places
<1> QED
  BY <1>6, <1>7, <1>8, <1>9, <1>10, <1>11, <1>12, <1>13 DEF Call, CallGoesOn

LEMMA TypedStop ==
  ASSUME Typed, NEW a \in Actor, StopStep(a)
  PROVE  Typed'
<1> USE DEF Typed
<1> DEFINE back == IF a = App THEN "idle" ELSE "dead"
<1>1. /\ StopLabels \subseteq AllLabels \cap AppLabels \cap ThreadLabels
      /\ back \in AllLabels
      /\ a = App => back \in AppLabels
      /\ a # App => back \in ThreadLabels
  BY DEF AllLabels, AppLabels, ThreadLabels, StopLabels
<1> HIDE DEF back
<1>2. ASSUME NEW label \in StopLabels \cup {back}, Goto(a, label) PROVE Labels'
  BY <1>1, <1>2, GotoPlaces
<1>3. {"check", "mark", "wait", "free", "end"} = StopLabels
  BY DEF StopLabels
<1>4. UNCHANGED player => Fields'
  BY DEF Fields, player
<1>5. UNCHANGED mixer => Stacked'
  BY DEF Stacked, mixer
<1>6. CASE StopChecks(a)
  BY <1>2, <1>3, <1>4, <1>5, <1>6 DEF StopChecks, Return, back, Places
<1>7. CASE StopMarks(a)
  <2>1. Fields'
    BY <1>7 DEF StopMarks, Fields, States
  <2> QED
    BY <1>2, <1>3, <1>5, <1>7, <2>1 DEF StopMarks, Places
<1>8. CASE StopWaits(a)
  BY <1>2, <1>3, <1>4, <1>5, <1>8 DEF StopWaits, Places
<1>9. CASE StopFrees(a)
  <2>1. Fields'
    BY <1>9 DEF StopFrees, Fields, States
  <2>2. RemoveSource("player") /\ (FPausedByRace' = TRUE \/ FPausedByRace' = FPausedByRace)
    BY <1>9 DEF StopFrees
  <2>3. FPausedByRace' \in BOOLEAN
    BY <2>2 DEF Stacked
  <2>4. Stacked'
    BY <2>2, <2>3, RemoveStacks DEF Stacked
  <2> QED
    BY <1>2, <1>3, <1>9, <2>1, <2>4 DEF StopFrees, Places
<1>10. CASE StopEnds(a)
  <2>1. Fields'
    BY <1>10 DEF StopEnds, Fields, States
  <2> QED
    BY <1>2, <1>5, <1>10, <2>1 DEF StopEnds, Return, back, Places
<1> QED
  BY <1>6, <1>7, <1>8, <1>9, <1>10 DEF StopStep

LEMMA TypedExecute ==
  ASSUME Typed, NEW t \in Thread, ExecuteStep(t)
  PROVE  Typed'
<1> USE DEF Typed
<1>1. t \in Actor /\ t # App
  BY AppAssumption DEF Actor
<1> DEFINE L == {"loop", "feed", "read", "leave", "last", "check", "dead"}
<1>2. L \subseteq AllLabels \cap ThreadLabels
  BY DEF AllLabels, ThreadLabels, StopLabels, Working
<1>3. ASSUME NEW label \in L, Goto(t, label) PROVE Labels'
  BY <1>1, <1>2, <1>3, GotoPlaces
<1>4. UNCHANGED pc => Labels'
  BY DEF Places, Labels
<1>5. UNCHANGED <<mixer, afterPause>>
  BY DEF ExecuteStep, Enter, Loop, Feed, ReadPacket, ReadEnd, Leave, Last
<1>6. Stacked'
  BY <1>5 DEF Stacked, mixer
<1>7. Labels'
  BY <1>3, <1>4 DEF ExecuteStep, Enter, Loop, Feed, ReadPacket, ReadEnd, Leave, Last
<1>8. Fields'
  <2>1. FLoop' \in 0 .. MaxLoop
    <3>1. FLoop' = FLoop \/ FLoop' = IF FLoop > 0 THEN FLoop - 1 ELSE 0
      BY DEF ExecuteStep, Enter, Loop, Feed, ReadPacket, ReadEnd, Leave, Last, player
    <3>2. FLoop \in 0 .. MaxLoop /\ MaxLoop \in Nat
      BY FFAudioPlayerAssumption DEF Fields
    <3> QED
      BY <3>1, <3>2
  <2>2. FThreadDone' \in BOOLEAN
    BY DEF Fields, ExecuteStep, Enter, Loop, Feed, ReadPacket, ReadEnd, Leave, Last, player
  <2>3. unsent' \in BOOLEAN
    BY DEF Fields, ExecuteStep, Enter, Loop, Feed, ReadPacket, ReadEnd, Leave, Last, player
  <2>4. UNCHANGED <<FState, FTerminating, decoder, FCodecCtx>>
    BY DEF ExecuteStep, Enter, Loop, Feed, ReadPacket, ReadEnd, Leave, Last, player
  <2> QED
    BY <2>1, <2>2, <2>3, <2>4 DEF Fields
<1> QED
  BY <1>5, <1>6, <1>7, <1>8 DEF Places

LEMMA TypedLife ==
  ASSUME Typed, InstRef \/ Release
  PROVE  Typed'
<1> USE DEF Typed
<1>1. CASE UNCHANGED steps
  BY <1>1 DEF steps, player, mixer, Fields, Stacked, Places, Labels
<1>2. CASE InstRef /\ ~ UNCHANGED steps
  <2>1. Fields'
    BY <1>2, OneLoop DEF InstRef, Fields, States
  <2>2. FPausedByRace' = FALSE /\ UNCHANGED <<top, below, pc, afterPause>>
    BY <1>2 DEF InstRef
  <2> QED
    BY <2>1, <2>2 DEF Stacked, Places, Labels
<1>3. CASE Release
  <2>1. UNCHANGED <<player, mixer, afterPause>> /\ (Goto(App, "check") \/ UNCHANGED pc)
    BY <1>3 DEF Release
  <2>2. App \in Actor /\ "check" \in AllLabels \cap AppLabels
    BY DEF Actor, AllLabels, AppLabels, StopLabels
  <2>3. Labels'
    BY <2>1, <2>2, GotoPlaces DEF Places, Labels
  <2> QED
    BY <2>1, <2>3 DEF player, mixer, Fields, Stacked, Places
<1> QED
  BY <1>1, <1>2, <1>3

Counted == RefCount \in 0 .. MaxRefs

LEMMA CountedStep ==
  ASSUME Counted, [Next]_vars
  PROVE  Counted'
<1>1. CASE RefCount' = RefCount
  BY <1>1 DEF Counted
<1>2. CASE InstRef
  BY <1>2, FFAudioPlayerAssumption DEF InstRef, Counted
<1>3. CASE Release
  BY <1>3, FFAudioPlayerAssumption DEF Release, Counted
<1> QED
  BY <1>1, <1>2, <1>3 DEF Next, vars

LEMMA TypedStep ==
  ASSUME Typed, [Next]_vars
  PROVE  Typed'
<1>1. CASE Call \/ CallGoesOn
  BY <1>1, TypedApp
<1>2. ASSUME NEW a \in Actor, StopStep(a) PROVE Typed'
  BY <1>2, TypedStop
<1>3. ASSUME NEW t \in Thread, ExecuteStep(t) PROVE Typed'
  BY <1>3, TypedExecute
<1>4. CASE InstRef \/ Release
  BY <1>4, TypedLife
<1>5. CASE UNCHANGED vars
  BY <1>5 DEF vars, steps, player, mixer, Typed, Fields, Stacked, Places, Labels
<1> QED
  BY <1>1, <1>2, <1>3, <1>4, <1>5 DEF Next, AppStep, CallGoesOn, ThreadStep, Actor

LEMMA TypedInit == Init => Typed /\ Counted
<1> SUFFICES ASSUME Init PROVE Typed /\ Counted
  OBVIOUS
<1>1. Places
  BY InvInit DEF Init, Inv, Places
<1>2. Fields
  BY OneLoop DEF Init, Fields, States
<1>3. Stacked
  BY DEF Init, Stacked
<1> QED
  BY <1>1, <1>2, <1>3, FFAudioPlayerAssumption DEF Init, Typed, Counted

LEMMA TypedAlways == Spec => [](Typed /\ Counted)
<1>1. ASSUME Typed, Counted, [Next]_vars PROVE (Typed /\ Counted)'
  BY <1>1, TypedStep, CountedStep
<1> QED
  BY <1>1, TypedInit, PTL DEF Spec

(* Every field stays in its range, whatever clients and scheduler do, and  *)
(* no thread leaves Execute or Stop for a place of the application's       *)
(* (src/ff_audio.cpp:60-220, 252-308).                                     *)
THEOREM PlayerTypes == Spec => []TypeOK
<1>1. Typed /\ Counted => TypeOK
  BY DEF Typed, Counted, Fields, Stacked, Places, Labels, AllLabels, TypeOK
<1> QED
  BY <1>1, TypedAlways, PTL

-----------------------------------------------------------------------------
(* The history only watches.                                               *)
LEMMA HistoryWatches == HistorySpec => Spec
<1>1. HistoryInit => Init
  BY DEF HistoryInit
<1>2. [HistoryNext]_historyVars => [Next]_vars
  BY DEF HistoryNext, historyVars
<1> QED
  BY <1>1, <1>2, PTL DEF HistorySpec, Spec

(* What a step that is to be excused by nothing in a set may assume.       *)
LEMMA NotNoted ==
  ASSUME HistoryNext, NEW m \in {"loadFailed", "preempted", "missed"}, m \notin happened'
  PROVE  m \notin happened /\ m \notin Mishaps
BY DEF HistoryNext, Passing

(* A player that has become calm has no thread.                            *)
LEMMA CalmStep ==
  ASSUME HistoryNext, Calm'
  PROVE  Alive' = {} \/ (Calm /\ ~ Crowds /\ ~ Late)
<1> SUFFICES ASSUME Alive' # {} PROVE Calm /\ ~ Crowds /\ ~ Late
  OBVIOUS
<1>1. happened' = happened \cup Mishaps
  BY DEF HistoryNext, Passing
<1>2. "crowded" \notin Mishaps /\ "late" \notin Mishaps /\ Calm
  BY <1>1 DEF Calm
<1> QED
  BY <1>2 DEF Mishaps

Supported == Calm => Inv

LEMMA SupportedStep ==
  ASSUME Typed', Supported, [HistoryNext]_historyVars
  PROVE  Supported'
<1> SUFFICES ASSUME Calm' PROVE Inv'
  BY DEF Supported
<1>1. CASE UNCHANGED historyVars
  BY <1>1 DEF historyVars, vars, steps, player, Supported, Calm, Inv, Labels, OneThread,
              Announced, FreedAlone, Supplied
<1>2. CASE HistoryNext /\ Alive' = {}
  <2>1. \A t \in Thread : pc'[t] = "dead"
    BY <1>2 DEF Alive
  <2>2. Labels'
    BY DEF Typed, Places
  <2> QED
    BY <2>1, <2>2 DEF Inv, OneThread, Announced, FreedAlone, Supplied, Working
<1>3. CASE HistoryNext /\ Alive' # {}
  BY <1>3, CalmStep, InvNext DEF HistoryNext, Supported
<1> QED
  BY <1>1, <1>2, <1>3

LEMMA SupportedAlways == HistorySpec => []Supported
<1>1. HistoryInit => Supported
  BY InvInit DEF HistoryInit, Supported
<1> QED
  BY <1>1, SupportedStep, HistoryWatches, TypedAlways, PTL DEF HistorySpec

(* No decode thread that has the player to itself and got going in time    *)
(* outlives its decoder, for any number of threads and any loop count; nor *)
(* does one that comes after those that had to share have gone             *)
(* (src/ff_audio.cpp:141-173, 195-214, 252-305).                           *)
THEOREM DecoderOutlivesThread == HistorySpec => []DecoderInUse
<1>1. Supported => DecoderInUse
  BY DEF Supported, Calm, Inv, Supplied, DecoderInUse
<1> QED
  BY <1>1, SupportedAlways, PTL

-----------------------------------------------------------------------------
(* Who has looked at FState and is about to act upon it.                   *)
Deciding == {"check", "mark", "rewind", "pause"}

Stopping == {"wait", "free", "end"}

LoadedStates == {"LOADED", "RUNNING", "PAUSED"}

(* As long as nobody is overtaken there, one actor at most is deciding,    *)
(* what it has seen still holds, and one at most is in the rest of Stop.   *)
Decided ==
  /\ \A a, b \in Actor : pc[a] \in Deciding /\ pc[b] \in Deciding => a = b
  /\ \A a, b \in Actor : pc[a] \in Stopping /\ pc[b] \in Stopping => a = b
  /\ \A a \in Actor : /\ pc[a] = "mark" => FState \notin {"STOPPED", "STOPPING"}
                      /\ pc[a] \in Stopping => FState = "STOPPING"
                      /\ pc[a] = "pause" => FState = "RUNNING"
  /\ \A t \in Thread : pc[t] \in {"check", "mark"} => FState = "RUNNING"
  /\ pc[App] = "load" => FState = "LOADING"
  /\ pc[App] = "rewind" => FState \in {"RUNNING", "PAUSED"}
  /\ pc[App] = "seek" => FState = "PAUSED"
  /\ FState \in LoadedStates => decoder = "live"
  /\ FState = "STOPPED" => decoder = "none"
  /\ \A a \in Actor : pc[a] = "end" => decoder = "none"

(* As long as no file fails, either, the codec context is that of the file.*)
Coded ==
  /\ FState = "LOADING" => pc[App] = "load"
  /\ FState \in LoadedStates => FCodecCtx = "live"
  /\ \A a \in Actor : pc[a] \in {"wait", "free"} => FCodecCtx = "live"

Telling ==
  "preempted" \notin happened => Decided /\ ("loadFailed" \notin happened => Coded)

(* What a step that overtakes nobody may assume.                           *)
LEMMA Undisturbed ==
  ASSUME HistoryNext, "preempted" \notin happened'
  PROVE  /\ "preempted" \notin happened
         /\ \A a \in Actor : pc[a] \in Deciding => pc'[a] # pc[a]
<1>1. "preempted" \notin Mishaps /\ "preempted" \notin happened
  BY NotNoted
<1>2. ~ Overtaken({"check", "mark", "rewind", "pause"}, Actor)
  BY <1>1 DEF Mishaps
<1> QED
  BY <1>1, <1>2 DEF Overtaken, Deciding

LEMMA NoFailure ==
  ASSUME HistoryNext, "loadFailed" \notin happened'
  PROVE  "loadFailed" \notin happened /\ ~ LoadFailed
<1>1. "loadFailed" \notin Mishaps /\ "loadFailed" \notin happened
  BY NotNoted
<1> QED
  BY <1>1 DEF Mishaps

(* One actor moves, or, when a thread is started, two of them do.          *)
Moved(a, label) ==
  /\ pc'[a] = label
  /\ \A b \in Actor \ {a} : pc'[b] # pc[b] => pc[b] = "dead" /\ pc'[b] = "born"

LEMMA GotoMoved ==
  ASSUME Places, NEW a \in Actor, NEW label \in AllLabels, Goto(a, label)
  PROVE  Moved(a, label)
<1>1. pc \in [Actor -> AllLabels]
  BY DEF Places, Labels
<1> QED
  BY <1>1, GotoMoves DEF Moved

LEMMA StartMoved ==
  ASSUME Places, NEW loop, PlayStarts(loop)
  PROVE  Moved(App, "settle") /\ FState' = "RUNNING" /\ UNCHANGED <<decoder, FCodecCtx>>
<1> PICK t \in Thread : pc[t] = "dead" /\ pc' = [pc EXCEPT ![t] = "born", ![App] = "settle"]
  BY DEF PlayStarts
<1>1. pc \in [Actor -> AllLabels] /\ Thread \subseteq Actor /\ App \in Actor /\ App # t
  BY AppAssumption DEF Places, Labels, Actor
<1>2. pc' = [a \in Actor |-> IF a = App THEN "settle" ELSE IF a = t THEN "born" ELSE pc[a]]
  BY <1>1
<1> QED
  BY <1>1, <1>2 DEF Moved, PlayStarts

(* A step of one actor that leaves both fields alone, or sets the state as *)
(* the actor's place allows.                                               *)
LEMMA DecidedMoved ==
  ASSUME Decided, Places, NEW a \in Actor, NEW label, Moved(a, label),
         \A b \in Actor : pc[b] \in Deciding => pc'[b] # pc[b],
         label \in Stopping => pc[a] \in {"mark"} \cup Stopping,
         label = "mark" => FState \notin {"STOPPED", "STOPPING"},
         label = "pause" => FState = "RUNNING",
         label = "load" => FState' = "LOADING",
         label = "rewind" => FState \in {"RUNNING", "PAUSED"},
         label = "seek" => FState' = "PAUSED",
         a # App /\ label \in {"check", "mark"} => FState = "RUNNING",
         label = "end" => decoder' = "none",
         label \in Stopping => FState' = "STOPPING",
         decoder' # decoder =>
           (pc[a] = "free" /\ label = "end") \/ FState # "STOPPING",
         FState' # FState =>
           \/ pc[a] = "mark" /\ label = "wait"
           \/ pc[a] = "end" /\ label \notin Deciding \cup Stopping
           \/ a = App /\ FState # "STOPPING" /\ label \notin Deciding \cup Stopping,
         FState' \in LoadedStates => decoder' = "live",
         FState' = "STOPPED" => decoder' = "none"
  PROVE  Decided'
<1>1. \A b \in Actor \ {a} : pc[b] \notin Deciding
  BY DEF Moved, Deciding
<1>2. \A b \in Actor \ {a} : pc'[b] \notin Deciding
  BY <1>1 DEF Moved, Deciding
<1>3. \A b, c \in Actor : pc'[b] \in Deciding /\ pc'[c] \in Deciding => b = c
  BY <1>2
<1>4. \A b \in Actor \ {a} : pc'[b] \in Stopping => pc'[b] = pc[b] /\ FState = "STOPPING"
  BY DEF Moved, Stopping, Decided
<1>5. \A b \in Actor \ {a} : pc[b] \in Stopping => pc[a] \notin Stopping \cup {"mark"}
  BY DEF Decided
<1>6. \A b, c \in Actor : pc'[b] \in Stopping /\ pc'[c] \in Stopping => b = c
  <2>1. \A b \in Actor \ {a} : pc'[b] \in Stopping => pc'[a] \notin Stopping
    BY <1>4, <1>5 DEF Moved
  <2>2. \A b, c \in Actor \ {a} : pc'[b] \in Stopping /\ pc'[c] \in Stopping => b = c
    BY <1>4 DEF Decided
  <2> QED
    BY <2>1, <2>2
<1>7. \A b \in Actor \ {a} : pc'[b] \in Stopping => FState' = "STOPPING"
  BY <1>4, <1>5 DEF Stopping
<1>8. \A b \in Actor \ {a} : pc'[b] = "end" => decoder' = "none"
  BY <1>4, <1>5 DEF Stopping, Decided
<1>9. \A t \in Thread : pc'[t] \in {"check", "mark"} => FState' = "RUNNING"
  <2>1. \A t \in Thread : t \in Actor /\ t # App
    BY AppAssumption DEF Actor
  <2>2. \A t \in Thread : pc'[t] \in {"check", "mark"} => t = a
    BY <1>2, <2>1 DEF Deciding
  <2> QED
    BY <2>1, <2>2 DEF Moved, Deciding
<1>10. ASSUME a # App, pc'[App] \in {"load", "seek"} PROVE FState' = FState
  <2>1. App \in Actor \ {a} /\ a \in Thread
    BY <1>10, AppAssumption DEF Actor
  <2>2. pc[App] = pc'[App]
    BY <1>10, <2>1 DEF Moved
  <2>3. FState \in {"LOADING", "PAUSED"}
    BY <1>10, <2>2 DEF Decided
  <2>4. pc[a] # "mark" /\ pc[a] # "end"
    BY <2>1, <2>3 DEF Decided, Stopping
  <2> QED
    BY <1>10, <2>4
<1>11. /\ pc'[App] = "load" => FState' = "LOADING"
       /\ pc'[App] = "seek" => FState' = "PAUSED"
  <2>1. App \in Actor
    BY DEF Actor
  <2> QED
    BY <1>10, <2>1 DEF Moved, Decided
<1>12. pc'[App] = "rewind" => FState' \in {"RUNNING", "PAUSED"}
  <2>1. App \in Actor
    BY DEF Actor
  <2> QED
    BY <1>2, <2>1 DEF Moved, Deciding
<1> QED
  BY <1>2, <1>3, <1>6, <1>7, <1>8, <1>9, <1>11, <1>12 DEF Decided, Moved, Deciding, Stopping

LEMMA CodedMoved ==
  ASSUME Coded, Decided, Places, NEW a \in Actor, NEW label, Moved(a, label),
         FState' = "LOADING" =>
           label = "load" \/ (FState = "LOADING" /\ (a = App => pc[a] # "load")),
         FState' \in LoadedStates =>
           FCodecCtx' = "live" \/ (FState \in LoadedStates /\ FCodecCtx' = FCodecCtx),
         label = "load" => a = App,
         label \in {"wait", "free"} => FCodecCtx' = FCodecCtx,
         label = "wait" => pc[a] \in {"mark", "wait"},
         label = "free" => pc[a] \in {"wait", "free"},
         FCodecCtx' # FCodecCtx =>
           (pc[a] = "free" /\ label = "end") \/ FState # "STOPPING",
         pc[a] = "mark" /\ label = "wait" => FState \in LoadedStates
  PROVE  Coded'
<1>1. \A b \in Actor \ {a} : pc'[b] \in {"wait", "free"} =>
        pc'[b] = pc[b] /\ FState = "STOPPING" /\ FCodecCtx = "live" /\ pc[a] # "free"
  BY DEF Moved, Stopping, Decided, Coded
<1>2. \A b \in Actor \ {a} : pc'[b] \in {"wait", "free"} => FCodecCtx' = "live"
  BY <1>1
<1>3. label \in {"wait", "free"} => FCodecCtx' = "live"
  BY DEF Coded
<1>4. FState' \in LoadedStates => FCodecCtx' = "live"
  BY DEF Coded
<1>5. FState' = "LOADING" => pc'[App] = "load"
  <2>1. App \in Actor
    BY DEF Actor
  <2>2. CASE label = "load"
    BY <2>2 DEF Moved
  <2>3. CASE label # "load" /\ FState' = "LOADING"
    <3>1. pc[App] = "load" /\ a # App
      BY <2>3 DEF Coded
    <3> QED
      BY <2>1, <3>1 DEF Moved
  <2> QED
    BY <2>2, <2>3
<1> QED
  BY <1>2, <1>3, <1>4, <1>5 DEF Coded, Moved

(* A step that leaves the fields alone.                                    *)
LEMMA QuietMove ==
  ASSUME Decided, Places, NEW a \in Actor, NEW label, Moved(a, label),
         \A b \in Actor : pc[b] \in Deciding => pc'[b] # pc[b],
         UNCHANGED <<FState, decoder, FCodecCtx>>,
         label # "load", a = App => pc[App] # "load",
         label \in Stopping => pc[a] = label \/ (pc[a] = "wait" /\ label = "free"),
         label = "mark" => FState \notin {"STOPPED", "STOPPING"},
         label = "pause" => FState = "RUNNING",
         label = "rewind" => FState \in {"RUNNING", "PAUSED"},
         label = "seek" => FState = "PAUSED",
         a # App /\ label \in {"check", "mark"} => FState = "RUNNING"
  PROVE  Decided' /\ (Coded => Coded')
<1>1. label \in Stopping => pc[a] \in {"mark"} \cup Stopping /\ FState' = "STOPPING"
  BY DEF Decided, Stopping
<1>2. label = "end" => decoder' = "none"
  BY DEF Decided, Stopping
<1>3. Decided'
  BY <1>1, <1>2, DecidedMoved DEF Decided
<1>4. Coded => Coded'
  BY CodedMoved DEF Coded, Stopping
<1> QED
  BY <1>3, <1>4

(* A step that moves nobody.                                               *)
LEMMA QuietStep ==
  ASSUME Decided, UNCHANGED <<FState, decoder, FCodecCtx, pc>>
  PROVE  Decided' /\ (Coded => Coded')
BY DEF Decided, Coded

LEMMA StartTells ==
  ASSUME Decided, Places, NEW loop, PlayStarts(loop), CanPlay,
         \A b \in Actor : pc[b] \in Deciding => pc'[b] # pc[b],
         pc[App] \in {"idle", "seek"}
  PROVE  Decided' /\ (Coded => Coded')
<1>1. Moved(App, "settle") /\ FState' = "RUNNING" /\ UNCHANGED <<decoder, FCodecCtx>>
  BY StartMoved
<1>2. App \in Actor /\ "settle" \notin Deciding \cup Stopping
  BY DEF Actor, Deciding, Stopping
<1>3. FState \in LoadedStates /\ FState # "STOPPING" /\ decoder = "live"
  BY DEF CanPlay, LoadedStates
<1>4. Decided'
  BY <1>1, <1>2, <1>3, DecidedMoved DEF Deciding
<1>5. Coded => Coded'
  BY <1>1, <1>2, <1>3, CodedMoved DEF Stopping
<1> QED
  BY <1>4, <1>5

LEMMA TellingApp ==
  ASSUME Telling, Typed, HistoryNext, Call \/ CallGoesOn
  PROVE  Telling'
<1> SUFFICES ASSUME "preempted" \notin happened'
             PROVE  Decided' /\ ("loadFailed" \notin happened' => Coded')
  BY DEF Telling
<1>1. /\ "preempted" \notin happened /\ Decided /\ Places
      /\ \A b \in Actor : pc[b] \in Deciding => pc'[b] # pc[b]
  BY Undisturbed DEF Telling, Typed
<1>2. "loadFailed" \notin happened' => Coded /\ ~ LoadFailed
  BY <1>1, NoFailure DEF Telling
<1>3. App \in Actor
  BY DEF Actor
<1> DEFINE L == {"idle", "rewind", "pause", "seek", "check"}
<1>4. ASSUME NEW label \in L, Goto(App, label), UNCHANGED player, pc[App] # "load",
             label = "pause" => FState = "RUNNING",
             label = "rewind" => FState \in {"RUNNING", "PAUSED"},
             label = "seek" => FState = "PAUSED"
      PROVE  Decided' /\ (Coded => Coded')
  <2>1. label \in AllLabels /\ label \notin Stopping \cup {"mark", "load"}
    BY DEF AllLabels, Stopping
  <2>2. Moved(App, label)
    BY <1>1, <1>3, <1>4, <2>1, GotoMoved
  <2>3. UNCHANGED <<FState, decoder, FCodecCtx>>
    BY <1>4 DEF player
  <2> QED
    BY <1>1, <1>3, <1>4, <2>1, <2>2, <2>3, QuietMove
<1>5. ASSUME UNCHANGED <<player, pc>> PROVE Decided' /\ (Coded => Coded')
  BY <1>1, <1>5, QuietStep DEF player
<1>6. CASE Load
  <2>1. /\ FState = "STOPPED" /\ FState' = "LOADING" /\ pc[App] = "idle"
        /\ Goto(App, "load") /\ UNCHANGED <<decoder, FCodecCtx>>
    BY <1>6 DEF Load
  <2>2. Moved(App, "load") /\ "load" \notin Deciding \cup Stopping
    BY <1>1, <1>3, <2>1, GotoMoved DEF Deciding, Stopping, AllLabels
  <2>3. Decided'
    BY <1>1, <1>3, <2>1, <2>2, DecidedMoved DEF LoadedStates, Deciding, Stopping
  <2>4. Coded => Coded'
    BY <1>1, <1>3, <2>1, <2>2, CodedMoved DEF LoadedStates, Stopping
  <2> QED
    BY <1>2, <2>3, <2>4
<1>7. CASE LoadReturns
  <2>1. /\ pc[App] = "load" /\ FState = "LOADING" /\ Goto(App, "idle")
        /\ \/ FState' = "LOADED" /\ decoder' = "live" /\ FCodecCtx' = "live"
           \/ FState' = "LOADING"
    BY <1>1, <1>7 DEF LoadReturns, Decided
  <2>2. Moved(App, "idle") /\ "idle" \notin Deciding \cup Stopping
    BY <1>1, <1>3, <2>1, GotoMoved DEF Deciding, Stopping, AllLabels
  <2>3. Decided'
    BY <1>1, <1>3, <2>1, <2>2, DecidedMoved DEF LoadedStates, Deciding, Stopping
  <2>4. ASSUME "loadFailed" \notin happened' PROVE Coded'
    <3>1. Coded /\ FState' = "LOADED"
      BY <1>2, <2>1, <2>2, <2>4 DEF LoadFailed, Moved
    <3> QED
      BY <1>1, <1>3, <2>1, <2>2, <3>1, CodedMoved DEF Stopping
  <2> QED
    BY <2>3, <2>4
<1>8. ASSUME NEW loop, Play(loop) PROVE Decided' /\ (Coded => Coded')
  BY <1>1, <1>8, StartTells DEF Play
<1>9. CASE PlayAdds \/ Pause \/ Rewind \/ StopCall
  BY <1>2, <1>4, <1>9 DEF PlayAdds, Pause, Rewind, StopCall
<1>10. CASE RewindPauses
  <2>1. /\ pc[App] = "rewind" /\ UNCHANGED player
        /\ Goto(App, IF FState = "RUNNING" THEN "pause" ELSE "seek")
    BY <1>10 DEF RewindPauses
  <2>2. FState \in {"RUNNING", "PAUSED"}
    BY <1>1, <2>1 DEF Decided
  <2> QED
    BY <1>2, <1>4, <2>1, <2>2
<1>11. CASE RewindSeeks
  BY <1>1, <1>2, <1>4, <1>11, StartTells DEF RewindSeeks
<1>12. CASE RadioAdds
  BY <1>2, <1>4, <1>5, <1>12 DEF RadioAdds
<1>13. CASE RadioRemoves
  BY <1>1, <1>2, <1>5, <1>13, StartTells DEF RadioRemoves
<1>14. CASE PauseMarks
  <2>1. PICK label \in {"seek", "idle"} : Goto(App, label)
    BY <1>14 DEF PauseMarks
  <2>2. Moved(App, label) /\ label \notin Deciding \cup Stopping
    <3>1. label \in AllLabels
      BY DEF AllLabels
    <3> QED
      BY <1>1, <1>3, <2>1, <3>1, GotoMoved DEF Deciding, Stopping
  <2>3. /\ pc[App] = "pause" /\ FState = "RUNNING" /\ FState' = "PAUSED"
        /\ UNCHANGED <<decoder, FCodecCtx>>
    BY <1>1, <1>3, <1>14 DEF PauseMarks, Decided
  <2>4. Decided'
    BY <1>1, <1>3, <2>2, <2>3, DecidedMoved DEF LoadedStates, Deciding, Stopping, Decided
  <2>5. Coded => Coded'
    BY <1>1, <1>3, <2>2, <2>3, CodedMoved DEF LoadedStates, Stopping
  <2> QED
    BY <1>2, <2>4, <2>5
<1> QED
  BY <1>2, <1>6, <1>7, <1>8, <1>9, <1>10, <1>11, <1>12, <1>13, <1>14 DEF Call, CallGoesOn

LEMMA TellingStop ==
  ASSUME Telling, Typed, HistoryNext, NEW a \in Actor, StopStep(a)
  PROVE  Telling'
<1> SUFFICES ASSUME "preempted" \notin happened'
             PROVE  Decided' /\ ("loadFailed" \notin happened' => Coded')
  BY DEF Telling
<1>1. /\ "preempted" \notin happened /\ Decided /\ Places /\ FState \in States
      /\ \A b \in Actor : pc[b] \in Deciding => pc'[b] # pc[b]
  BY Undisturbed DEF Telling, Typed, Fields
<1>2. "loadFailed" \notin happened' => Coded
  BY <1>1, NoFailure DEF Telling
<1> DEFINE back == IF a = App THEN "idle" ELSE "dead"
<1>3. back \in AllLabels /\ back \in {"idle", "dead"}
  BY DEF AllLabels
<1>4. StopLabels \subseteq AllLabels
  BY DEF StopLabels, AllLabels
<1> HIDE DEF back
<1>5. ASSUME NEW label \in StopLabels \cup {back}, Goto(a, label) PROVE Moved(a, label)
  BY <1>1, <1>3, <1>4, <1>5, GotoMoved
<1>6. CASE StopChecks(a)
  <2>1. PICK label \in {"mark", back} : /\ Goto(a, label)
                                        /\ label = "mark" => FState \notin {"STOPPED", "STOPPING"}
    BY <1>6 DEF StopChecks, Return, back
  <2>2. Moved(a, label) /\ label \notin Stopping \cup {"pause", "load", "rewind", "seek", "check"}
    BY <1>3, <1>5, <2>1 DEF StopLabels, Stopping
  <2>3. pc[a] = "check" /\ UNCHANGED <<FState, decoder, FCodecCtx>>
    BY <1>6 DEF StopChecks, player
  <2>4. a # App => FState = "RUNNING"
    BY <1>1, <2>3 DEF Actor, Decided
  <2> QED
    BY <1>1, <1>2, <2>1, <2>2, <2>3, <2>4, QuietMove
<1>7. CASE StopMarks(a)
  <2>1. /\ pc[a] = "mark" /\ FState' = "STOPPING" /\ UNCHANGED <<decoder, FCodecCtx>>
        /\ Moved(a, "wait")
    BY <1>5, <1>7 DEF StopMarks, StopLabels
  <2>2. FState \notin {"STOPPED", "STOPPING"}
    BY <1>1, <2>1 DEF Decided
  <2>3. Decided'
    BY <1>1, <2>1, <2>2, DecidedMoved DEF LoadedStates
  <2>4. Coded => Coded'
    <3>1. Coded => FState \in LoadedStates
      BY <1>1, <2>1, <2>2 DEF Coded, States, LoadedStates, Decided, Actor
    <3> QED
      BY <1>1, <2>1, <3>1, CodedMoved DEF LoadedStates
  <2> QED
    BY <1>2, <2>3, <2>4
<1>8. CASE StopWaits(a)
  <2>1. /\ pc[a] = "wait" /\ UNCHANGED <<FState, decoder, FCodecCtx>> /\ Moved(a, "free")
    BY <1>5, <1>8 DEF StopWaits, StopLabels, player
  <2> QED
    BY <1>1, <1>2, <2>1, QuietMove
<1>9. CASE StopFrees(a)
  <2>1. pc[a] = "free" /\ FState = "STOPPING" /\ decoder' = "none" /\ Moved(a, "end")
    BY <1>1, <1>5, <1>9 DEF StopFrees, StopLabels, Decided, Stopping
  <2>2. FState' = "STOPPING"
    BY <1>9, <2>1 DEF StopFrees
  <2>3. Decided'
    BY <1>1, <2>1, <2>2, DecidedMoved DEF LoadedStates, Stopping
  <2>4. Coded => Coded'
    BY <1>1, <2>1, <2>2, CodedMoved DEF LoadedStates
  <2> QED
    BY <1>2, <2>3, <2>4
<1>10. CASE StopEnds(a)
  <2>1. /\ pc[a] = "end" /\ FState' = "STOPPED" /\ UNCHANGED <<decoder, FCodecCtx>>
        /\ Moved(a, back)
    BY <1>5, <1>10 DEF StopEnds, Return, back
  <2>2. back \notin Deciding \cup Stopping /\ decoder = "none"
    BY <1>1, <1>3, <2>1 DEF Deciding, Stopping, Decided
  <2>3. Decided'
    BY <1>1, <1>3, <2>1, <2>2, DecidedMoved DEF LoadedStates, Deciding, Stopping
  <2>4. Coded => Coded'
    BY <1>1, <1>3, <2>1, <2>2, CodedMoved DEF LoadedStates, Stopping
  <2> QED
    BY <1>2, <2>3, <2>4
<1> QED
  BY <1>6, <1>7, <1>8, <1>9, <1>10 DEF StopStep

LEMMA TellingExecute ==
  ASSUME Telling, Typed, HistoryNext, NEW t \in Thread, ExecuteStep(t)
  PROVE  Telling'
<1> SUFFICES ASSUME "preempted" \notin happened'
             PROVE  Decided' /\ ("loadFailed" \notin happened' => Coded')
  BY DEF Telling
<1>1. /\ "preempted" \notin happened /\ Decided /\ Places /\ t \in Actor
      /\ \A b \in Actor : pc[b] \in Deciding => pc'[b] # pc[b]
  BY Undisturbed DEF Telling, Typed, Actor
<1>2. "loadFailed" \notin happened' => Coded
  BY <1>1, NoFailure DEF Telling
<1>3. UNCHANGED <<FState, decoder, FCodecCtx>>
  BY DEF ExecuteStep, Enter, Loop, Feed, ReadPacket, ReadEnd, Leave, Last, player
<1> DEFINE L == {"loop", "feed", "read", "leave", "last", "check", "dead"}
<1>4. \/ UNCHANGED pc
      \/ \E label \in L : Goto(t, label) /\ (label = "check" => FState = "RUNNING")
  BY DEF ExecuteStep, Enter, Loop, Feed, ReadPacket, ReadEnd, Leave, Last
<1>5. CASE UNCHANGED pc
  BY <1>1, <1>2, <1>3, <1>5, QuietStep
<1>6. ASSUME NEW label \in L, Goto(t, label), label = "check" => FState = "RUNNING"
      PROVE  Decided' /\ (Coded => Coded')
  <2>1. /\ label \in AllLabels
        /\ label \notin Stopping \cup {"mark", "pause", "load", "rewind", "seek"}
    BY DEF AllLabels, Stopping
  <2>2. Moved(t, label)
    BY <1>1, <1>6, <2>1, GotoMoved
  <2> QED
    BY <1>1, <1>3, <1>6, <2>1, <2>2, QuietMove, AppAssumption
<1> QED
  BY <1>2, <1>4, <1>5, <1>6

LEMMA TellingLife ==
  ASSUME Telling, Typed, HistoryNext, InstRef \/ Release
  PROVE  Telling'
<1> SUFFICES ASSUME "preempted" \notin happened'
             PROVE  Decided' /\ ("loadFailed" \notin happened' => Coded')
  BY DEF Telling
<1>1. /\ "preempted" \notin happened /\ Decided /\ Places /\ App \in Actor
      /\ \A b \in Actor : pc[b] \in Deciding => pc'[b] # pc[b]
  BY Undisturbed DEF Telling, Typed, Actor
<1>2. "loadFailed" \notin happened' => Coded
  BY <1>1, NoFailure DEF Telling
<1>3. CASE UNCHANGED <<player, pc>>
  BY <1>1, <1>2, <1>3, QuietStep DEF player
<1>4. CASE pc[App] = "idle" /\ Goto(App, "check") /\ UNCHANGED player
  <2>1. Moved(App, "check") /\ "check" \notin Stopping
    BY <1>1, <1>4, GotoMoved DEF AllLabels, Stopping
  <2> QED
    BY <1>1, <1>2, <1>4, <2>1, QuietMove DEF player
<1>5. CASE /\ pc[App] = "idle" /\ Alive = {} /\ pc' = pc
           /\ FState' = "STOPPED" /\ decoder' = "none" /\ FCodecCtx' = "null"
  <2>1. \A b \in Actor : pc'[b] \in {"idle", "dead"}
    BY <1>5 DEF Alive, Actor
  <2>2. Decided'
    BY <1>1, <1>5, <2>1 DEF Decided, Deciding, Stopping, LoadedStates, Actor
  <2>3. Coded'
    BY <1>5, <2>1 DEF Coded, LoadedStates
  <2> QED
    BY <2>2, <2>3
<1> QED
  BY <1>3, <1>4, <1>5 DEF InstRef, Release, steps

LEMMA TellingInit == Init => Telling
<1> SUFFICES ASSUME Init PROVE Decided /\ Coded
  BY DEF Telling
<1>1. \A b \in Actor : pc[b] \in {"idle", "dead"}
  BY DEF Init
<1> QED
  BY <1>1 DEF Init, Decided, Coded, Deciding, Stopping, LoadedStates, Actor

LEMMA TellingStep ==
  ASSUME Telling, Typed, [HistoryNext]_historyVars
  PROVE  Telling'
<1>1. CASE UNCHANGED historyVars
  BY <1>1 DEF historyVars, vars, steps, player, mixer, Telling, Decided, Coded
<1>2. CASE HistoryNext
  <2>1. CASE Call \/ CallGoesOn
    BY <1>2, <2>1, TellingApp
  <2>2. ASSUME NEW a \in Actor, StopStep(a) PROVE Telling'
    BY <1>2, <2>2, TellingStop
  <2>3. ASSUME NEW t \in Thread, ExecuteStep(t) PROVE Telling'
    BY <1>2, <2>3, TellingExecute
  <2>4. CASE InstRef \/ Release
    BY <1>2, <2>4, TellingLife
  <2> QED
    BY <1>2, <2>1, <2>2, <2>3, <2>4
    DEF HistoryNext, Next, AppStep, CallGoesOn, ThreadStep, Actor
<1> QED
  BY <1>1, <1>2

LEMMA TellingAlways == HistorySpec => []Telling
<1>1. HistoryInit => Telling
  BY TellingInit DEF HistoryInit
<1> QED
  BY <1>1, HistoryWatches, TypedAlways, TellingStep, PTL DEF HistorySpec

(* The state tells clients whether a file is loaded, as long as no thread  *)
(* is preempted between its look at the state and its assignment: whatever *)
(* clients call, however many threads there are and whether a new one is   *)
(* late (src/ff_audio.cpp:66-67, 141-162, 186-220).                        *)
THEOREM StateIsTrue == HistorySpec => []StateTellsDecoder
<1>1. Telling => StateTellsDecoder
  BY DEF Telling, Decided, StateTellsDecoder, LoadedStates
<1> QED
  BY <1>1, TellingAlways, PTL

(* If no file fails either, Stop closes the codec context that this file's *)
(* Load has opened (src/ff_audio.cpp:85-141, 199-205).                     *)
THEOREM ClosesOwnCodec == HistorySpec => []StopClosesLive
<1>1. Telling => StopClosesLive
  BY DEF Telling, Coded, StopClosesLive
<1> QED
  BY <1>1, TellingAlways, PTL

-----------------------------------------------------------------------------
(* While nothing is preempted or missed: a stopped player is not in the    *)
(* mixer, Play is not overtaken by the end of its file, and without a      *)
(* reference there is a destructor or a stopped player.                    *)
Mixed == {top} \cup below

Quiet == "player" \notin Mixed

Departed ==
  /\ FState = "STOPPED" => Quiet
  /\ \A a \in Actor : pc[a] = "end" => Quiet
  /\ pc[App] = "settle" => FState # "STOPPED" /\ \A t \in Thread : pc[t] # "end"
  /\ RefCount = 0 => \/ pc[App] \in StopLabels
                     \/ pc[App] = "idle" /\ FState = "STOPPED"

(* If the player is calm as well, a stopped one has no thread, and the     *)
(* application frees the decoder when there is none.                       *)
Deserted ==
  /\ FState = "STOPPED" => Alive = {}
  /\ pc[App] \in {"free", "end"} => Alive = {}

Smooth == happened \cap {"preempted", "missed"} = {}

Departing == Smooth => Departed /\ (Calm => Deserted)

All == Supported /\ Typed /\ Counted /\ Telling /\ Departing

(* What a step that needs no excuse may assume.                            *)
LEMMA SmoothStep ==
  ASSUME All, HistoryNext, Smooth'
  PROVE  /\ Departed /\ Decided /\ Places /\ Places' /\ Stacked /\ RefCount \in Nat
         /\ \A a \in Actor : pc[a] \in Deciding => pc'[a] # pc[a]
         /\ \A t \in Thread : pc[t] = "last" => pc'[t] # "last"
         /\ ~ FoundBusy /\ ~ TooShort
<1>1. "preempted" \notin happened' /\ "missed" \notin happened'
  BY DEF Smooth
<1>2. "missed" \notin happened /\ "missed" \notin Mishaps
  BY <1>1, NotNoted
<1>3. /\ "preempted" \notin happened
      /\ \A a \in Actor : pc[a] \in Deciding => pc'[a] # pc[a]
  BY <1>1, Undisturbed
<1>4. ~ Overtaken({"last"}, Thread) /\ ~ FoundBusy /\ ~ TooShort
  BY <1>2 DEF Mishaps
<1>5. \A t \in Thread : pc[t] = "last" => pc'[t] # "last"
  BY <1>4 DEF Overtaken
<1>6. Departed /\ Decided
  BY <1>2, <1>3 DEF All, Departing, Smooth, Telling
<1>7. Typed'
  BY TypedStep DEF All, HistoryNext
<1>8. RefCount \in Nat
  BY FFAudioPlayerAssumption DEF All, Counted
<1> QED
  BY <1>3, <1>4, <1>5, <1>6, <1>7, <1>8 DEF All, Typed

(* What it may assume besides, unless the last thread goes with it.        *)
LEMMA DesertedBefore ==
  ASSUME All, HistoryNext, Smooth', Calm'
  PROVE  Alive' = {} \/ (Deserted /\ Inv /\ ~ Crowds)
<1>1. Smooth
  BY NotNoted DEF Smooth
<1> QED
  BY <1>1, CalmStep DEF All, Departing, Supported

(* Without a thread there is nothing to show of Deserted.                  *)
LEMMA EmptyDeserted ==
  ASSUME Alive' = {} PROVE Deserted'
BY DEF Deserted

(* The application moves, but not to where it frees or starts a thread.    *)
LEMMA AppDeparts ==
  ASSUME Departed, Labels, Labels', NEW label,
         pc'[App] = label, \A t \in Thread : pc'[t] = pc[t],
         label \notin {"free", "end", "settle"},
         FState' = "STOPPED" => FState = "STOPPED",
         (Quiet => Quiet') \/ (FState' # "STOPPED" /\ \A t \in Thread : pc[t] # "end"),
         RefCount' = 0 => label \in StopLabels \/ (label = "idle" /\ FState' = "STOPPED")
  PROVE  Departed' /\ (Deserted => Deserted')
<1>1. Alive' = Alive
  BY DEF Alive
<1>2. \A a \in Actor : pc'[a] = "end" => Quiet'
  BY DEF Departed, Actor
<1>3. FState' = "STOPPED" => Quiet'
  BY DEF Departed
<1> QED
  BY <1>1, <1>2, <1>3 DEF Departed, Deserted

LEMMA StartDeparts ==
  ASSUME Decided, Places, NEW loop, PlayStarts(loop), CanPlay, RefCount' # 0
  PROVE  Departed' /\ Deserted'
<1> PICK t \in Thread : pc[t] = "dead" /\ pc' = [pc EXCEPT ![t] = "born", ![App] = "settle"]
  BY DEF PlayStarts
<1>1. pc \in [Actor -> AllLabels] /\ Thread \subseteq Actor /\ App \in Actor /\ App # t
  BY AppAssumption DEF Places, Labels, Actor
<1>2. pc' = [a \in Actor |-> IF a = App THEN "settle" ELSE IF a = t THEN "born" ELSE pc[a]]
  BY <1>1
<1>3. \A a \in Actor : pc[a] # "end"
  BY DEF CanPlay, Decided, Stopping
<1>4. pc'[App] = "settle" /\ FState' = "RUNNING" /\ \A a \in Actor : pc'[a] # "end"
  BY <1>1, <1>2, <1>3 DEF PlayStarts
<1> QED
  BY <1>1, <1>4 DEF Departed, Deserted

LEMMA RadioQuiet ==
  ASSUME Stacked, RemoveSource("radio"), Quiet
  PROVE  Quiet'
BY RemoveStacks DEF Stacked, Quiet, Mixed

LEMMA DepartingApp ==
  ASSUME All, HistoryNext, RefCount' = RefCount, Smooth',
         (RefCount > 0 /\ Call) \/ RadioAdds \/ RadioRemoves \/ CallGoesOn
  PROVE  Departed' /\ (Deserted => Deserted')
<1>1. Departed /\ Decided /\ Places /\ Places' /\ Stacked
  BY SmoothStep
<1>2. Labels /\ Labels' /\ pc \in [Actor -> AllLabels] /\ App \in Actor
      /\ \A t \in Thread : t \in Actor /\ t # App
  BY <1>1, AppAssumption DEF Places, Labels, Actor
<1> DEFINE Others == \A t \in Thread : pc'[t] = pc[t]
<1>4. ASSUME NEW label \in {"idle", "load", "rewind", "pause", "seek", "check"}, Goto(App, label)
      PROVE  pc'[App] = label /\ Others
  <2>1. label \in AllLabels
    BY DEF AllLabels
  <2> QED
    BY <1>2, <1>4, <2>1, GotoMoves
<1>5. UNCHANGED mixer => (Quiet => Quiet')
  BY DEF mixer, Quiet, Mixed
<1>6. ASSUME RefCount > 0 \/ pc[App] # "idle" PROVE RefCount' # 0 \/ pc[App] \in StopLabels
  BY <1>1, <1>6, SmoothStep DEF Departed
<1>7. {"idle", "load", "settle", "rewind", "pause", "seek"} \cap StopLabels = {}
  BY DEF StopLabels
<1>8. CASE (RefCount > 0 /\ Load) \/ LoadReturns
  <2>1. /\ pc[App] \in {"idle", "load"} /\ UNCHANGED mixer
        /\ Goto(App, "idle") \/ Goto(App, "load")
    BY <1>8 DEF Load, LoadReturns
  <2>2. FState' # "STOPPED"
    BY <1>1, <1>8 DEF Load, LoadReturns, Decided
  <2>3. RefCount' # 0
    BY <1>6, <1>7, <1>8, <2>1 DEF LoadReturns
  <2>4. PICK label \in {"idle", "load"} : Goto(App, label)
    BY <2>1
  <2>5. pc'[App] = label /\ Others
    BY <1>4, <2>4
  <2> QED
    BY <1>1, <1>2, <1>5, <2>1, <2>2, <2>3, <2>5, AppDeparts
<1>9. ASSUME RefCount > 0, NEW loop, Play(loop) PROVE Departed' /\ (Deserted => Deserted')
  BY <1>1, <1>6, <1>7, <1>9, StartDeparts DEF Play
<1>10. CASE PlayAdds
  <2>1. pc[App] = "settle" /\ Goto(App, "idle") /\ FState' = FState
    BY <1>10 DEF PlayAdds, player
  <2>2. FState # "STOPPED" /\ \A t \in Thread : pc[t] # "end"
    BY <1>1, <2>1 DEF Departed
  <2> QED
    BY <1>1, <1>2, <1>4, <1>6, <1>7, <2>1, <2>2, AppDeparts
<1>11. CASE (RefCount > 0 /\ (Pause \/ Rewind \/ StopCall)) \/ RewindPauses
  <2>1. PICK label \in {"rewind", "pause", "seek", "check"} : Goto(App, label)
    BY <1>11 DEF Pause, Rewind, RewindPauses, StopCall
  <2>2. FState' = FState /\ UNCHANGED mixer /\ pc[App] \in {"idle", "rewind"}
    BY <1>11 DEF Pause, Rewind, RewindPauses, StopCall, player
  <2>3. RefCount' # 0
    BY <1>6, <1>7, <1>11, <2>2 DEF RewindPauses
  <2>4. pc'[App] = label /\ Others
    BY <1>4, <2>1
  <2> QED
    BY <1>1, <1>2, <1>5, <2>2, <2>3, <2>4, AppDeparts
<1>12. CASE RewindSeeks
  <2>1. pc[App] = "seek" /\ RefCount' # 0
    BY <1>6, <1>7, <1>12 DEF RewindSeeks
  <2>2. \/ CanPlay /\ PlayStarts(1)
        \/ Goto(App, "idle") /\ FState' = FState /\ UNCHANGED mixer
    BY <1>12 DEF RewindSeeks, player
  <2> QED
    BY <1>1, <1>2, <1>4, <1>5, <2>1, <2>2, StartDeparts, AppDeparts
<1>13. CASE RadioAdds
  <2>1. pc[App] = "idle" /\ FState' = FState
    BY <1>13 DEF RadioAdds, player
  <2>2. CASE FState = "RUNNING" /\ Goto(App, "pause") /\ UNCHANGED mixer
    <3>1. RefCount' # 0
      BY <1>1, <2>1, <2>2, <1>7 DEF Departed
    <3> QED
      BY <1>1, <1>2, <1>4, <1>5, <2>1, <2>2, <3>1, AppDeparts
  <2>3. CASE pc' = pc /\ top' = "radio" /\ below' = (below \cup {top}) \ {"none", "radio"}
    <3>1. Quiet => Quiet'
      BY <2>3 DEF Quiet, Mixed
    <3>2. RefCount' = 0 => FState' = "STOPPED"
      BY <1>1, <1>7, <2>1 DEF Departed
    <3> QED
      BY <1>1, <1>2, <2>1, <2>3, <3>1, <3>2, AppDeparts
  <2> QED
    BY <1>13, <2>2, <2>3 DEF RadioAdds
<1>14. CASE PauseMarks
  <2>1. pc[App] = "pause" /\ FState' = "PAUSED" /\ RefCount' # 0
    BY <1>6, <1>7, <1>14 DEF PauseMarks
  <2>2. PICK label \in {"idle", "seek"} : Goto(App, label)
    BY <1>14 DEF PauseMarks
  <2>3. Quiet => Quiet'
    BY <1>5, <1>14 DEF PauseMarks, Quiet, Mixed
  <2>4. pc'[App] = label /\ Others
    BY <1>4, <2>2
  <2> QED
    BY <1>1, <1>2, <2>1, <2>3, <2>4, AppDeparts
<1>15. CASE RadioRemoves
  <2>1. pc[App] = "idle" /\ RemoveSource("radio")
    BY <1>15 DEF RadioRemoves
  <2>2. Quiet => Quiet'
    BY <1>1, <2>1, RadioQuiet
  <2>3. \/ FState = "PAUSED" /\ CanPlay /\ PlayStarts(1)
        \/ pc' = pc /\ FState' = FState
    BY <1>15 DEF RadioRemoves, player
  <2>4. RefCount' = 0 => FState = "STOPPED"
    BY <1>1, <1>7, <2>1 DEF Departed
  <2> QED
    BY <1>1, <1>2, <2>1, <2>2, <2>3, <2>4, StartDeparts, AppDeparts
<1> QED
  BY <1>8, <1>9, <1>10, <1>11, <1>12, <1>13, <1>14, <1>15 DEF Call, CallGoesOn

(* A thread moves on without freeing anything.                             *)
LEMMA ThreadDeparts ==
  ASSUME Departed, pc \in [Actor -> AllLabels], NEW t \in Thread, NEW label \in AllLabels,
         Goto(t, label), pc[t] # "dead", label # "end",
         UNCHANGED <<mixer, RefCount>>, FState' # "STOPPED" \/ FState' = FState,
         FState = "STOPPED" => FState' = "STOPPED"
  PROVE  Departed' /\ (Deserted => Deserted')
<1>1. t \in Actor /\ t # App /\ App \in Actor /\ Thread \subseteq Actor
  BY AppAssumption DEF Actor
<1>2. /\ pc'[t] = label /\ pc'[App] = pc[App]
      /\ \A b \in Actor \ {t} : pc'[b] = pc[b]
  BY <1>1, GotoMoves
<1>3. t \in Alive
  BY DEF Alive
<1>4. Quiet' = Quiet
  BY DEF Quiet, Mixed, mixer
<1>5. Departed'
  BY <1>1, <1>2, <1>4 DEF Departed
<1>6. Deserted => Deserted'
  BY <1>2, <1>3 DEF Deserted
<1> QED
  BY <1>5, <1>6

LEMMA DepartingExecute ==
  ASSUME All, HistoryNext, RefCount' = RefCount, Smooth', NEW t \in Thread, ExecuteStep(t)
  PROVE  Departed' /\ (Deserted => Deserted')
<1>1. Departed /\ pc \in [Actor -> AllLabels]
  BY SmoothStep DEF Places, Labels
<1>2. UNCHANGED <<FState, mixer>> /\ pc[t] # "dead"
  BY DEF ExecuteStep, Enter, Loop, Feed, ReadPacket, ReadEnd, Leave, Last, player
<1> DEFINE L == {"loop", "feed", "read", "leave", "last", "check", "dead"}
<1>3. UNCHANGED pc \/ \E label \in L : Goto(t, label)
  BY DEF ExecuteStep, Enter, Loop, Feed, ReadPacket, ReadEnd, Leave, Last
<1>4. CASE UNCHANGED pc
  BY <1>1, <1>2, <1>4 DEF Departed, Deserted, Alive, Quiet, Mixed, mixer
<1>5. CASE \E label \in L : Goto(t, label)
  <2>1. L \subseteq AllLabels /\ "end" \notin L
    BY DEF AllLabels
  <2> QED
    BY <1>1, <1>2, <1>5, <2>1, ThreadDeparts
<1> QED
  BY <1>3, <1>4, <1>5

LEMMA DepartingThreadStop ==
  ASSUME All, HistoryNext, RefCount' = RefCount, Smooth', NEW t \in Thread, StopStep(t)
  PROVE  Departed' /\ (Calm' => Deserted')
<1>1. Departed /\ Decided /\ Stacked /\ Labels /\ pc \in [Actor -> AllLabels] /\ ~ TooShort
  BY SmoothStep DEF Places, Labels
<1>2. t \in Actor /\ t # App /\ App \in Actor /\ Thread \subseteq Actor
  BY AppAssumption DEF Actor
<1>3. {"mark", "wait", "free", "end", "dead"} \subseteq AllLabels
  BY DEF AllLabels
<1>4. Calm' => Alive' = {} \/ (Deserted /\ Inv)
  BY DesertedBefore
<1>5. CASE StopChecks(t) \/ StopMarks(t) \/ StopWaits(t)
  <2>1. /\ \E label \in {"mark", "wait", "free", "dead"} : Goto(t, label)
        /\ UNCHANGED mixer /\ pc[t] # "dead"
    BY <1>2, <1>5 DEF StopChecks, StopMarks, StopWaits, Return
  <2>2. /\ FState' # "STOPPED" \/ FState' = FState
        /\ FState = "STOPPED" => FState' = "STOPPED"
    BY <1>1, <1>2, <1>5 DEF StopChecks, StopMarks, StopWaits, player, Decided
  <2>3. Departed' /\ (Deserted => Deserted')
    BY <1>1, <1>3, <2>1, <2>2, ThreadDeparts
  <2> QED
    BY <1>4, <2>3, EmptyDeserted
<1>6. ASSUME NEW label \in {"end", "dead"}, Goto(t, label)
      PROVE  pc'[t] = label /\ \A b \in Actor \ {t} : pc'[b] = pc[b]
  BY <1>1, <1>2, <1>3, <1>6, GotoMoves
<1>7. CASE StopFrees(t)
  <2>1. pc[t] = "free" /\ pc'[t] = "end" /\ \A b \in Actor \ {t} : pc'[b] = pc[b]
    BY <1>6, <1>7 DEF StopFrees
  <2>2. FState = "STOPPING" /\ FState' = "STOPPING"
    BY <1>1, <1>2, <1>7, <2>1 DEF StopFrees, Decided, Stopping
  <2>3. Quiet'
    BY <1>1, <1>7, RemoveStacks DEF StopFrees, Stacked, Quiet, Mixed
  <2>4. pc[App] # "settle" /\ pc[App] \notin Stopping
    BY <1>1, <1>2, <2>1 DEF TooShort, Decided, Stopping
  <2> QED
    BY <1>1, <1>2, <2>1, <2>2, <2>3, <2>4 DEF Departed, Deserted, Stopping
<1>8. CASE StopEnds(t)
  <2>1. /\ pc[t] = "end" /\ pc'[t] = "dead" /\ \A b \in Actor \ {t} : pc'[b] = pc[b]
        /\ FState' = "STOPPED" /\ UNCHANGED mixer
    BY <1>2, <1>6, <1>8 DEF StopEnds, Return
  <2>2. Quiet'
    BY <1>1, <1>2, <2>1 DEF Departed, Quiet, Mixed, mixer
  <2>3. pc[App] # "settle" /\ pc'[App] = pc[App]
    BY <1>1, <1>2, <2>1 DEF Departed
  <2>4. Departed'
    BY <1>1, <2>1, <2>2, <2>3 DEF Departed
  <2>5. ASSUME Inv PROVE Alive' = {}
    <3>1. \A u \in Thread \ {t} : pc[u] = "dead"
      BY <2>1, <2>5 DEF Inv, OneThread
    <3> QED
      BY <1>2, <2>1, <3>1 DEF Alive
  <2> QED
    BY <1>4, <2>4, <2>5, EmptyDeserted
<1> QED
  BY <1>5, <1>7, <1>8 DEF StopStep

LEMMA DepartingAppStop ==
  ASSUME All, HistoryNext, RefCount' = RefCount, Smooth', StopStep(App)
  PROVE  Departed' /\ (Calm' => Deserted')
<1>1. /\ Departed /\ Decided /\ Stacked /\ Places /\ Places' /\ ~ FoundBusy
      /\ \A a \in Actor : pc[a] \in Deciding => pc'[a] # pc[a]
      /\ \A t \in Thread : pc[t] = "last" => pc'[t] # "last"
  BY SmoothStep
<1>2. Labels /\ Labels' /\ pc \in [Actor -> AllLabels] /\ App \in Actor
      /\ \A t \in Thread : t \in Actor /\ t # App
  BY <1>1, AppAssumption DEF Places, Labels, Actor
<1>3. Calm' => Alive' = {} \/ (Deserted /\ Inv)
  BY DesertedBefore
<1> DEFINE Others == \A t \in Thread : pc'[t] = pc[t]
<1>4. ASSUME NEW label \in {"idle", "mark", "wait", "free", "end"}, Goto(App, label)
      PROVE  pc'[App] = label /\ Others
  <2>1. label \in AllLabels
    BY DEF AllLabels
  <2> QED
    BY <1>2, <1>4, <2>1, GotoMoves
<1>5. UNCHANGED mixer => (Quiet => Quiet')
  BY DEF mixer, Quiet, Mixed
<1>6. {"check", "mark", "wait", "free", "end"} = StopLabels
  BY DEF StopLabels
<1>7. (Deserted => Deserted') => (Calm' => Deserted')
  BY <1>3, EmptyDeserted
<1>8. CASE StopChecks(App)
  <2>1. UNCHANGED mixer /\ FState' = FState /\ pc[App] = "check"
    BY <1>8 DEF StopChecks, player
  <2>2. CASE Goto(App, "mark")
    BY <1>1, <1>2, <1>4, <1>5, <1>6, <1>7, <2>1, <2>2, AppDeparts
  <2>3. CASE Goto(App, "idle") /\ FState \in {"STOPPED", "STOPPING"}
    <3>1. RefCount' = 0 => FState' = "STOPPED"
      BY <1>1, <1>4, <2>1, <2>3 DEF FoundBusy
    <3> QED
      BY <1>1, <1>2, <1>4, <1>5, <1>7, <2>1, <2>3, <3>1, AppDeparts
  <2> QED
    BY <1>8, <2>2, <2>3 DEF StopChecks, Return
<1>9. CASE StopMarks(App)
  <2>1. FState' = "STOPPING" /\ UNCHANGED mixer /\ pc'[App] = "wait" /\ Others
    BY <1>4, <1>9 DEF StopMarks
  <2> QED
    BY <1>1, <1>2, <1>5, <1>6, <1>7, <2>1, AppDeparts
<1>10. CASE StopWaits(App)
  <2>1. /\ pc[App] = "wait" /\ FThreadDone /\ UNCHANGED <<FState, mixer>>
        /\ pc'[App] = "free" /\ Others
    BY <1>4, <1>10 DEF StopWaits, player
  <2>2. FState = "STOPPING"
    BY <1>1, <1>2, <2>1 DEF Decided, Stopping
  <2>3. ASSUME Inv, NEW t \in Thread PROVE pc[t] = "dead"
    <3>1. pc[t] \notin {"born", "leave"} \cup Working
      BY <2>1, <2>3 DEF Inv, Announced
    <3>2. pc[t] \notin Deciding \cup {"last"}
      BY <1>1, <1>2, <2>1
    <3>3. pc[t] \notin Stopping
      BY <1>1, <1>2, <2>1 DEF Decided, Stopping
    <3> QED
      BY <1>2, <3>1, <3>2, <3>3 DEF Labels, Working, Deciding, Stopping, StopLabels
  <2>4. Inv => Alive' = {}
    BY <2>1, <2>3 DEF Alive
  <2>5. Departed'
    BY <1>1, <1>2, <1>5, <1>6, <2>1, <2>2 DEF Departed, Actor
  <2> QED
    BY <1>3, <2>4, <2>5, EmptyDeserted
<1>11. CASE StopFrees(App)
  <2>1. pc[App] = "free" /\ pc'[App] = "end" /\ Others
    BY <1>4, <1>11 DEF StopFrees
  <2>2. FState = "STOPPING" /\ FState' = "STOPPING"
    BY <1>1, <1>2, <1>11, <2>1 DEF StopFrees, Decided, Stopping
  <2>3. Quiet'
    BY <1>1, <1>11, RemoveStacks DEF StopFrees, Stacked, Quiet, Mixed
  <2>4. Deserted => Alive' = {}
    BY <2>1 DEF Deserted, Alive
  <2>5. Departed'
    BY <1>6, <2>1, <2>2, <2>3 DEF Departed
  <2> QED
    BY <1>3, <2>4, <2>5, EmptyDeserted
<1>12. CASE StopEnds(App)
  <2>1. pc[App] = "end" /\ pc'[App] = "idle" /\ Others /\ FState' = "STOPPED" /\ UNCHANGED mixer
    BY <1>4, <1>12 DEF StopEnds, Return
  <2>2. Quiet'
    BY <1>1, <1>2, <1>5, <2>1 DEF Departed
  <2>3. Deserted => Alive' = {}
    BY <2>1 DEF Deserted, Alive
  <2>4. Departed'
    BY <2>1, <2>2 DEF Departed
  <2> QED
    BY <1>3, <2>3, <2>4, EmptyDeserted
<1> QED
  BY <1>8, <1>9, <1>10, <1>11, <1>12 DEF StopStep

LEMMA DepartingLife ==
  ASSUME All, HistoryNext, Smooth', InstRef \/ Release
  PROVE  Departed' /\ (Deserted => Deserted')
<1>1. Departed /\ Places /\ Places' /\ RefCount \in Nat
  BY SmoothStep
<1>2. Labels /\ Labels' /\ pc \in [Actor -> AllLabels] /\ App \in Actor
      /\ \A t \in Thread : t \in Actor /\ t # App
  BY <1>1, AppAssumption DEF Places, Labels, Actor
<1>3. UNCHANGED mixer => (Quiet => Quiet')
  BY DEF mixer, Quiet, Mixed
<1>4. CASE InstRef
  <2>1. pc[App] = "idle" /\ RefCount' # 0 /\ pc' = pc
    BY <1>1, <1>4 DEF InstRef, steps
  <2>2. CASE UNCHANGED steps
    BY <1>1, <1>2, <1>3, <2>1, <2>2, AppDeparts DEF steps, player
  <2>3. CASE RefCount = 0 /\ UNCHANGED <<top, below>>
    <3>1. FState = "STOPPED"
      BY <1>1, <2>1, <2>3 DEF Departed, StopLabels
    <3>2. Quiet => Quiet'
      BY <2>3 DEF Quiet, Mixed
    <3> QED
      BY <1>1, <1>2, <2>1, <3>1, <3>2, AppDeparts
  <2> QED
    BY <1>1, <1>4, <2>2, <2>3 DEF InstRef
<1>5. CASE Release
  <2>1. pc[App] = "idle" /\ UNCHANGED <<player, mixer>>
    BY <1>5 DEF Release
  <2>2. CASE RefCount = 1 /\ Goto(App, "check")
    <3>1. pc'[App] = "check" /\ \A t \in Thread : pc'[t] = pc[t]
      BY <1>2, <2>2, GotoMoves DEF AllLabels
    <3> QED
      BY <1>1, <1>2, <1>3, <2>1, <3>1, AppDeparts DEF StopLabels, player
  <2>3. CASE RefCount # 1 /\ pc' = pc
    <3>1. RefCount' # 0
      BY <1>1, <1>5, <2>3 DEF Release
    <3> QED
      BY <1>1, <1>2, <1>3, <2>1, <2>3, <3>1, AppDeparts DEF player
  <2> QED
    BY <1>5, <2>2, <2>3 DEF Release
<1> QED
  BY <1>4, <1>5

LEMMA DepartingStep ==
  ASSUME All, [HistoryNext]_historyVars
  PROVE  Departing'
<1>1. CASE UNCHANGED historyVars
  BY <1>1 DEF historyVars, vars, steps, player, mixer, All, Departing, Departed, Deserted,
              Smooth, Calm, Alive, Quiet, Mixed
<1>2. CASE HistoryNext
  <2> SUFFICES ASSUME Smooth' PROVE Departed' /\ (Calm' => Deserted')
    BY DEF Departing
  <2>1. (Deserted => Deserted') => (Calm' => Deserted')
    BY <1>2, DesertedBefore, EmptyDeserted
  <2>2. CASE /\ RefCount' = RefCount
             /\ (RefCount > 0 /\ Call) \/ RadioAdds \/ RadioRemoves \/ CallGoesOn
    BY <1>2, <2>1, <2>2, DepartingApp
  <2>3. ASSUME NEW t \in Thread, RefCount' = RefCount, ThreadStep(t)
        PROVE  Departed' /\ (Calm' => Deserted')
    BY <1>2, <2>1, <2>3, DepartingExecute, DepartingThreadStop DEF ThreadStep
  <2>4. CASE RefCount' = RefCount /\ StopStep(App)
    BY <1>2, <2>4, DepartingAppStop
  <2>5. CASE InstRef \/ Release
    BY <1>2, <2>1, <2>5, DepartingLife
  <2> QED
    BY <1>2, <2>2, <2>3, <2>4, <2>5 DEF HistoryNext, Next, AppStep, CallGoesOn, Call
<1> QED
  BY <1>1, <1>2

LEMMA DepartingInit == Init => Departing
<1> SUFFICES ASSUME Init PROVE Departed /\ Deserted
  BY DEF Departing
<1>1. /\ pc[App] = "idle" /\ \A t \in Thread : pc[t] = "dead"
      /\ \A a \in Actor : pc[a] # "end"
  BY AppAssumption DEF Init, Actor
<1> QED
  BY <1>1 DEF Init, Departed, Deserted, Alive, Quiet, Mixed

(* Once the last reference is released and the destructor is done, neither *)
(* a thread nor the mixer knows the player, but for the mishaps the        *)
(* property names; a rewound or resumed player that has come to rest since *)
(* is no exception (src/ff_audio.cpp:26-36, 46-50, 188-220, 305-307).      *)
THEOREM ReleasedLeavesNobody == HistorySpec => []ReleasedAlone
<1>1. Departing /\ Places => ReleasedAlone
  BY DEF Departing, Departed, Deserted, Smooth, Calm, ReleasedAlone, Quiet, Mixed, StopLabels
<1>2. Supported /\ Typed /\ Counted /\ Telling /\ Departing /\ [HistoryNext]_historyVars
      => Departing'
  BY DepartingStep DEF All
<1>3. Typed => Places
  BY DEF Typed
<1>4. HistoryInit => Departing
  BY DepartingInit DEF HistoryInit
<1> QED
  BY <1>1, <1>2, <1>3, <1>4, SupportedAlways, HistoryWatches, TypedAlways, TellingAlways, PTL
  DEF HistorySpec
=============================================================================
