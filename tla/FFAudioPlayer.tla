--------------------------- MODULE FFAudioPlayer ---------------------------
(***************************************************************************)
(* FFAudioPlayer (include/ff_audio.h, src/ff_audio.cpp): the application's *)
(* calls against the decode threads that Play starts.  They share the      *)
(* player's fields without a lock.  A step ends where a thread sleeps,     *)
(* waits, or reads a field it will act upon.  The player is a singleton:   *)
(* InstRef makes it, and the last Release destroys it.                     *)
(*                                                                         *)
(* The mixer is the stack of sources that SourceStack describes, with one  *)
(* other source, the radio; its calls are atomic here.                     *)
(* FFAudioPlayerHistory adds what has gone wrong so far, and what holds    *)
(* while it has not.                                                       *)
(***************************************************************************)
EXTENDS FiniteSets, Naturals

CONSTANTS
  Thread,     \* bound: so many decode threads exist at a time, at most
  MaxLoop,    \* the largest loop count a client asks for
  MaxRefs     \* bound: clients stop calling InstRef at this count

ASSUME FFAudioPlayerAssumption ==
  MaxLoop \in 1 .. 255 /\ MaxRefs \in Nat \ {0}

App == "app"
ASSUME AppAssumption == App \notin Thread

Actor == Thread \cup {App}

VARIABLES
  RefCount,       \* the references to the player, which exists if there are any
  FState,         \* the player's state
  FThreadDone,    \* has the decode thread left its loop?
  FTerminating,   \* TThread's flag, which Execute never reads
  FLoop,          \* how many times the file is still to be played
  unsent,         \* are there bytes of FBuf to write (FBufSize > FBufReaded)?
  decoder,        \* what Load allocates and Stop frees (FFormatCtx, FBuf, ...)
  FCodecCtx,      \* a part of FFormatCtx that Stop never sets to NULL
  FPausedByRace,  \* did the mixer pause the player for the radio?
  top,            \* the mixer's FRunningSource
  below,          \* the mixer's FPausedSources
  pc,             \* where each thread is
  afterPause      \* what the application does after the Pause it is in

player == <<FState, FThreadDone, FTerminating, FLoop, unsent, decoder, FCodecCtx>>
mixer == <<FPausedByRace, top, below>>
steps == <<player, mixer, pc, afterPause>>
vars == <<steps, RefCount>>

States == {"LOADING", "LOADED", "RUNNING", "PAUSED", "STOPPING", "STOPPED"}

TypeOK ==
  /\ RefCount \in 0 .. MaxRefs
  /\ FState \in States
  /\ FThreadDone \in BOOLEAN
  /\ FTerminating \in BOOLEAN
  /\ FLoop \in 0 .. MaxLoop
  /\ unsent \in BOOLEAN
  /\ decoder \in {"none", "live"}
  /\ FCodecCtx \in {"null", "live", "dangling"}
  /\ FPausedByRace \in BOOLEAN
  /\ top \in {"none", "player", "radio"}
  /\ below \subseteq {"player", "radio"} \ {top}
  /\ pc \in [Actor -> {"idle", "load", "settle", "rewind", "pause", "seek", "dead", "born",
                       "loop", "feed", "read", "leave", "last", "check", "mark", "wait", "free", "end"}]
  /\ afterPause \in {"return", "rewind", "radio"}

(* No player yet; its fields are what the constructor and Init set.        *)
Init ==
  /\ RefCount = 0
  /\ FState = "STOPPED"
  /\ FThreadDone = TRUE
  /\ FTerminating = TRUE
  /\ FLoop = 1
  /\ unsent = FALSE
  /\ decoder = "none"
  /\ FCodecCtx = "null"
  /\ FPausedByRace = FALSE
  /\ top \in {"none", "radio"}
  /\ below = {}
  /\ pc = [a \in Actor |-> IF a = App THEN "idle" ELSE "dead"]
  /\ afterPause = "return"

-----------------------------------------------------------------------------
Alive == {t \in Thread : pc[t] # "dead"}

Goto(a, label) == pc' = [pc EXCEPT ![a] = label]

(* Play up to its usleep: the state, the loop count and the new thread.    *)
(* Nothing looks whether the thread of an earlier Play has gone.           *)
CanPlay == FState \in {"LOADED", "PAUSED"} /\ decoder = "live"

PlayStarts(loop) ==
  /\ FState' = "RUNNING"
  /\ FLoop' = loop
  /\ FTerminating' = FALSE
  /\ \E t \in Thread : /\ pc[t] = "dead"
                       /\ pc' = [pc EXCEPT ![t] = "born", ![App] = "settle"]
  /\ UNCHANGED <<FThreadDone, unsent, decoder, FCodecCtx>>

(* TAudioMixer::Remove: the source that was displaced last takes over.     *)
RemoveSource(s) ==
  /\ below' = IF top = s THEN {} ELSE below \ {s}
  /\ top' = IF top # s THEN top
            ELSE IF below = {} THEN "none" ELSE CHOOSE x \in below : TRUE

-----------------------------------------------------------------------------
(* The application's calls.                                                *)

Load ==
  /\ pc[App] = "idle"
  /\ FState = "STOPPED"
  /\ FState' = "LOADING"
  /\ Goto(App, "load")
  /\ UNCHANGED <<FThreadDone, FTerminating, FLoop, unsent, decoder, FCodecCtx, mixer, afterPause>>

LoadKeepsCodec ==
  /\ pc[App] = "load"
  /\ FState' = "LOADED" /\ decoder' = "live"
  /\ FCodecCtx' = IF FCodecCtx = "null" THEN "live" ELSE FCodecCtx
  /\ Goto(App, "idle")
  /\ UNCHANGED <<unsent, FThreadDone, FTerminating, FLoop, mixer, afterPause>>

(* A failed Load leaves LOADING behind, and more or less of the decoder.   *)
LoadReturns ==
  /\ pc[App] = "load"
  /\ \/ /\ FState' = "LOADED"
        /\ decoder' = "live" /\ FCodecCtx' = "live"
        /\ unsent' \in BOOLEAN
     \/ /\ FState' = FState
        /\ decoder' \in {decoder, "live"}
        /\ \/ FCodecCtx' = FCodecCtx
           \/ decoder' = "live" /\ FCodecCtx' = "live"
        /\ unsent' = unsent
  /\ Goto(App, "idle")
  /\ UNCHANGED <<FThreadDone, FTerminating, FLoop, mixer, afterPause>>

Play(loop) ==
  /\ pc[App] = "idle"
  /\ CanPlay
  /\ PlayStarts(loop)
  /\ UNCHANGED <<mixer, afterPause>>

(* After 20 ms the player goes on top of the mixer's stack: Add, which     *)
(* calls AddOrUpdateSink back.  Resumed by the mixer it is there already.  *)
PlayAdds ==
  /\ pc[App] = "settle"
  /\ top' = "player"
  /\ below' = IF top = "radio" THEN {"radio"} ELSE below \ {"player"}
  /\ FPausedByRace' = FALSE
  /\ Goto(App, "idle")
  /\ UNCHANGED <<player, afterPause>>

(* Pause finds the player running, or does nothing.                        *)
Pause ==
  /\ pc[App] = "idle"
  /\ FState = "RUNNING"
  /\ afterPause' = "return"
  /\ Goto(App, "pause")
  /\ UNCHANGED <<player, mixer>>

(* Rewind of a player that is neither stopped nor just loaded pauses it if *)
(* it runs, seeks, and plays again at once.                                *)
Rewind ==
  /\ pc[App] = "idle"
  /\ FState \in {"RUNNING", "PAUSED"}
  /\ Goto(App, "rewind")
  /\ UNCHANGED <<player, mixer, afterPause>>

RewindPauses ==
  /\ pc[App] = "rewind"
  /\ afterPause' = "rewind"
  /\ Goto(App, IF FState = "RUNNING" THEN "pause" ELSE "seek")
  /\ UNCHANGED <<player, mixer>>

RewindSeeks ==
  /\ pc[App] = "seek"
  /\ IF CanPlay THEN PlayStarts(1) ELSE Goto(App, "idle") /\ UNCHANGED player
  /\ UNCHANGED <<mixer, afterPause>>

(* The radio's Add displaces the player: RemoveSink pauses it if it runs.  *)
RadioAdds ==
  /\ pc[App] = "idle"
  /\ top # "radio"
  /\ IF top = "player" /\ FState = "RUNNING"
       THEN afterPause' = "radio" /\ Goto(App, "pause") /\ UNCHANGED mixer
       ELSE /\ top' = "radio"
            /\ below' = (below \cup {top}) \ {"none", "radio"}
            /\ UNCHANGED <<FPausedByRace, pc, afterPause>>
  /\ UNCHANGED player

PauseMarks ==
  /\ pc[App] = "pause"
  /\ FState' = "PAUSED"
  /\ FTerminating' = TRUE
  /\ IF afterPause = "radio"
       THEN /\ FPausedByRace' = TRUE
            /\ top' = "radio"
            /\ below' = (below \cup {top}) \ {"none", "radio"}
       ELSE UNCHANGED mixer
  /\ Goto(App, IF afterPause = "rewind" THEN "seek" ELSE "idle")
  /\ UNCHANGED <<FThreadDone, FLoop, unsent, decoder, FCodecCtx, afterPause>>

(* The radio's Remove hands over to the player below, if there is one:     *)
(* AddOrUpdateSink resumes it when it was the mixer that paused it.        *)
RadioRemoves ==
  /\ pc[App] = "idle"
  /\ "radio" \in {top} \cup below
  /\ RemoveSource("radio")
  /\ IF top = "radio" /\ below # {} /\ FPausedByRace
       THEN IF FState = "PAUSED" /\ CanPlay
              THEN PlayStarts(1) /\ UNCHANGED FPausedByRace
              ELSE FPausedByRace' = FALSE /\ UNCHANGED <<player, pc>>
       ELSE UNCHANGED <<FPausedByRace, player, pc>>
  /\ UNCHANGED afterPause

StopCall ==
  /\ pc[App] = "idle"
  /\ Goto(App, "check")
  /\ UNCHANGED <<player, mixer, afterPause>>

(* The first InstRef makes a player.  What a thread of the last one does   *)
(* to it is left out: see ReleasedAlone.                                   *)
InstRef ==
  /\ pc[App] = "idle" /\ RefCount < MaxRefs
  /\ RefCount' = RefCount + 1
  /\ IF RefCount > 0
       THEN UNCHANGED steps
       ELSE /\ Alive = {}
            /\ FState' = "STOPPED" /\ FThreadDone' = TRUE /\ FTerminating' = TRUE
            /\ FLoop' = 1 /\ unsent' = FALSE
            /\ decoder' = "none" /\ FCodecCtx' = "null" /\ FPausedByRace' = FALSE
            /\ UNCHANGED <<top, below, pc, afterPause>>

ReleaseAtOnce ==
  /\ pc[App] = "idle" /\ RefCount > 0
  /\ RefCount' = RefCount - 1
  /\ UNCHANGED steps

(* The destructor calls Stop, and whatever Stop returns the player is gone *)
(* afterwards.                                                             *)
Release ==
  /\ pc[App] = "idle" /\ RefCount > 0
  /\ RefCount' = RefCount - 1
  /\ IF RefCount = 1 THEN Goto(App, "check") ELSE UNCHANGED pc
  /\ UNCHANGED <<player, mixer, afterPause>>

-----------------------------------------------------------------------------
(* Stop, called by the application or, at the end of the file, by the      *)
(* decode thread itself.                                                   *)
Return(a) == Goto(a, IF a = App THEN "idle" ELSE "dead")

StopChecks(a) ==
  /\ pc[a] = "check"
  /\ IF FState \in {"STOPPED", "STOPPING"} THEN Return(a) ELSE Goto(a, "mark")
  /\ UNCHANGED <<player, mixer, afterPause>>

StopMarksStopped(a) ==
  /\ pc[a] = "mark"
  /\ FState' = "STOPPED"
  /\ FTerminating' = TRUE
  /\ Goto(a, "wait")
  /\ UNCHANGED <<FThreadDone, FLoop, unsent, decoder, FCodecCtx, mixer, afterPause>>

StopMarks(a) ==
  /\ pc[a] = "mark"
  /\ FState' = "STOPPING"
  /\ FTerminating' = TRUE
  /\ Goto(a, "wait")
  /\ UNCHANGED <<FThreadDone, FLoop, unsent, decoder, FCodecCtx, mixer, afterPause>>

StopWaitsNot(a) ==
  /\ pc[a] = "wait"
  /\ Goto(a, "free")
  /\ UNCHANGED <<player, mixer, afterPause>>

StopWaits(a) ==
  /\ pc[a] = "wait"
  /\ FThreadDone
  /\ Goto(a, "free")
  /\ UNCHANGED <<player, mixer, afterPause>>

(* Remove calls RemoveSink back, which pauses a player that runs: another  *)
(* thread may have set its state anew.                                     *)
StopFrees(a) ==
  /\ pc[a] = "free"
  /\ RemoveSource("player")
  /\ IF top = "player" /\ FState = "RUNNING"
       THEN FState' = "PAUSED" /\ FTerminating' = TRUE /\ FPausedByRace' = TRUE
       ELSE UNCHANGED <<FState, FTerminating, FPausedByRace>>
  /\ decoder' = "none"
  /\ FCodecCtx' = IF FCodecCtx = "null" THEN "null" ELSE "dangling"
  /\ unsent' = FALSE
  /\ Goto(a, "end")
  /\ UNCHANGED <<FThreadDone, FLoop, afterPause>>

StopEnds(a) ==
  /\ pc[a] = "end"
  /\ FState' = "STOPPED"
  /\ Return(a)
  /\ UNCHANGED <<FThreadDone, FTerminating, FLoop, unsent, decoder, FCodecCtx, mixer, afterPause>>

StopStep(a) ==
  StopChecks(a) \/ StopMarks(a) \/ StopWaits(a) \/ StopFrees(a) \/ StopEnds(a)

-----------------------------------------------------------------------------
(* Execute.                                                                *)
Enter(t) ==
  /\ pc[t] = "born"
  /\ FThreadDone' = FALSE
  /\ Goto(t, "loop")
  /\ UNCHANGED <<FState, FTerminating, FLoop, unsent, decoder, FCodecCtx, mixer, afterPause>>

Loop(t) ==
  /\ pc[t] = "loop"
  /\ Goto(t, IF FState = "RUNNING" THEN "feed" ELSE "leave")
  /\ UNCHANGED <<player, mixer, afterPause>>

FeedAll(t) ==
  /\ pc[t] = "feed"
  /\ IF unsent
       THEN unsent' \in BOOLEAN /\ UNCHANGED pc
       ELSE Goto(t, "read") /\ UNCHANGED unsent
  /\ UNCHANGED <<FState, FThreadDone, FTerminating, FLoop, decoder, FCodecCtx, mixer, afterPause>>

(* The mixer takes what its ring has room for, which may be nothing.       *)
Feed(t) ==
  /\ pc[t] = "feed"
  /\ IF unsent /\ FState = "RUNNING"
       THEN unsent' \in BOOLEAN /\ UNCHANGED pc
       ELSE Goto(t, "read") /\ UNCHANGED unsent
  /\ UNCHANGED <<FState, FThreadDone, FTerminating, FLoop, decoder, FCodecCtx, mixer, afterPause>>

(* A packet of the audio stream that completes a frame refills FBuf; any   *)
(* other changes nothing.                                                  *)
ReadPacket(t) ==
  /\ pc[t] = "read"
  /\ IF FState = "RUNNING"
       THEN unsent' \in {unsent, TRUE} /\ Goto(t, "loop")
       ELSE Goto(t, "leave") /\ UNCHANGED unsent
  /\ UNCHANGED <<FState, FThreadDone, FTerminating, FLoop, decoder, FCodecCtx, mixer, afterPause>>

ReadEndOnceMore(t) ==
  /\ pc[t] = "read"
  /\ FState = "RUNNING"
  /\ FLoop' = FLoop - 1
  /\ Goto(t, IF FLoop > 0 THEN "loop" ELSE "leave")
  /\ UNCHANGED <<FState, FThreadDone, FTerminating, unsent, decoder, FCodecCtx, mixer, afterPause>>

(* At the end of the file it starts over or leaves.                        *)
ReadEnd(t) ==
  /\ pc[t] = "read"
  /\ FState = "RUNNING"
  /\ FLoop' = IF FLoop > 0 THEN FLoop - 1 ELSE 0
  /\ Goto(t, IF FLoop > 1 THEN "loop" ELSE "leave")
  /\ UNCHANGED <<FState, FThreadDone, FTerminating, unsent, decoder, FCodecCtx, mixer, afterPause>>

Leave(t) ==
  /\ pc[t] = "leave"
  /\ FThreadDone' = TRUE
  /\ Goto(t, "last")
  /\ UNCHANGED <<FState, FTerminating, FLoop, unsent, decoder, FCodecCtx, mixer, afterPause>>

LastGoes(t) ==
  /\ pc[t] = "last"
  /\ Goto(t, "dead")
  /\ UNCHANGED <<player, mixer, afterPause>>

(* A thread that left at the end of the file stops the player.             *)
Last(t) ==
  /\ pc[t] = "last"
  /\ Goto(t, IF FState = "RUNNING" THEN "check" ELSE "dead")
  /\ UNCHANGED <<player, mixer, afterPause>>

ExecuteStep(t) ==
  Enter(t) \/ Loop(t) \/ Feed(t) \/ ReadPacket(t) \/ ReadEnd(t) \/ Leave(t) \/ Last(t)

-----------------------------------------------------------------------------
Call ==
  \/ RefCount > 0 /\ (Load \/ Pause \/ Rewind \/ StopCall \/ \E loop \in 1 .. MaxLoop : Play(loop))
  \/ RadioAdds \/ RadioRemoves

AppStep ==
  LoadReturns \/ PlayAdds \/ RewindPauses \/ RewindSeeks \/ PauseMarks \/ StopStep(App)

ThreadStep(t) == ExecuteStep(t) \/ StopStep(t)

Next ==
  \/ InstRef \/ Release
  \/ RefCount' = RefCount /\ (Call \/ AppStep \/ \E t \in Thread : ThreadStep(t))

Spec == Init /\ [][Next]_vars

(* Every thread runs when it can; the application need not call anything,  *)
(* and nothing promises that the mixer's ring ever has room: a thread that *)
(* feeds it is only sure to go on where the code would.                    *)
MovesOn(t) == ThreadStep(t) /\ pc'[t] # pc[t]

FairSpec == Spec /\ WF_steps(AppStep) /\ \A t \in Thread : WF_steps(MovesOn(t))

-----------------------------------------------------------------------------
(* A player that says it runs has a thread to run it, also when the file   *)
(* ends, a Pause arrives and Play starts over in whatever order.           *)
RunningIsServed == FState = "RUNNING" => Alive # {}

(* Stop returns, whatever threads there are: one of them sets FThreadDone, *)
(* be it in the middle of a packet or of a write to a ring that is full.   *)
(* Only a state that is no longer STOPPING may keep it, as when a Pause    *)
(* that was overtaken lets Rewind play again (src/ff_audio.cpp:193-196).   *)
StopReturns ==
  \A a \in Actor : pc[a] = "wait" ~> pc[a] # "wait" \/ FState # "STOPPING"
=============================================================================
