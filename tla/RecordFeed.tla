----------------------------- MODULE RecordFeed ----------------------------
(***************************************************************************)
(* A radio that feeds the mixer from SDL's recording callback              *)
(* (TAudioSource::Send in include/hc_audio.h, TAudioMixer::OnFrame in      *)
(* src/audio_mixer.cpp), while the application plays and closes it and     *)
(* plays a file in between.  Send holds FLock and OnFrame spins until the  *)
(* ring has taken the frame; the application waits for FLock, and in SDL   *)
(* for a callback that runs.                                               *)
(*                                                                         *)
(* A call of the application is the list of what it still has to do; the   *)
(* file player is its state, FFAudioPlayer looks inside.                   *)
(***************************************************************************)
EXTENDS FiniteSets, Naturals, Sequences

CONSTANTS
  FCapcity,   \* what the play device's ring holds
  FrameLen,   \* what the callback brings at a time
  Env         \* what clients do, as in AudioMixer; "slowCalls": a call may last
              \* until callbacks have filled the ring; "openFails": SDL may fail
              \* to open the play device

ASSUME RecordFeedAssumption ==
  /\ FCapcity \in Nat \ {0} /\ FrameLen \in 1 .. FCapcity
  /\ Env \subseteq {"reopen", "idleClose", "stopPaused", "slowCalls", "openFails"}

VARIABLES
  todo,       \* what the application's call has still to do
  holders,    \* who holds the mixer; RefCount is their number
  top,        \* FRunningSource
  below,      \* FPausedSources
  player,     \* FState of the file player
  raced,      \* its FPausedByRace
  playDev,    \* the play device
  mute,       \* did SDL fail to open it?  Then it never calls back
  recDev,     \* the recording device
  sink,       \* is the mixer among the FSinks of the recording device?
  callback,   \* where the recording callback is; it holds FLock while "sending"
  left,       \* what OnFrame has still to write
  ring        \* what the ring holds of the radio's frames

calls == <<top, below, player, raced>>
mixer == <<holders, playDev, mute>>
vars == <<todo, calls, mixer, recDev, sink, callback, left, ring>>

DevStates == {"closed", "open", "running", "paused"}

(* Without FBuffer.  A "ghost" is closed, but Pause has set its FState     *)
(* since, so that Open takes it for open.                                  *)
Ringless == {"closed", "ghost"}

Ops == {"putSink", "dropSink", "clear", "recStart", "recPause", "recClose",
        "playOpen", "playStart", "playPause", "playClose", "radio", "player"}

TypeOK ==
  /\ todo \in Seq(Ops) /\ holders \subseteq {"radio", "player"}
  /\ top \in {"none", "radio", "player"}
  /\ below \subseteq {"radio", "player"} \ {top}
  /\ player \in {"STOPPED", "LOADED", "RUNNING", "PAUSED"}
  /\ raced \in BOOLEAN
  /\ playDev \in DevStates \cup Ringless /\ mute \in BOOLEAN /\ recDev \in DevStates
  /\ sink \in BOOLEAN
  /\ callback \in {"idle", "locking", "sending"}
  /\ left \in 0 .. FrameLen
  /\ ring \in 0 .. FCapcity

Init ==
  /\ todo = <<>> /\ holders = {}
  /\ top = "none" /\ below = {}
  /\ player = "STOPPED" /\ raced = FALSE
  /\ playDev = "closed" /\ mute = FALSE /\ recDev = "closed"
  /\ sink = FALSE
  /\ callback = "idle" /\ left = 0
  /\ ring = 0

-----------------------------------------------------------------------------
(* The calls.                                                              *)
Idle == todo = <<>>

Does(ops) == todo' = ops /\ UNCHANGED <<mixer, recDev, sink, callback, left, ring>>

(* TAudioMixer::Open for a device that is not open, or in use.             *)
OpensAnew ==
  CASE playDev = "closed" -> {<<"playOpen">>}
    [] playDev = "open" -> {}
    [] OTHER -> {<<"playClose", "playOpen">>}

Opens ==
  CASE playDev = "closed" -> {<<"playOpen">>}
    [] playDev = "open" -> {}
    [] OTHER -> {<<>>} \cup IF "reopen" \in Env THEN {<<"playClose", "playOpen">>} ELSE {}

(* A TRadioPlayer or FFAudioPlayer is made, and takes a reference.         *)
InstRef(s) ==
  /\ Idle /\ s \notin holders
  /\ holders' = holders \cup {s}
  /\ UNCHANGED <<todo, calls, playDev, mute, recDev, sink, callback, left, ring>>

RadioOpen ==
  /\ Idle /\ "radio" \in holders /\ recDev = "closed"
  /\ \E ops \in Opens : Does(ops \o <<"recPause">>)
  /\ UNCHANGED calls

(* Add displaces the player, which pauses if it runs.                      *)
RadioPlay ==
  /\ Idle /\ recDev # "closed"
  /\ Does((IF top # "player" THEN <<>>
           ELSE IF player = "RUNNING" THEN <<"playPause", "clear">> ELSE <<"clear">>)
          \o (IF top = "radio" THEN <<>> ELSE <<"putSink">>) \o <<"recStart", "playStart">>)
  /\ top' = "radio"
  /\ below' = (below \cup {top}) \ {"radio", "none"}
  /\ IF player = "RUNNING" THEN player' = "PAUSED" /\ raced' = TRUE ELSE UNCHANGED <<player, raced>>

RadioPause ==
  /\ Idle /\ recDev # "closed"
  /\ Does(<<"recPause">> \o IF top = "radio" THEN <<"playPause">> ELSE <<>>)
  /\ UNCHANGED calls

(* Remove of a source: who takes over, and is nobody left?                 *)
Heir(s) ==
  IF top # s THEN top ELSE CHOOSE x \in {"radio", "player", "none"} :
                             x \in below \/ (x = "none" /\ below = {})

LeavesNone(s) == Heir(s) = "none" /\ below \subseteq {s}

Removes(s) ==
  /\ top' = Heir(s)
  /\ below' = below \ {s, Heir(s)}

(* The device is closed before the mixer lets go of it.  The player goes   *)
(* on if the mixer paused it for the radio.                                *)
RadioClose(last) ==
  /\ Idle /\ "radio" \in holders
  /\ "idleClose" \in Env \/ ~ (LeavesNone("radio") /\ player = "LOADED")
  /\ Removes("radio")
  /\ LET resumed == top = "radio" /\ Heir("radio") = "player" /\ raced /\ player = "PAUSED"
     IN /\ player' = IF resumed THEN "RUNNING" ELSE player
        /\ raced' = (raced /\ ~ (top = "radio" /\ Heir("radio") = "player"))
        /\ Does(<<"recClose", "dropSink">>
                \o (IF LeavesNone("radio") THEN <<"playClose">>
                    ELSE IF resumed THEN <<"playStart">> ELSE <<>>)
                \o last)

PlayerLoad ==
  /\ Idle /\ "player" \in holders /\ player = "STOPPED"
  /\ \E ops \in Opens : Does(ops)
  /\ player' = "LOADED"
  /\ UNCHANGED <<top, below, raced>>

PlayerPlay ==
  /\ Idle /\ player \in {"LOADED", "PAUSED"}
  /\ Does((IF top = "radio" THEN <<"dropSink", "clear">> ELSE <<>>) \o <<"playStart">>)
  /\ top' = "player"
  /\ below' = (below \cup {top}) \ {"player", "none"}
  /\ player' = "RUNNING"
  /\ raced' = (raced /\ top = "player")

PlayerPause ==
  /\ Idle /\ player = "RUNNING"
  /\ Does(IF top = "player" THEN <<"playPause">> ELSE <<>>)
  /\ player' = "PAUSED"
  /\ UNCHANGED <<top, below, raced>>

PlayerStop(last) ==
  /\ Idle /\ player # "STOPPED"
  /\ "stopPaused" \in Env \/ ~ (player = "PAUSED" /\ top = "player" /\ "radio" \in below)
  /\ "idleClose" \in Env \/ ~ (LeavesNone("player") /\ recDev # "closed")
  /\ Removes("player")
  /\ player' = "STOPPED"
  /\ raced' = raced
  /\ Does((IF LeavesNone("player") THEN <<"playClose">>
           ELSE IF top = "player" THEN <<"putSink">> ELSE <<>>)
          \o last)

(* The destructors close or stop, then release the mixer.                  *)
Delete(s) ==
  \/ s = "radio" /\ RadioClose(<<s>>)
  \/ s = "player" /\ PlayerStop(<<s>>)
  \/ /\ s = "player" /\ player = "STOPPED"
     /\ Idle /\ s \in holders /\ Does(<<s>>) /\ UNCHANGED calls

-----------------------------------------------------------------------------
(* What the calls do, in their order.                                      *)
Doing(op) == todo # <<>> /\ Head(todo) = op /\ todo' = Tail(todo) /\ UNCHANGED calls

DropSinkUnlocked ==
  /\ Doing("dropSink")
  /\ sink' = FALSE
  /\ UNCHANGED <<mixer, recDev, callback, left, ring>>

(* RemoveSink and AddOrUpdateSink wait for FLock.                          *)
DropSink ==
  /\ Doing("dropSink") /\ callback # "sending"
  /\ sink' = FALSE
  /\ UNCHANGED <<mixer, recDev, callback, left, ring>>

PutSink ==
  /\ Doing("putSink") /\ callback # "sending"
  /\ sink' = TRUE
  /\ UNCHANGED <<mixer, recDev, callback, left, ring>>

Clear ==
  /\ Doing("clear")
  /\ ring' = 0
  /\ UNCHANGED <<mixer, recDev, sink, callback, left>>

(* SDL holds a device's lock around its callback, and takes it to pause or *)
(* close the device.                                                       *)
Record(op, state) ==
  /\ Doing(op) /\ callback = "idle"
  /\ recDev' = state
  /\ UNCHANGED <<mixer, sink, callback, left, ring>>

PlayOpen ==
  /\ Doing("playOpen")
  /\ playDev' = "open" /\ ring' = 0
  /\ mute' \in IF "openFails" \in Env THEN BOOLEAN ELSE {FALSE}
  /\ UNCHANGED <<holders, recDev, sink, callback, left>>

PlayPause(op, state) ==
  /\ Doing(op)
  /\ playDev' = IF playDev \in Ringless THEN "ghost" ELSE state
  /\ UNCHANGED <<holders, mute, recDev, sink, callback, left, ring>>

PlayClose ==
  /\ Doing("playClose")
  /\ playDev' = "closed" /\ mute' = FALSE /\ ring' = 0
  /\ UNCHANGED <<holders, recDev, sink, callback, left>>

(* The last reference takes the mixer with it, which closes the device.    *)
Release(s) ==
  /\ Doing(s)
  /\ holders' = holders \ {s}
  /\ IF holders = {s} THEN playDev' = "closed" /\ mute' = FALSE /\ ring' = 0
                      ELSE UNCHANGED <<playDev, mute, ring>>
  /\ UNCHANGED <<recDev, sink, callback, left>>

AppStep ==
  \/ DropSink \/ PutSink \/ Clear
  \/ Record("recStart", "running") \/ Record("recPause", "paused") \/ Record("recClose", "closed")
  \/ PlayOpen \/ PlayPause("playStart", "running") \/ PlayPause("playPause", "paused") \/ PlayClose
  \/ Release("radio") \/ Release("player")

-----------------------------------------------------------------------------
(* SDL's threads.  Send looks for sinks before it locks, and again after.  *)
Send ==
  /\ recDev = "running" /\ callback = "idle"
  /\ sink
  /\ "slowCalls" \in Env \/ Idle \/ ring + FrameLen <= FCapcity
  /\ callback' = "locking"
  /\ UNCHANGED <<todo, calls, mixer, recDev, sink, left, ring>>

SendLocks ==
  /\ callback = "locking"
  /\ IF sink THEN callback' = "sending" /\ left' = FrameLen
             ELSE callback' = "idle" /\ left' = left
  /\ UNCHANGED <<todo, calls, mixer, recDev, sink, ring>>

OnFrameForgets ==
  /\ callback = "sending" /\ playDev \notin Ringless /\ ring < FCapcity
  /\ \E n \in {left, FCapcity - ring} :
       /\ n <= left /\ n <= FCapcity - ring
       /\ left' = FrameLen - n /\ ring' = ring + n
       /\ callback' = IF n = FrameLen THEN "idle" ELSE "sending"
  /\ UNCHANGED <<todo, calls, mixer, recDev, sink>>

OnFrameDrops ==
  /\ callback = "sending" /\ playDev \notin Ringless /\ ring < FCapcity
  /\ ring' = ring + FrameLen
  /\ left' = 0 /\ callback' = "idle"
  /\ UNCHANGED <<todo, calls, mixer, recDev, sink>>

(* What TSDLAudioPlay::Write takes of so many bytes: what fits.            *)
Written(bytes) == IF bytes < FCapcity - ring THEN bytes ELSE FCapcity - ring

(* OnFrame writes what the ring has room for, and sleeps if that was not   *)
(* all.  Without a ring Write fails, which ends the loop.                  *)
OnFrame ==
  /\ callback = "sending"
  /\ playDev \in Ringless \/ ring < FCapcity
  /\ LET n == Written(left)
     IN IF playDev \in Ringless
          THEN left' = 0 /\ callback' = "idle" /\ ring' = ring
          ELSE /\ left' = left - n /\ ring' = ring + n
               /\ callback' = IF left = n THEN "idle" ELSE "sending"
  /\ UNCHANGED <<todo, calls, mixer, recDev, sink>>

(* The play callback of a device that runs.                                *)
HandleCallback ==
  /\ playDev = "running" /\ ~ mute /\ ring > 0
  /\ \E n \in 1 .. ring : ring' = ring - n
  /\ UNCHANGED <<todo, calls, mixer, recDev, sink, callback, left>>

-----------------------------------------------------------------------------
Call ==
  \/ RadioOpen \/ RadioPlay \/ RadioPause \/ RadioClose(<<>>)
  \/ PlayerLoad \/ PlayerPlay \/ PlayerPause \/ PlayerStop(<<>>)
  \/ \E s \in {"radio", "player"} : InstRef(s) \/ Delete(s)

Next == Call \/ AppStep \/ Send \/ SendLocks \/ OnFrame \/ HandleCallback

Spec == Init /\ [][Next]_vars

(* Frames come at intervals, in which the application gets the locks.      *)
Fairness == SF_vars(AppStep) /\ WF_vars(SendLocks \/ OnFrame) /\ WF_vars(HandleCallback)

FairSpec == Spec /\ Fairness

-----------------------------------------------------------------------------
(* While OnFrame writes there is a ring to write to: closing the radio     *)
(* waits for the callback before the mixer deletes FBuffer.  And as long   *)
(* as a device may call the mixer, or the mixer a source, there is both    *)
(* (include/radio_player.h:17-21, 35-42, src/audio_mixer.cpp:23-33, 96-97, *)
(* 111-124).                                                               *)
RingThere ==
  /\ callback = "sending" => playDev \notin Ringless
  /\ sink => holders # {}
  /\ {top} \cup below \subseteq holders \cup {"none"}

(* A radio that has been displaced or removed writes nothing more: no      *)
(* frame that was under way follows the Clear and mixes with the new       *)
(* source (src/audio_mixer.cpp:66-73, include/hc_audio.h:105-125).         *)
NoLateFrame == [][ring' > ring /\ Idle => top = "radio"]_vars

(* Every call returns, although it waits for a callback that waits for the *)
(* ring; but not while SDL has failed to open the play device, which the   *)
(* code takes for open (src/audio_mixer.cpp:116-123,                       *)
(* include/hc_audio.h:118-124, src/sdl_audio.cpp:101).                     *)
CallReturns == todo # <<>> ~> (todo = <<>> \/ mute)
=============================================================================
