----------------------------- MODULE AudioMixer -----------------------------
(***************************************************************************)
(* TAudioMixer (src/audio_mixer.cpp) with everything that calls it: the    *)
(* SDL play device it derives from (src/sdl_audio.cpp), file players       *)
(* (src/ff_audio.cpp) and radio players (include/radio_player.h).  A step  *)
(* is one public call, run to its end together with the callbacks it makes *)
(* (Add calls RemoveSink, which calls Pause, which calls the mixer again); *)
(* FFAudioPlayer looks inside the calls.                                   *)
(***************************************************************************)
EXTENDS SourceList

CONSTANTS
  Player,      \* the FFAudioPlayer objects
  Radio,       \* the TRadioPlayer objects, each with its recording device
  None,        \* no source at all, the code's NULL
  Params,      \* the sample formats of files and devices
  MaxPaused    \* bound: no call that would make FPausedSources longer

ASSUME AudioMixerAssumption ==
  /\ Player \cap Radio = {}
  /\ None \notin Player \cup Radio
  /\ Params # {}
  /\ MaxPaused \in Nat

Source == Player \cup Radio

VARIABLES
  FRunningSource,   \* the source the mixer plays, or None
  FPausedSources,   \* the sources it displaced, the last one first
  FState,           \* the play device's audio_state_t
  FObtained,        \* the format SDL gave the play device
  FBuffer,          \* has the play device a ring, that is, is it open?
  playing,          \* FState of each player
  FPausedByRace,    \* did the mixer pause the player for another source?
  recording,        \* audio_state_t of each radio's recording device
  sinks,            \* how often the mixer is among the sinks of a source
  considerate       \* no variable of the code: have all calls so far been
                    \* considerate ones?  See MayOpen and MayLeave.

device == <<FState, FObtained, FBuffer>>
sources == <<playing, FPausedByRace, recording, sinks>>
vars == <<FRunningSource, FPausedSources, device, sources, considerate>>

DevStates == {"UNKOWN", "OPEN", "RUNNING", "PAUSED", "CLOSED"}

TypeOK ==
  /\ FRunningSource \in Source \cup {None}
  /\ FPausedSources \in Seq(Source) /\ Len(FPausedSources) <= MaxPaused
  /\ FState \in DevStates
  /\ FObtained \in Params
  /\ FBuffer \in BOOLEAN
  /\ playing \in [Player -> {"STOPPED", "LOADING", "LOADED", "RUNNING", "PAUSED"}]
  /\ FPausedByRace \in [Player -> BOOLEAN]
  /\ recording \in [Radio -> DevStates]
  /\ sinks \in [Source -> Nat]
  /\ considerate \in BOOLEAN

Init ==
  /\ FRunningSource = None
  /\ FPausedSources = <<>>
  /\ FState = "UNKOWN"
  /\ FObtained \in Params
  /\ FBuffer = FALSE
  /\ playing = [p \in Player |-> "STOPPED"]
  /\ FPausedByRace = [p \in Player |-> FALSE]
  /\ recording = [r \in Radio |-> "UNKOWN"]
  /\ sinks = [s \in Source |-> 0]
  /\ considerate = TRUE

-----------------------------------------------------------------------------
(* SDL opens the device, stopped, in a format of its own choice, and the   *)
(* ring for it is allocated.                                               *)
OpenDevice ==
  /\ FState' = "OPEN"
  /\ FBuffer' = TRUE
  /\ FObtained' \in Params

(* TAudioMixer::Open.  A device in use is closed and opened anew for       *)
(* another format; one that was opened and never paused or played does not *)
(* open again.                                                             *)
InUse == FState \in {"RUNNING", "PAUSED"}

Open(params) ==
  /\ FState # "OPEN"
  /\ IF InUse /\ params = FObtained THEN UNCHANGED device ELSE OpenDevice

Close == FState' = "CLOSED" /\ FBuffer' = FALSE /\ UNCHANGED FObtained

(* SDL_PauseAudioDevice, and the state that goes with it whatever the      *)
(* device's own.                                                           *)
PauseDevice(enable) ==
  FState' = (IF enable THEN "PAUSED" ELSE "RUNNING") /\ UNCHANGED <<FObtained, FBuffer>>

(* TAudioMixer::Pause, for one source's sake.                              *)
PauseFor(s, enable) ==
  IF FRunningSource = s THEN PauseDevice(enable) ELSE UNCHANGED device

(* The list when a source displaces the playing one: push_front.           *)
DisplaceLast(old) == IF old = None THEN FPausedSources ELSE Append(FPausedSources, old)
DisplaceNull(old) == <<old>> \o FPausedSources

Displace(old) == IF old = None THEN FPausedSources ELSE <<old>> \o FPausedSources

(* RemoveSink takes the mixer from a source, AddOrUpdateSink puts it on    *)
(* one: a player has room for one sink, a recording device for many.       *)
DetachNothing(s, from) == from

Detach(s, from) == [x \in Source |-> IF x = s THEN 0 ELSE from[x]]

Attach(s, to) ==
  [x \in Source |-> IF x # s THEN to[x] ELSE IF s \in Player THEN 1 ELSE to[x] + 1]

(* A player that runs when it loses its sink pauses and remembers why.     *)
RacedNever(s, states) == FALSE

Raced(s, states) == s \in Player /\ states[s] = "RUNNING"

(* TAudioMixer::Add, called by a source that is about to play.             *)
Add(s, states) ==
  LET old == FRunningSource
      raced == Raced(old, states)
  IN IF s = old
       THEN /\ playing' = states
            /\ UNCHANGED <<FRunningSource, FPausedSources, FPausedByRace, sinks>>
       ELSE /\ FRunningSource' = s
            /\ FPausedSources' = Displace(old)
            /\ sinks' = Attach(s, Detach(old, sinks))
            /\ playing' = [p \in Player |-> IF p = old /\ raced THEN "PAUSED" ELSE states[p]]
            /\ FPausedByRace' = [p \in Player |-> IF p = old /\ raced THEN TRUE
                                                  ELSE FPausedByRace[p] /\ p # s]

(* With no source left the device is closed.                               *)
CloseUnlessWaited(heir, waiting) == waiting = <<>>

LeavesNone(heir, waiting) == heir = None /\ waiting = <<>>

(* The list without its first source when that one takes over.             *)
PopAnyway(handOver, waiting) == IF waiting = <<>> THEN <<>> ELSE Tail(waiting)

Pop(handOver, waiting) == IF handOver THEN Tail(waiting) ELSE waiting

(* TAudioMixer::Remove.  The source displaced last takes over, and a       *)
(* player among them goes on if it was the mixer that paused it.           *)
Remove(s, states) ==
  LET waiting == Without(FPausedSources, s)
      heir == IF s # FRunningSource THEN FRunningSource
              ELSE IF waiting = <<>> THEN None ELSE Head(waiting)
      handOver == s = FRunningSource /\ heir # None
      resumed == handOver /\ heir \in Player /\ FPausedByRace[heir] /\ states[heir] = "PAUSED"
      detached == Detach(s, sinks)
  IN /\ FRunningSource' = heir
     /\ FPausedSources' = Pop(handOver, waiting)
     /\ sinks' = IF handOver THEN Attach(heir, detached) ELSE detached
     /\ playing' = [p \in Player |-> IF p = heir /\ resumed THEN "RUNNING" ELSE states[p]]
     /\ FPausedByRace' = [p \in Player |-> FPausedByRace[p] /\ ~ (p = heir /\ handOver)]
     /\ IF LeavesNone(heir, waiting) THEN Close
        ELSE IF resumed THEN PauseDevice(FALSE)
        ELSE UNCHANGED device

Roomy == Len(FPausedSources) < MaxPaused

(* The sources that are ready to play and not in the mixer.                *)
Prepared ==
  {p \in Player : playing[p] = "LOADED"} \cup
  {r \in Radio : recording[r] \notin {"UNKOWN", "CLOSED"} /\ r # FRunningSource}

(* The calls of a considerate client.  While the device is in use it opens *)
(* nothing in another format.  It does not take the last source from the   *)
(* mixer while another is prepared, and stops no source that it paused     *)
(* itself and that is still on top.                                        *)
MayOpen(params) == InUse => params = FObtained

MayLeave(s, paused) ==
  /\ \/ Prepared \subseteq {s}
     \/ FRunningSource \notin {s, None}
     \/ \E i \in DOMAIN FPausedSources : FPausedSources[i] # s
  /\ paused => s # FRunningSource

Heeds(rule) == considerate' = (considerate /\ rule)

-----------------------------------------------------------------------------
(* FFAudioPlayer.                                                          *)

(* The file or the device may fail to open.                                *)
Load(p, params) ==
  /\ playing[p] = "STOPPED"
  /\ \/ Open(params) /\ playing' = [playing EXCEPT ![p] = "LOADED"]
     \/ UNCHANGED device /\ playing' = [playing EXCEPT ![p] = "LOADING"]
  /\ Heeds(MayOpen(params))
  /\ UNCHANGED <<FRunningSource, FPausedSources, FPausedByRace, recording, sinks>>

(* Play ends with a Pause(0) of the source that is on top by then.         *)
Play(p) ==
  /\ playing[p] \in {"LOADED", "PAUSED"}
  /\ Roomy
  /\ Add(p, [playing EXCEPT ![p] = "RUNNING"])
  /\ PauseDevice(FALSE)
  /\ UNCHANGED <<recording, considerate>>

Pause(p) ==
  /\ playing[p] = "RUNNING"
  /\ playing' = [playing EXCEPT ![p] = "PAUSED"]
  /\ PauseFor(p, TRUE)
  /\ UNCHANGED <<FRunningSource, FPausedSources, FPausedByRace, recording, sinks, considerate>>

(* Stop of any player but a stopped one, by the client or at the file's    *)
(* end.                                                                    *)
Stop(p) ==
  /\ playing[p] # "STOPPED"
  /\ Heeds(MayLeave(p, playing[p] = "PAUSED"))
  /\ Remove(p, [playing EXCEPT ![p] = "STOPPED"])
  /\ UNCHANGED recording

-----------------------------------------------------------------------------
(* TRadioPlayer.                                                           *)
RadioOpen(r, params) ==
  /\ Open(params)
  /\ Heeds(MayOpen(params))
  /\ recording' = [recording EXCEPT ![r] = IF @ \in {"UNKOWN", "CLOSED"} THEN "OPEN" ELSE @]
  /\ UNCHANGED <<FRunningSource, FPausedSources, playing, FPausedByRace, sinks>>

(* A client plays and pauses a radio it has opened.                        *)
RadioPlay(r) ==
  /\ recording[r] \notin {"UNKOWN", "CLOSED"}
  /\ Roomy
  /\ Add(r, playing)
  /\ recording' = [recording EXCEPT ![r] = "RUNNING"]
  /\ PauseDevice(FALSE)
  /\ UNCHANGED considerate

RadioPause(r) ==
  /\ recording[r] \notin {"UNKOWN", "CLOSED"}
  /\ recording' = [recording EXCEPT ![r] = "PAUSED"]
  /\ PauseFor(r, TRUE)
  /\ UNCHANGED <<FRunningSource, FPausedSources, playing, FPausedByRace, sinks, considerate>>

RadioClose(r) ==
  /\ Heeds(MayLeave(r, recording[r] = "PAUSED"))
  /\ Remove(r, playing)
  /\ recording' = [recording EXCEPT ![r] = "CLOSED"]

-----------------------------------------------------------------------------
Next ==
  \/ \E p \in Player :
       (\E params \in Params : Load(p, params)) \/ Play(p) \/ Pause(p) \/ Stop(p)
  \/ \E r \in Radio :
       (\E params \in Params : RadioOpen(r, params)) \/ RadioPlay(r) \/ RadioPause(r) \/ RadioClose(r)

Spec == Init /\ [][Next]_vars

-----------------------------------------------------------------------------
(* Of all players only the one the mixer plays runs: whoever is displaced  *)
(* pauses, whoever is not resumed stays paused (Add, Remove and their      *)
(* callbacks AddOrUpdateSink and RemoveSink).                              *)
OnlyOneActive ==
  \A p \in Player : playing[p] = "RUNNING" => FRunningSource = p

(* The mixer hangs, once, on the source it plays and on no other: a radio  *)
(* with the mixer twice among its sinks would push every frame twice, one  *)
(* that kept it would push into another source's music.                    *)
Attachment ==
  \A s \in Source : sinks[s] = IF s = FRunningSource THEN 1 ELSE 0

(* A player the mixer paused is in the mixer's list, so that the Remove of *)
(* those before it will resume it.                                         *)
RacedWaits ==
  \A p \in Player : playing[p] = "PAUSED" /\ FPausedByRace[p] =>
    \E i \in DOMAIN FPausedSources : FPausedSources[i] = p

(* As long as its clients are considerate: while a source plays, the       *)
(* device runs and has a ring to take its bytes.  The mixer itself does    *)
(* not see to it (Open and Remove).                                        *)
Active ==
  \/ FRunningSource \in Player /\ playing[FRunningSource] = "RUNNING"
  \/ FRunningSource \in Radio /\ recording[FRunningSource] = "RUNNING"

Heard == considerate /\ Active => FState = "RUNNING" /\ FBuffer

(* The sources in the order in which they get to play: the list may name   *)
(* one twice, and the one on top as well, but only the first place counts. *)
Order == IF FRunningSource = None THEN <<>> ELSE Once(<<FRunningSource>> \o FPausedSources)

(* The mixer implements the stack of sources.                              *)
Stack == INSTANCE SourceStack WITH stack <- Order

ImplementsStack == Stack!Spec
=============================================================================
