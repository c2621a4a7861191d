------------------------ MODULE FFAudioPlayerHistory ------------------------
(***************************************************************************)
(* FFAudioPlayer with a history of what has gone wrong.  Every step of the *)
(* player stays possible; the history only says which promises the code    *)
(* still keeps, and after what.                                            *)
(***************************************************************************)
EXTENDS FFAudioPlayer

VARIABLE happened   \* what has gone wrong so far, see Mishaps

historyVars == <<vars, happened>>

(* A file does not open or decode.                                         *)
LoadFailed == pc[App] = "load" /\ pc'[App] = "idle" /\ FState' # "LOADED"

(* A thread loses the processor at one of the labels: between a test of    *)
(* FState and the assignment that depends on it, or before its last look   *)
(* at FState.                                                              *)
Overtaken(labels, actors) == \E a \in actors : pc[a] \in labels /\ pc'[a] = pc[a]

(* The destructor's Stop finds the thread in its own, and returns.         *)
FoundBusy == RefCount = 0 /\ pc[App] = "check" /\ pc'[App] = "idle" /\ FState = "STOPPING"

(* A file ends within the 20 ms before Play adds the player to the mixer.  *)
TooShort == pc[App] = "settle" /\ \E t \in Thread : pc[t] = "free" /\ pc'[t] = "end"

(* Play starts a thread although another is still there: Rewind of a       *)
(* player that runs, a resumption by the mixer within 10 ms of the pause,  *)
(* or a client that calls Play as soon.                                    *)
Crowds == Alive # {} /\ \E t \in Thread \ Alive : pc'[t] # "dead"

(* A new thread has not got going when Play's 20 ms are over.              *)
Late == pc[App] = "settle" /\ pc'[App] # "settle" /\ \E t \in Thread : pc[t] = "born"

Mishaps ==
  {m \in {"loadFailed", "preempted", "missed", "crowded", "late"} :
     \/ m = "loadFailed" /\ LoadFailed
     \/ m = "preempted" /\ Overtaken({"check", "mark", "rewind", "pause"}, Actor)
     \/ m = "missed" /\ (Overtaken({"last"}, Thread) \/ FoundBusy \/ TooShort)
     \/ m = "crowded" /\ Crowds
     \/ m = "late" /\ Late}

(* The last two are over when the last thread has gone.                    *)
Passing == IF Alive' = {} THEN {"crowded", "late"} ELSE {}

-----------------------------------------------------------------------------
HistoryInit == Init /\ happened = {}

HistoryNext == Next /\ happened' = (happened \cup Mishaps) \ Passing

HistorySpec == HistoryInit /\ [][HistoryNext]_historyVars

-----------------------------------------------------------------------------
(* A decode thread works on a decoder that is there: Stop frees the        *)
(* contexts and FBuf only when the thread has left its loop, although the  *)
(* only thing it can look at is FThreadDone, which is true before the      *)
(* thread's first step as well (src/ff_audio.cpp:195-214, 252-305).  It is *)
(* only promised while no thread has been started beside another and none  *)
(* has come late; when they have all gone it is promised anew.             *)
DecoderInUse == happened \cap {"crowded", "late"} = {} =>
  \A t \in Thread : pc[t] \in {"born", "loop", "feed", "read"} => decoder = "live"

(* As long as files load and threads are not preempted, Stop closes a      *)
(* codec context that belongs to a live format context, never the one an   *)
(* earlier Stop closed (src/ff_audio.cpp:201-204).                         *)
StopClosesLive ==
  happened \cap {"loadFailed", "preempted"} = {} =>
    \A a \in Actor : pc[a] = "free" => FCodecCtx # "dangling"

(* Unless a thread is preempted, the state tells clients whether a file is *)
(* loaded: Play and Rewind use FFormatCtx in these states, Load allocates  *)
(* anew in this one, and Rewind seeks in a file that is open, however many *)
(* threads there are (src/ff_audio.cpp:66-67, 146-162).                    *)
StateTellsDecoder == "preempted" \notin happened =>
  /\ FState \in {"LOADED", "RUNNING", "PAUSED"} => decoder = "live"
  /\ FState = "STOPPED" => decoder = "none"
  /\ pc[App] = "seek" => decoder = "live"

(* Barring these mishaps, nobody is left with the address of a player that *)
(* has been deleted: neither a decode thread, which the destructor cannot  *)
(* join, nor the mixer (src/ff_audio.cpp:26-36, 46-50, 188-196, 305-307).  *)
ReleasedAlone ==
  /\ RefCount = 0 /\ pc[App] = "idle"
  /\ happened \cap {"preempted", "missed", "crowded", "late"} = {}
  => Alive = {} /\ "player" \notin {top} \cup below
=============================================================================
