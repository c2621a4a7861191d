----------------------------- MODULE ALSADevice -----------------------------
(***************************************************************************)
(* TALSADevice (include/alsa_device.h, src/alsa_device.cpp) over ALSA: the *)
(* handles it takes and gives back when an Open fails half-way, and what   *)
(* its loop of transfers does to the state of the pcm.  Calls are made by  *)
(* one thread.  Read, Write and State pass the handle on unseen: nobody    *)
(* calls them on a closed device, where ALSA would stop the program.       *)
(***************************************************************************)
EXTENDS Naturals

CONSTANTS
  Handle,     \* what ALSA gives out: pcms and outputs
  Period,     \* the period sizes a pcm may have
  Env         \* "reopen": a client opens anew without a Close, also after an
              \* Open that failed; "suspend": the system suspends the pcm

VARIABLES
  FPcmHandle, FLog, FCanPause, FPeriodSize,   \* the device
  held,       \* the handles ALSA has given out and not got back
  pcm         \* the pcm behind FPcmHandle

vars == <<FPcmHandle, FLog, FCanPause, FPeriodSize, held, pcm>>

NULL == "NULL"
Unset == "unset"    \* the constructor does not set FLog

Pcm(state, pause, period) == [state |-> state, pause |-> pause, period |-> period]
NoPcm == Pcm("none", FALSE, 0)

States == {"none", "open", "setup", "prepared", "running", "paused", "xrun", "suspended"}

TypeOK ==
  /\ FPcmHandle \in Handle \cup {NULL} /\ FLog \in Handle \cup {NULL, Unset}
  /\ FCanPause \in BOOLEAN /\ FPeriodSize \in Period \cup {0}
  /\ held \subseteq Handle
  /\ pcm \in [state : States, pause : BOOLEAN, period : Period \cup {0}]

Init ==
  /\ FPcmHandle = NULL /\ FLog = Unset
  /\ FCanPause = FALSE /\ FPeriodSize = 0
  /\ held = {} /\ pcm = NoPcm

-----------------------------------------------------------------------------
Keeps(handle, log) ==
  FPcmHandle' = handle /\ FLog' = log /\ held' = held \cup ({handle, log} \ {NULL, Unset})

ErrParamsForgets(handle, log, half) == Keeps(handle, log) /\ pcm' = half

(* After a failure behind snd_pcm_open, Close gives both handles back.     *)
ErrParams(handle, log, half) ==
  FPcmHandle' = NULL /\ FLog' = NULL /\ held' = held /\ pcm' = NoPcm

MayOpen == "reopen" \in Env \/ (FPcmHandle = NULL /\ FLog \in {NULL, Unset})

(* Open gets so far: 0 no pcm, 1 a parameter is refused, 2 the parameters  *)
(* are refused as a whole or cannot be read back, 3 the pcm does not       *)
(* prepare, 4 it is ready.  If no log can be attached FLog stays what it   *)
(* was, and Open goes on: to Close after an early refusal, if FLog is set, *)
(* and else to the dump of the parameters, which ends the program.         *)
SetParams(got, pause) == FCanPause' = IF got >= 2 THEN pause ELSE FCanPause

Open ==
  /\ MayOpen
  /\ \E log \in (Handle \ held) \cup {FLog}, handle \in Handle \ held, got \in 0 .. 4, pause \in BOOLEAN, period \in Period :
       /\ log # handle
       /\ log \in {NULL, Unset} => got = 0 \/ (got = 1 /\ log = NULL)
       /\ SetParams(got, pause)
       /\ FPeriodSize' = IF got >= 3 THEN period ELSE FPeriodSize
       /\ CASE got = 0 -> Keeps(FPcmHandle, log) /\ pcm' = pcm
            [] got = 4 -> Keeps(handle, log) /\ pcm' = Pcm("prepared", pause, period)
            [] OTHER -> ErrParams(handle, log,
                          Pcm(IF got = 3 THEN "setup" ELSE "open", pause, period))

Close ==
  /\ FLog # Unset
  /\ held' = held \ {FPcmHandle, FLog}
  /\ FPcmHandle' = NULL /\ FLog' = NULL /\ pcm' = NoPcm
  /\ UNCHANGED <<FCanPause, FPeriodSize>>

(* The destructor closes; the next device starts afresh.                   *)
Destroy ==
  /\ FLog # Unset
  /\ held' = held \ {FPcmHandle, FLog}
  /\ FPcmHandle' = NULL /\ FLog' = Unset /\ pcm' = NoPcm
  /\ FCanPause' = FALSE /\ FPeriodSize' = 0

Becomes(state) ==
  /\ pcm' = [pcm EXCEPT !.state = state]
  /\ UNCHANGED <<FPcmHandle, FLog, FCanPause, FPeriodSize, held>>

(* ALSA refuses in any other state, and the refusal is ignored.            *)
Pause(enable) ==
  /\ FPcmHandle # NULL /\ FCanPause
  /\ pcm.state = IF enable THEN "running" ELSE "paused"
  /\ Becomes(IF enable THEN "paused" ELSE "running")

TransferReports ==
  /\ FPcmHandle # NULL
  /\ pcm.state = "prepared" /\ Becomes("running")

(* Read and Write of a period or more: the first transfer starts a         *)
(* prepared pcm, and after an overrun or underrun (EPIPE) they prepare it. *)
Transfer ==
  /\ FPcmHandle # NULL
  /\ \/ pcm.state = "prepared" /\ Becomes("running")
     \/ pcm.state = "xrun" /\ Becomes("prepared")

(* The client is late; the system goes to sleep.                           *)
Xrun == pcm.state = "running" /\ Becomes("xrun")

Suspend == "suspend" \in Env /\ pcm.state \in {"prepared", "running"} /\ Becomes("suspended")

Next ==
  Open \/ Close \/ Destroy \/ (\E enable \in BOOLEAN : Pause(enable)) \/ Transfer \/ Xrun \/ Suspend

Spec == Init /\ [][Next]_vars

(* The client's loop goes on with its transfers.                           *)
Fairness == WF_vars(Transfer)

-----------------------------------------------------------------------------
(* However far an Open gets, it leaves a device that is ready and knows    *)
(* the pcm it has, or a closed one: Pause and Read trust FCanPause and     *)
(* FPeriodSize, which earlier and failed calls have set too, and nothing   *)
(* ALSA gave out is lost (src/alsa_device.cpp:50-90, 117, 148, 260).       *)
OpenIsReady ==
  /\ held \subseteq {FPcmHandle, FLog}
  /\ FPcmHandle # NULL =>
       /\ pcm.state \notin {"none", "open", "setup"}
       /\ FCanPause = pcm.pause /\ FPeriodSize = pcm.period

(* A stream that was overrun runs again, as long as its client goes on to  *)
(* transfer (src/alsa_device.cpp:161-165, 187-191).                        *)
StreamGoesOn == pcm.state = "xrun" ~> (pcm.state = "running" \/ FPcmHandle = NULL)
=============================================================================
