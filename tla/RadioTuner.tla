----------------------------- MODULE RadioTuner -----------------------------
(***************************************************************************)
(* TV4L2RadioCtrl (include/v4l2_radio.h, src/v4l2_radio.cpp) over its      *)
(* device file (include/hc_device.h, v4l2_device.h): StartUp finds out the *)
(* unit in which the tuner counts, Tune and QueryStat convert from and to  *)
(* kHz in 32 bits.  Any ioctl may fail.                                    *)
(***************************************************************************)
EXTENDS Naturals

CONSTANTS
  Kilo,       \* stands for 1000
  Word,       \* how many values a uint32_t has
  Freq,       \* what clients tune to, in kHz
  Caps,       \* the units a tuner may count in: "low", "1hz" or "plain"
  Env         \* "heedless": a client tunes although StartUp has failed

VARIABLES
  FHandle,    \* the descriptor: "none" (0 or less), "own", or "stray", as the
              \* constructor does not set it
  Fac,        \* how many units the code thinks make a MHz
  cap,        \* the unit the tuner counts in
  private,    \* does the driver report kHz in a field of its own?
  units,      \* where the tuner is
  ready,      \* has the last StartUp succeeded?
  asked,      \* the last frequency set, 0 once a Seek has moved the tuner
  status      \* the frequency that the last call reported, 0 if it reported none

tuner == <<FHandle, Fac, ready>>
vars == <<tuner, cap, private, units, asked, status>>

FacOf(c) == CASE c = "low" -> 16 * Kilo [] c = "1hz" -> Kilo * Kilo [] OTHER -> 16

KHz(u) == (u * Kilo) \div FacOf(cap)

TypeOK ==
  /\ FHandle \in {"none", "own", "stray"} /\ Fac \in {FacOf(c) : c \in {"low", "1hz", "plain"}}
  /\ cap \in Caps /\ private \in BOOLEAN /\ ready \in BOOLEAN
  /\ units \in 0 .. Word - 1 /\ asked \in Freq \cup {0} /\ status \in 0 .. Word - 1

Init ==
  /\ FHandle \in {"none", "stray"} /\ Fac = 16 * Kilo
  /\ cap \in Caps /\ private \in BOOLEAN
  /\ units = 0 /\ ready = FALSE /\ asked = 0 /\ status = 0

-----------------------------------------------------------------------------
StartUpPlain ==
  /\ FHandle' = "own" /\ Fac' = FacOf("plain") /\ ready' = TRUE
  /\ UNCHANGED <<cap, private, units, asked, status>>

(* A descriptor greater than 0 is taken for open.                          *)
Open == FHandle' \in IF FHandle = "none" THEN {"none", "own"} ELSE {FHandle}

(* GetTuner fails on a descriptor that is no tuner's.                      *)
StartUp ==
  /\ Open
  /\ \/ FHandle' = "own" /\ Fac' = FacOf(cap) /\ ready' = TRUE
     \/ Fac' = Fac /\ ready' = FALSE
  /\ UNCHANGED <<cap, private, units, asked, status>>

(* The device file is closed; ShutDown does not do it.                     *)
Close ==
  /\ FHandle' = "none" /\ ready' = FALSE
  /\ UNCHANGED <<Fac, cap, private, units, asked, status>>

(* A double beyond the range of uint32_t becomes whatever the processor    *)
(* makes of it.                                                            *)
ToUint(x) == IF x < Word THEN {x} ELSE {x % Word, Word - 1}

(* frequency * 1000 is computed in 32 bits, and then divided.              *)
Reported(u) == IF private /\ KHz(u) > 0 THEN KHz(u) ELSE ((u * Kilo) % Word) \div Fac

Heeds == ready \/ "heedless" \in Env

(* Without a descriptor there is no ioctl.                                 *)
Ioctl == FHandle = "own" /\ Heeds /\ UNCHANGED <<tuner, cap, private>>

Fails == status' = 0 /\ UNCHANGED <<units, asked>>

(* Freq is QueryStat, with 0 for a failure.                                *)
QueryStat ==
  /\ Ioctl
  /\ status' \in {Reported(units), 0}
  /\ UNCHANGED <<units, asked>>

Tune(freq) ==
  /\ Ioctl
  /\ \/ Fails
     \/ /\ units' \in ToUint((freq * Fac) \div Kilo)
        /\ asked' = freq
        /\ status' \in {Reported(units'), 0}

(* The tuner stops at some frequency of its own.                           *)
Seek ==
  /\ Ioctl
  /\ \/ Fails
     \/ /\ \E f \in Freq : units' = (f * FacOf(cap)) \div Kilo + 1
        /\ asked' = 0
        /\ status' \in {Reported(units'), 0}

Next == StartUp \/ Close \/ QueryStat \/ (\E freq \in Freq : Tune(freq)) \/ Seek

Spec == Init /\ [][Next]_vars

-----------------------------------------------------------------------------
(* The tuner is where it was told to go, to the unit in which it counts,   *)
(* and a status tells where it is: as long as clients heed StartUp's       *)
(* result, and for tuners that do not count in Hz, whose frequencies times *)
(* 1000 leave the 32 bits (include/v4l2_radio.h:60,                        *)
(* src/v4l2_radio.cpp:28-33, 68-71, 87).                                   *)
FreqKept ==
  /\ asked # 0 => asked * FacOf(cap) \in units * Kilo .. units * Kilo + Kilo - 1
  /\ status # 0 => status = KHz(units)
=============================================================================
