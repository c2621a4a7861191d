---------------------------- MODULE MCRecordFeed ---------------------------
(***************************************************************************)
(* One instance for TLC of four components that share nothing: a behaviour *)
(* is one of RecordFeed, of ALSADevice, of RadioTuner or of LineStream,    *)
(* which part tells, and the variables of the other three stay as they     *)
(* begin.  In RecordFeed the second frame does not fit.                    *)
(***************************************************************************)
EXTENDS RecordFeed

CONSTANTS Handle, Period, DeviceEnv, Kilo, Word, Freq, Caps, TunerEnv,
          Line, bufsize, PipeSize, MaxLines, LineEnv

VARIABLES
  part,
  FPcmHandle, FLog, FCanPause, FPeriodSize, held, pcm,
  FHandle, Fac, cap, private, units, ready, asked, status,
  writing, line, begun, pipe, closed, reading, buf, sent, delivered, broken

device == <<FPcmHandle, FLog, FCanPause, FPeriodSize, held, pcm>>
tuner == <<FHandle, Fac, cap, private, units, ready, asked, status>>
lines == <<writing, line, begun, pipe, closed, reading, buf, sent, delivered, broken>>

(* Nothing, a byte, a CR at its end, and one byte too many.                *)
MCLine == {<<>>, <<"a">>, <<"b", "CR">>, <<"a", "b", "a">>}

ALSA == INSTANCE ALSADevice WITH Env <- DeviceEnv
Tuner == INSTANCE RadioTuner WITH Env <- TunerEnv
Lines == INSTANCE LineStream WITH Env <- LineEnv

MCInit ==
  /\ part \in {"feed", "device", "tuner", "lines"}
  /\ Init /\ ALSA!Init /\ Tuner!Init /\ Lines!Init
  /\ part # "tuner" => FHandle = "none" /\ cap = "low" /\ ~ private

MCNext ==
  \/ part = "feed" /\ Next /\ UNCHANGED <<part, device, tuner, lines>>
  \/ part = "device" /\ ALSA!Next /\ UNCHANGED <<part, vars, tuner, lines>>
  \/ part = "tuner" /\ Tuner!Next /\ UNCHANGED <<part, vars, device, lines>>
  \/ part = "lines" /\ Lines!Next /\ UNCHANGED <<part, vars, device, tuner>>

MCSpec ==
  /\ MCInit /\ [][MCNext]_<<part, vars, device, tuner, lines>>
  /\ Fairness /\ ALSA!Fairness

(* Every variable has its type.                                            *)
MCTypeOK == TypeOK /\ ALSA!TypeOK /\ Tuner!TypeOK /\ Lines!TypeOK

(* See ALSADevice: an Open leaves a ready device or a closed one.          *)
OpenIsReady == ALSA!OpenIsReady

(* See ALSADevice: a stream that was overrun runs again.                   *)
StreamGoesOn == ALSA!StreamGoesOn

(* See RadioTuner: the tuner is where it was told to be, and says so.      *)
FreqKept == Tuner!FreqKept

(* See LineStream: lines that fit arrive whole, in order and once.         *)
LinesArrive == Lines!LinesArrive
=============================================================================
