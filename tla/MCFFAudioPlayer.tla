-------------------------- MODULE MCFFAudioPlayer --------------------------
(***************************************************************************)
(* Instance of FFAudioPlayer for TLC: two threads, so that a new one can   *)
(* start while the last one has not gone.                                  *)
(***************************************************************************)
EXTENDS FFAudioPlayer
=============================================================================
