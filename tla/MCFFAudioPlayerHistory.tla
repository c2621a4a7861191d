----------------------- MODULE MCFFAudioPlayerHistory -----------------------
(***************************************************************************)
(* Instance of FFAudioPlayerHistory for TLC: two threads, which are alike. *)
(***************************************************************************)
EXTENDS FFAudioPlayerHistory, TLC

MCThreads == Permutations(Thread)
=============================================================================
