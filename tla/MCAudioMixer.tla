---------------------------- MODULE MCAudioMixer ----------------------------
(***************************************************************************)
(* Two players and a radio: enough for a source to be displaced twice and  *)
(* to stand twice in the list.                                             *)
(***************************************************************************)
EXTENDS AudioMixer
=============================================================================
