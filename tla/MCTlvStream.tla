---------------------------- MODULE MCTlvStream ----------------------------
(***************************************************************************)
(* Instance of TlvStream for TLC.                                          *)
(***************************************************************************)
EXTENDS TlvStream
=============================================================================
