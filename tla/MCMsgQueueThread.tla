-------------------------- MODULE MCMsgQueueThread --------------------------
(***************************************************************************)
(* Instance of MsgQueueThread for TLC.  Messages, clients and threads are  *)
(* interchangeable, but symmetry is not used: with it TLC would not check  *)
(* that every message leaves.                                              *)
(***************************************************************************)
EXTENDS MsgQueueThread
=============================================================================
