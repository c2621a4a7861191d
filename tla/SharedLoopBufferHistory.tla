---------------------- MODULE SharedLoopBufferHistory -----------------------
(***************************************************************************)
(* SharedLoopBuffer with a history variable.  The library lets two         *)
(* producers write at once, and Clear overlap a Read; what happens to the  *)
(* counters then has no bounds, and it lasts beyond the calls that did it. *)
(* The history says whether it has happened since the ring was last as the *)
(* constructor leaves it.                                                  *)
(***************************************************************************)
EXTENDS SharedLoopBuffer

VARIABLE disturbed    \* did calls overlap that leave the counters anyhow?

historyVars == <<sharedVars, disturbed>>

(* Two producers are in Write, or the callback and Clear are both at work. *)
Collision ==
  \/ \E p, q \in Producer : p # q /\ writer[p].pc # "idle" /\ writer[q].pc # "idle"
  \/ reader.pc # "idle" /\ clearer.pc # "idle"

(* As the constructor leaves the ring, and as a Clear does that runs alone. *)
Fresh == SharedInit

HistoryInit == SharedInit /\ disturbed = FALSE

Remember == disturbed' = ((disturbed \/ Collision') /\ ~ Fresh')

HistoryNext == SharedNext /\ Remember

HistorySpec == HistoryInit /\ [][HistoryNext]_historyVars

-----------------------------------------------------------------------------
(* However a Read, the Write of one producer at a time and a Clear that    *)
(* comes between Reads interleave, no copy leaves the ring and the count   *)
(* of unread bytes neither exceeds the capacity nor wraps below 0: the     *)
(* updates lost between callback, producer and Clear cost bytes, but never *)
(* the bounds of the buffer.  Two producers at once or a Clear during a    *)
(* Read, both of which the library does, end that until a Clear that runs  *)
(* alone makes it true again.                                              *)
RingBounds ==
  disturbed \/
    /\ FWrited <= FCapcity
    /\ FReadIdx <= FCapcity
    /\ reader.pc = "copy" => reader.count <= FCapcity
    /\ reader.pc = "store" => reader.count <= reader.loaded
    /\ \A p \in Producer : writer[p].pc = "fill" => /\ writer[p].idx < FCapcity
                                                   /\ writer[p].count <= FCapcity
=============================================================================
