------------------------- MODULE MCSharedLoopBuffer -------------------------
(***************************************************************************)
(* Instances of SharedLoopBuffer for TLC.  For the bounds: two producers,  *)
(* a ring of two bytes, a size_t just wide enough for it, and requests of  *)
(* one byte and of one byte more than the ring holds; calls that have      *)
(* collided are followed as far as they lead, with all the values a word   *)
(* can have.  For the overrun: one producer, and a ring of three bytes.    *)
(***************************************************************************)
EXTENDS SharedLoopBufferHistory, TLC

MCProducers == Permutations(Producer)
=============================================================================
