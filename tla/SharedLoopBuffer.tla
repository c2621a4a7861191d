-------------------------- MODULE SharedLoopBuffer --------------------------
(***************************************************************************)
(* TLoopBuffer (include/hc_loopbuffer.h) as the audio path uses it, without *)
(* a lock: the SDL callback reads, decode threads and the radio's OnFrame  *)
(* write, and TAudioMixer::Add clears.  Nothing keeps them apart.  Play    *)
(* lets a decode thread write for 20 ms before Add displaces the source    *)
(* that plays (src/ff_audio.cpp:168-170), so that both write at once; and  *)
(* Add clears with the callback running when it displaced the radio, which *)
(* does not pause the device (src/audio_mixer.cpp:66-70).                  *)
(* The class has no atomics and the library is built without optimisation, *)
(* so each mention of a shared counter is one load or store; a step below  *)
(* makes one of them.  The bytes are left out.                             *)
(***************************************************************************)
EXTENDS RingState

CONSTANTS
  Producer,           \* the threads that write
  Word,               \* 2^w for the w bits of a size_t
  ReadCounts,         \* the lengths the SDL callback asks for
  WriteCounts         \* the lengths a producer offers

ASSUME SharedLoopBufferAssumption ==
  /\ Word \in Nat /\ Word > 2 * FCapcity
  /\ ReadCounts \subseteq 1 .. Word - 1
  /\ WriteCounts \subseteq 1 .. Word - 1

VARIABLES
  reader,     \* Read in the callback: where it is, its argument, its locals
  writer,     \* Write in each producer, likewise
  clearer     \* Clear in the application thread, likewise

sharedVars == <<FReadIdx, FWrited, reader, writer, clearer>>

Words == 0 .. Word - 1

(* Outside a call there is no argument and no local; and one that the rest *)
(* of the call does not use is 0.                                          *)
NoRead == [pc |-> "idle", asked |-> 0, count |-> 0, loaded |-> 0]
NoWrite == [pc |-> "idle", count |-> 0, room |-> 0, idx |-> 0, loaded |-> 0]
NoClear == [pc |-> "idle", loaded |-> 0]

SharedTypeOK ==
  /\ FReadIdx \in Words
  /\ FWrited \in Words
  /\ reader \in [pc : {"idle", "clamp", "shrink", "copy", "advance", "take", "store"},
                 asked : Words, count : Words, loaded : Words]
  /\ writer \in [Producer -> [pc : {"idle", "index", "wrap", "fill", "store"},
                              count : Words, room : Words, idx : Words, loaded : Words]]
  /\ clearer \in [pc : {"idle", "reload", "reset"}, loaded : Words]

SharedInit ==
  /\ FReadIdx = 0
  /\ FWrited = 0
  /\ reader = NoRead
  /\ writer = [p \in Producer |-> NoWrite]
  /\ clearer = NoClear

-----------------------------------------------------------------------------
(* Read, one access of FWrited per step.                                   *)

(* if (FWrited == 0) return 0;                                             *)
ReadCall(count) ==
  /\ reader.pc = "idle"
  /\ reader' = IF FWrited = 0 THEN NoRead
                ELSE [pc |-> "clamp", asked |-> count, count |-> count, loaded |-> 0]
  /\ UNCHANGED <<FReadIdx, FWrited, writer, clearer>>

ReadUnclamped ==
  /\ reader.pc = "clamp"
  /\ reader' = [reader EXCEPT !.pc = "copy"]
  /\ UNCHANGED <<FReadIdx, FWrited, writer, clearer>>

(* if (count > FWrited) ...                                                *)
ReadClamp ==
  /\ reader.pc = "clamp"
  /\ reader' = [reader EXCEPT !.pc = IF reader.count > FWrited THEN "shrink" ELSE "copy"]
  /\ UNCHANGED <<FReadIdx, FWrited, writer, clearer>>

(* ... count = FWrited, which is loaded again.                             *)
ReadShrink ==
  /\ reader.pc = "shrink"
  /\ reader' = [reader EXCEPT !.pc = "copy", !.count = FWrited]
  /\ UNCHANGED <<FReadIdx, FWrited, writer, clearer>>

(* The copies out.  They and the sum after them load FReadIdx several      *)
(* times; the step takes these as one load, which is the same as long as   *)
(* Clear, the only other one to store FReadIdx, stays out.                 *)
ReadCopy ==
  /\ reader.pc = "copy"
  /\ reader' = [reader EXCEPT !.pc = "advance", !.asked = 0, !.loaded = FReadIdx]
  /\ UNCHANGED <<FReadIdx, FWrited, writer, clearer>>

(* The index moves on.                                                     *)
ReadAdvance ==
  /\ reader.pc = "advance"
  /\ FReadIdx' = ((reader.loaded + reader.count) % Word) % FCapcity
  /\ reader' = [reader EXCEPT !.pc = "take", !.loaded = 0]
  /\ UNCHANGED <<FWrited, writer, clearer>>

(* FWrited -= count is a load and, a step later, a store.                  *)
ReadTake ==
  /\ reader.pc = "take"
  /\ reader' = [reader EXCEPT !.pc = "store", !.loaded = FWrited]
  /\ UNCHANGED <<FReadIdx, FWrited, writer, clearer>>

ReadStore ==
  /\ reader.pc = "store"
  /\ FWrited' = (reader.loaded + (Word - reader.count)) % Word
  /\ reader' = NoRead
  /\ UNCHANGED <<FReadIdx, writer, clearer>>

-----------------------------------------------------------------------------
(* Write in producer p, one access of a shared counter per step.           *)

(* writable_count = FCapcity - FWrited                                     *)
WriteCall(p, count) ==
  /\ writer[p].pc = "idle"
  /\ writer' = [writer EXCEPT ![p] =
                   [pc |-> "index", count |-> count,
                    room |-> (FCapcity + (Word - FWrited)) % Word, idx |-> 0, loaded |-> 0]]
  /\ UNCHANGED <<FReadIdx, FWrited, reader, clearer>>

(* write_idx takes FReadIdx first ...                                      *)
WriteIndex(p) ==
  /\ writer[p].pc = "index"
  /\ writer' = [writer EXCEPT ![p].pc = "wrap", ![p].idx = FReadIdx]
  /\ UNCHANGED <<FReadIdx, FWrited, reader, clearer>>

(* ... then FWrited; no room ends the call, and the length is clamped.     *)
WriteWrap(p) ==
  LET w == writer[p]
  IN /\ w.pc = "wrap"
     /\ writer' = [writer EXCEPT ![p] =
                      IF w.room = 0 THEN NoWrite
                      ELSE [w EXCEPT !.pc = "fill",
                                     !.idx = ((w.idx + FWrited) % Word) % FCapcity,
                                     !.count = IF w.count >= w.room THEN w.room ELSE w.count,
                                     !.room = 0]]
     /\ UNCHANGED <<FReadIdx, FWrited, reader, clearer>>

(* The copies in, and the load of FWrited += count.                        *)
WriteFill(p) ==
  /\ writer[p].pc = "fill"
  /\ writer' = [writer EXCEPT ![p].pc = "store", ![p].idx = 0, ![p].loaded = FWrited]
  /\ UNCHANGED <<FReadIdx, FWrited, reader, clearer>>

WriteStore(p) ==
  /\ writer[p].pc = "store"
  /\ FWrited' = (writer[p].loaded + writer[p].count) % Word
  /\ writer' = [writer EXCEPT ![p] = NoWrite]
  /\ UNCHANGED <<FReadIdx, reader, clearer>>

-----------------------------------------------------------------------------
(* FReadIdx = FWrited = 0 stores 0 in FWrited, loads it again and stores   *)
(* what it loaded in FReadIdx.                                             *)
ClearCall ==
  /\ clearer.pc = "idle"
  /\ FWrited' = 0
  /\ clearer' = [clearer EXCEPT !.pc = "reload"]
  /\ UNCHANGED <<FReadIdx, reader, writer>>

ClearReload ==
  /\ clearer.pc = "reload"
  /\ clearer' = [pc |-> "reset", loaded |-> FWrited]
  /\ UNCHANGED <<FReadIdx, FWrited, reader, writer>>

ClearReset ==
  /\ clearer.pc = "reset"
  /\ FReadIdx' = clearer.loaded
  /\ clearer' = NoClear
  /\ UNCHANGED <<FWrited, reader, writer>>

-----------------------------------------------------------------------------
ReadStep == ReadClamp \/ ReadShrink \/ ReadCopy \/ ReadAdvance \/ ReadTake \/ ReadStore
WriteStep(p) == WriteIndex(p) \/ WriteWrap(p) \/ WriteFill(p) \/ WriteStore(p)
ClearStep == ClearReload \/ ClearReset

SharedNext ==
  \/ \E count \in ReadCounts : ReadCall(count)
  \/ \E p \in Producer, count \in WriteCounts : WriteCall(p, count)
  \/ ClearCall
  \/ ReadStep
  \/ \E p \in Producer : WriteStep(p)
  \/ ClearStep

SharedSpec == SharedInit /\ [][SharedNext]_sharedVars

-----------------------------------------------------------------------------
(* Read hands back no more bytes than the callback has room for; the       *)
(* callback treats any other count as "not enough" and fills up the rest   *)
(* (src/sdl_audio.cpp:175-190, test/sdl-test.cpp:38-39).                   *)
ReadWithinRequest == reader.pc = "copy" => reader.count <= reader.asked
=============================================================================
