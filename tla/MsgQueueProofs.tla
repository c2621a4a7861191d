--------------------------- MODULE MsgQueueProofs ---------------------------
(***************************************************************************)
(* For any number of clients, threads and messages: no wakeup is lost and  *)
(* no message has two owners.                                              *)
(***************************************************************************)
EXTENDS MsgQueueThread, FiniteSetTheorems, TLAPS

(* The semaphore stays below its bound because clients that are about to   *)
(* raise it count already.                                                 *)
Bounded == FMsgSem + Cardinality(Signalling) <= MaxSem

IInv == TypeOK /\ Bounded /\ SemCoversQueue /\ OneOwner

USE MsgQueueAssumption

(* Both sets of actors are finite, so that their sizes are numbers.        *)
LEMMA Sizes ==
  /\ IsFiniteSet(Signalling) /\ Cardinality(Signalling) \in Nat
  /\ IsFiniteSet(Peeking) /\ Cardinality(Peeking) \in Nat
<1>1. IsFiniteSet(Signalling) /\ IsFiniteSet(Peeking)
  BY FS_Subset DEF Signalling, Peeking
<1> QED
  BY <1>1, FS_CardinalityType

(* A client that pushes is one more that will raise the semaphore.         *)
LEMMA OneMoreSignals ==
  ASSUME TypeOK, NEW c \in Client, client[c] = "idle",
         client' = [client EXCEPT ![c] = "signal"]
  PROVE  Cardinality(Signalling') = Cardinality(Signalling) + 1
<1>1. Signalling' = Signalling \cup {c} /\ c \notin Signalling
  BY DEF TypeOK, Signalling
<1> QED
  BY <1>1, Sizes, FS_AddElement

(* A client that raises it is one less.                                    *)
LEMMA OneLessSignals ==
  ASSUME TypeOK, NEW c \in Client, client[c] = "signal",
         client' = [client EXCEPT ![c] = "idle"]
  PROVE  Cardinality(Signalling') = Cardinality(Signalling) - 1
<1>1. Signalling' = Signalling \ {c} /\ c \in Signalling
  BY DEF TypeOK, Signalling
<1> QED
  BY <1>1, Sizes, FS_RemoveElement

(* A thread that takes a count is one more about to look.                  *)
LEMMA OneMorePeeks ==
  ASSUME TypeOK, NEW w \in Worker, worker[w] # "peek",
         worker' = [worker EXCEPT ![w] = "peek"]
  PROVE  Cardinality(Peeking') = Cardinality(Peeking) + 1
<1>1. Peeking' = Peeking \cup {w} /\ w \notin Peeking
  BY DEF TypeOK, Peeking
<1> QED
  BY <1>1, Sizes, FS_AddElement

(* A thread that looks is one less.                                        *)
LEMMA OneLessPeeks ==
  ASSUME TypeOK, NEW w \in Worker, worker[w] = "peek", NEW l, l # "peek",
         worker' = [worker EXCEPT ![w] = l]
  PROVE  Cardinality(Peeking') = Cardinality(Peeking) - 1
<1>1. Peeking' = Peeking \ {w} /\ w \in Peeking
  BY DEF TypeOK, Peeking
<1> QED
  BY <1>1, Sizes, FS_RemoveElement

(* Any other move of a thread leaves the set alone.                        *)
LEMMA SamePeek ==
  ASSUME TypeOK, NEW w \in Worker, worker[w] # "peek", NEW l, l # "peek",
         worker' = [worker EXCEPT ![w] = l]
  PROVE  Peeking' = Peeking
BY DEF TypeOK, Peeking

-----------------------------------------------------------------------------
(* The invariant holds at the start, and every step keeps it.              *)
LEMMA InvInit == Init => IInv
<1> SUFFICES ASSUME Init PROVE IInv
  OBVIOUS
<1>1. Signalling = {} /\ Peeking = {}
  BY DEF Init, Signalling, Peeking
<1>2. TypeOK /\ OneOwner
  BY DEF Init, TypeOK, OneOwner, Queued
<1>3. Bounded /\ SemCoversQueue
  BY <1>1, FS_EmptySet DEF Init, Bounded, SemCoversQueue
<1> QED
  BY <1>2, <1>3 DEF IInv

(* Post: the message is nobody's before, and its count is on its way.      *)
LEMMA InvPost ==
  ASSUME IInv, NEW c \in Client, NEW m \in Msg, Post(c, m)
  PROVE  IInv'
<1>1. CASE Len(FQueue) < CAPACITY
  <2>1. Cardinality(Signalling') = Cardinality(Signalling) + 1 /\ Peeking' = Peeking
    BY <1>1, OneMoreSignals DEF IInv, Post, Peeking
  <2>2. /\ FQueue \in Seq(Msg) /\ FQueue' \in Seq(Msg) /\ Len(FQueue') = Len(FQueue) + 1
        /\ FQueue'[Len(FQueue) + 1] = m
        /\ \A i \in 1 .. Len(FQueue) : FQueue'[i] = FQueue[i]
    BY <1>1 DEF IInv, TypeOK, Post
  <2>3. TypeOK'
    <3>1. FQueue' \in Seq(Msg) /\ Len(FQueue') <= CAPACITY
      BY <1>1, <2>2 DEF IInv, TypeOK
    <3>2. client' \in [Client -> {"idle", "signal"}]
      BY <1>1 DEF IInv, TypeOK, Post
    <3> QED
      BY <3>1, <3>2 DEF IInv, TypeOK, Post
  <2>4. Bounded' /\ SemCoversQueue'
    BY <1>1, <2>1, <2>2, Sizes DEF IInv, TypeOK, Bounded, SemCoversQueue, Post
  <2>5. Queued' = Queued \cup {m}
    <3>1. \A i \in 1 .. Len(FQueue') : i \in 1 .. Len(FQueue) \/ i = Len(FQueue) + 1
      BY <2>2
    <3>2. Len(FQueue) + 1 \in 1 .. Len(FQueue') /\ 1 .. Len(FQueue) \subseteq 1 .. Len(FQueue')
      BY <2>2
    <3> QED
      BY <2>2, <3>1, <3>2 DEF Queued
  <2>6. m \notin Queued /\ \A w \in Worker : m \notin inHand[w]
    BY DEF Post
  <2>7. ASSUME NEW i \in 1 .. Len(FQueue'), NEW j \in 1 .. Len(FQueue'), FQueue'[i] = FQueue'[j]
        PROVE  i = j
    <3>1. \A k \in 1 .. Len(FQueue) : FQueue[k] # m
      BY <2>6 DEF Queued
    <3> QED
      BY <2>2, <2>7, <3>1 DEF IInv, OneOwner
  <2>8. OneOwner'
    BY <2>5, <2>6, <2>7, <1>1 DEF IInv, OneOwner, Post
  <2> QED
    BY <2>3, <2>4, <2>8 DEF IInv
<1>2. CASE ~ (Len(FQueue) < CAPACITY)
  BY <1>2 DEF Post, IInv, TypeOK, Bounded, SemCoversQueue, OneOwner, Queued, Signalling, Peeking
<1> QED
  BY <1>1, <1>2

(* The count arrives.                                                      *)
LEMMA InvSignal ==
  ASSUME IInv, NEW c \in Client, Signal(c)
  PROVE  IInv'
<1>1. Cardinality(Signalling') = Cardinality(Signalling) - 1 /\ Peeking' = Peeking
  BY OneLessSignals DEF IInv, Signal, Peeking
<1>2. Cardinality(Signalling) - 1 \in Nat
  <2>1. IsFiniteSet(Signalling')
    BY Sizes, FS_Subset DEF Signal, IInv, TypeOK, Signalling
  <2> QED
    BY <1>1, <2>1, FS_CardinalityType
<1>3. Bounded' /\ SemCoversQueue'
  BY <1>1, <1>2, Sizes DEF IInv, TypeOK, Bounded, SemCoversQueue, Signal
<1>4. TypeOK'
  BY <1>1, <1>2, <1>3 DEF IInv, TypeOK, Bounded, Signal
<1>5. OneOwner'
  BY DEF IInv, OneOwner, Queued, Signal
<1> QED
  BY <1>3, <1>4, <1>5 DEF IInv

(* Clear, Start and Stop only lower what needs a count.                    *)
LEMMA InvOther ==
  ASSUME IInv, NEW c \in Client, Clear(c) \/ Stop(c) \/ \E w \in Worker : Start(c, w)
  PROVE  IInv'
<1>1. CASE Clear(c)
  <2>1. Signalling' = Signalling /\ Peeking' = Peeking
    BY <1>1 DEF Clear, Signalling, Peeking
  <2> QED
    BY <1>1, <2>1, Sizes DEF Clear, IInv, TypeOK, Bounded, SemCoversQueue, OneOwner, Queued
<1>2. CASE Stop(c)
  BY <1>2 DEF Stop, IInv, TypeOK, Bounded, SemCoversQueue, OneOwner, Queued, Signalling, Peeking
<1>3. ASSUME NEW w \in Worker, Start(c, w) PROVE IInv'
  <2>1. Signalling' = Signalling /\ Peeking' = Peeking
    BY <1>3, SamePeek DEF Start, IInv, Signalling
  <2>2. TypeOK'
    BY <1>3 DEF Start, IInv, TypeOK
  <2>3. FQueue' = FQueue /\ FMsgSem' = FMsgSem /\ inHand' = inHand
    BY <1>3 DEF Start
  <2> QED
    BY <2>1, <2>2, <2>3 DEF IInv, Bounded, SemCoversQueue, OneOwner, Queued
<1> QED
  BY <1>1, <1>2, <1>3

(* A thread that looks at a queue has given up its count for the message   *)
(* it takes, if there is one.                                              *)
LEMMA InvPeek ==
  ASSUME IInv, NEW w \in Worker, Peek(w)
  PROVE  IInv'
<1>1. Signalling' = Signalling
  BY DEF Peek, Signalling
<1>2. Cardinality(Peeking') = Cardinality(Peeking) - 1 /\ Cardinality(Peeking') \in Nat
  <2>1. Cardinality(Peeking') = Cardinality(Peeking) - 1
    BY OneLessPeeks DEF Peek, IInv
  <2>2. IsFiniteSet(Peeking')
    BY FS_Subset DEF Peeking
  <2> QED
    BY <2>1, <2>2, FS_CardinalityType
<1>3. CASE FQueue = <<>>
  <2>1. /\ worker' = [worker EXCEPT ![w] = "check"]
        /\ UNCHANGED <<FQueue, inHand, FMsgSem, FTerminating, client>>
    BY <1>3 DEF Peek
  <2>2. TypeOK'
    BY <2>1 DEF IInv, TypeOK
  <2>3. Len(FQueue) = 0
    BY <1>3
  <2>4. Bounded' /\ SemCoversQueue'
    BY <1>1, <1>2, <2>1, <2>3, Sizes DEF IInv, TypeOK, Bounded, SemCoversQueue
  <2>5. OneOwner'
    BY <2>1 DEF IInv, OneOwner, Queued
  <2> QED
    BY <2>2, <2>4, <2>5 DEF IInv
<1>4. CASE FQueue # <<>>
  <2>1. /\ Len(FQueue') = Len(FQueue) - 1 /\ Len(FQueue) \in Nat \ {0}
        /\ FQueue' \in Seq(Msg) /\ FQueue[1] \in Msg
        /\ \A i \in 1 .. Len(FQueue') : FQueue'[i] = FQueue[i + 1]
    <3>1. FQueue \in Seq(Msg) /\ FQueue # <<>> /\ FQueue' = Tail(FQueue)
      BY <1>4 DEF Peek, IInv, TypeOK
    <3> QED
      BY <3>1
  <2>2. TypeOK'
    BY <1>4, <2>1 DEF Peek, IInv, TypeOK
  <2>3. Bounded' /\ SemCoversQueue'
    BY <1>1, <1>2, <1>4, <2>1, Sizes DEF Peek, IInv, TypeOK, Bounded, SemCoversQueue
  <2>4. Queued' \subseteq Queued /\ FQueue[1] \in Queued /\ FQueue[1] \notin Queued'
    BY <2>1 DEF Queued, IInv, OneOwner
  <2>5. inHand' = [inHand EXCEPT ![w] = {FQueue[1]}]
    BY <1>4, <2>1 DEF Peek, IInv, TypeOK
  <2>6. \A i, j \in 1 .. Len(FQueue') : FQueue'[i] = FQueue'[j] => i = j
    BY <2>1 DEF IInv, OneOwner
  <2>7. OneOwner'
    BY <2>4, <2>5, <2>6 DEF IInv, OneOwner, TypeOK
  <2> QED
    BY <2>2, <2>3, <2>7 DEF IInv
<1> QED
  BY <1>3, <1>4

(* The remaining steps of a thread.                                        *)
LEMMA InvWorker ==
  ASSUME IInv, NEW w \in Worker, Check(w) \/ Wait(w) \/ Handle(w)
  PROVE  IInv'
<1>1. Signalling' = Signalling
  BY DEF Check, Wait, Handle, Signalling
<1>2. CASE Check(w) \/ Handle(w)
  <2>1. Cardinality(Peeking') = Cardinality(Peeking)
    BY <1>2, SamePeek DEF Check, Handle, IInv
  <2>2. UNCHANGED <<FQueue, FMsgSem, FTerminating, client>>
    BY <1>2 DEF Check, Handle
  <2>3. TypeOK'
    BY <1>2, <2>2 DEF Check, Handle, IInv, TypeOK
  <2>4. Bounded' /\ SemCoversQueue'
    BY <1>1, <2>1, <2>2 DEF IInv, Bounded, SemCoversQueue
  <2>5. OneOwner'
    BY <1>2, <2>2 DEF Check, Handle, IInv, TypeOK, OneOwner, Queued
  <2> QED
    BY <2>3, <2>4, <2>5 DEF IInv
<1>3. CASE Wait(w)
  <2>1. Cardinality(Peeking') = Cardinality(Peeking) + 1
    BY <1>3, OneMorePeeks DEF Wait, IInv
  <2>2. /\ FMsgSem > 0 /\ FMsgSem' = FMsgSem - 1 /\ worker' = [worker EXCEPT ![w] = "peek"]
        /\ UNCHANGED <<FQueue, FTerminating, client, inHand>>
    BY <1>3 DEF Wait
  <2>3. TypeOK'
    BY <2>2 DEF IInv, TypeOK
  <2>4. Bounded' /\ SemCoversQueue'
    BY <1>1, <2>1, <2>2, Sizes DEF IInv, TypeOK, Bounded, SemCoversQueue
  <2>5. OneOwner'
    BY <2>2 DEF IInv, OneOwner, Queued
  <2> QED
    BY <2>3, <2>4, <2>5 DEF IInv
<1> QED
  BY <1>2, <1>3

-----------------------------------------------------------------------------
(* All steps together.                                                     *)
LEMMA InvNext == IInv /\ [Next]_vars => IInv'
<1> SUFFICES ASSUME IInv, [Next]_vars PROVE IInv'
  OBVIOUS
<1>1. ASSUME NEW c \in Client, ClientStep(c) PROVE IInv'
  BY <1>1, InvPost, InvSignal, InvOther DEF ClientStep
<1>2. ASSUME NEW w \in Worker, WorkerStep(w) PROVE IInv'
  BY <1>2, InvPeek, InvWorker DEF WorkerStep
<1>3. CASE UNCHANGED vars
  BY <1>3 DEF vars, IInv, TypeOK, Bounded, SemCoversQueue, OneOwner, Queued, Signalling, Peeking
<1> QED
  BY <1>1, <1>2, <1>3 DEF Next

(* The queue keeps within its capacity and the semaphore within its bound, *)
(* however posts, clears and threads interleave                            *)
(* (include/hc_msgqueue.h:41-78, 101-141).                                 *)
THEOREM QueueTypes == Spec => []TypeOK
<1>1. IInv => TypeOK
  BY DEF IInv
<1> QED
  BY <1>1, InvInit, InvNext, PTL DEF Spec

(* However many clients post and clear, and however many threads restarts  *)
(* have left behind, every queued message has a count that will wake a     *)
(* thread for it (include/hc_msgqueue.h:41-78, 101-141).                   *)
THEOREM NoWakeupLost == Spec => []SemCoversQueue
<1>1. IInv => SemCoversQueue
  BY DEF IInv
<1> QED
  BY <1>1, InvInit, InvNext, PTL DEF Spec

(* No message is in two places: the queue, or the hands of a thread, which *)
(* will delete it (include/hc_msgqueue.h:41-78, 129-141).                  *)
THEOREM EachMessageOnce == Spec => []OneOwner
<1>1. IInv => OneOwner
  BY DEF IInv
<1> QED
  BY <1>1, InvInit, InvNext, PTL DEF Spec
=============================================================================
