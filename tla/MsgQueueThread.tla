--------------------------- MODULE MsgQueueThread ---------------------------
(***************************************************************************)
(* TMsgQueue and TMsgQueueThread (include/hc_msgqueue.h) on top of TThread *)
(* (include/hc_thread.h): clients post messages to a bounded queue, and    *)
(* the threads that Start created take them out and handle them.  A step   *)
(* is a critical section of FMutex, one semaphore call or one access of    *)
(* FTerminating.                                                           *)
(***************************************************************************)
EXTENDS Naturals, Sequences, FiniteSets

CONSTANTS
  Client,     \* the threads that call the public operations
  Worker,     \* the threads Start can create
  Msg,        \* the addresses of messages
  CAPACITY,   \* the template parameter
  MaxSem      \* bound: clients stop posting when FMsgSem would exceed it

ASSUME MsgQueueAssumption ==
  /\ CAPACITY \in 0 .. 255
  /\ MaxSem \in Nat
  /\ IsFiniteSet(Client) /\ IsFiniteSet(Worker)

VARIABLES
  FQueue,        \* the posted messages, oldest first
  FMsgSem,       \* the value of the semaphore
  FTerminating,  \* TThread's flag
  client,        \* what each client is doing
  worker,        \* where each thread is in Execute
  inHand         \* the messages a thread has taken out and not deleted yet

vars == <<FQueue, FMsgSem, FTerminating, client, worker, inHand>>

TypeOK ==
  /\ FQueue \in Seq(Msg) /\ Len(FQueue) <= CAPACITY
  /\ FMsgSem \in 0 .. MaxSem
  /\ FTerminating \in BOOLEAN
  /\ client \in [Client -> {"idle", "signal"}]
  /\ worker \in [Worker -> {"none", "check", "wait", "peek", "handle", "exited"}]
  /\ inHand \in [Worker -> SUBSET Msg]

Init ==
  /\ FQueue = <<>>
  /\ FMsgSem = 0
  /\ FTerminating = TRUE
  /\ client = [c \in Client |-> "idle"]
  /\ worker = [w \in Worker |-> "none"]
  /\ inHand = [w \in Worker |-> {}]

Queued == {FQueue[i] : i \in 1 .. Len(FQueue)}
Signalling == {c \in Client : client[c] = "signal"}
Peeking == {w \in Worker : worker[w] = "peek"}
Running == {w \in Worker : worker[w] \notin {"none", "exited"}}

-----------------------------------------------------------------------------
PostOneMore(c, m) ==
  /\ client[c] = "idle"
  /\ m \notin Queued \cup UNION {inHand[w] : w \in Worker}
  /\ FMsgSem + Cardinality(Signalling) < MaxSem
  /\ Len(FQueue) <= CAPACITY
  /\ FQueue' = Append(FQueue, m)
  /\ client' = [client EXCEPT ![c] = "signal"]
  /\ UNCHANGED <<FMsgSem, FTerminating, worker, inHand>>

PostToSleeper(c, m) ==
  /\ client[c] = "idle"
  /\ m \notin Queued \cup UNION {inHand[w] : w \in Worker}
  /\ FMsgSem + Cardinality(Signalling) < MaxSem
  /\ Len(FQueue) < CAPACITY
  /\ FQueue' = Append(FQueue, m)
  /\ client' = IF FQueue = <<>> THEN [client EXCEPT ![c] = "signal"] ELSE client
  /\ UNCHANGED <<FMsgSem, FTerminating, worker, inHand>>

(* Post: the message enters under the mutex, unless the queue is full, and *)
(* the semaphore is raised afterwards.  A new message has an address that  *)
(* no undeleted message has.                                               *)
Post(c, m) ==
  /\ client[c] = "idle"
  /\ m \notin Queued \cup UNION {inHand[w] : w \in Worker}
  /\ FMsgSem + Cardinality(Signalling) < MaxSem
  /\ IF Len(FQueue) < CAPACITY
       THEN /\ FQueue' = Append(FQueue, m)
            /\ client' = [client EXCEPT ![c] = "signal"]
       ELSE UNCHANGED <<FQueue, client>>
  /\ UNCHANGED <<FMsgSem, FTerminating, worker, inHand>>

Signal(c) ==
  /\ client[c] = "signal"
  /\ client' = [client EXCEPT ![c] = "idle"]
  /\ FMsgSem' = FMsgSem + 1
  /\ UNCHANGED <<FQueue, FTerminating, worker, inHand>>

(* Clear deletes the queued messages and leaves the semaphore as it is.    *)
Clear(c) ==
  /\ client[c] = "idle"
  /\ FQueue' = <<>>
  /\ UNCHANGED <<FMsgSem, FTerminating, client, worker, inHand>>

(* Start does not look whether an earlier thread is still there.           *)
Start(c, w) ==
  /\ client[c] = "idle"
  /\ worker[w] \in {"none", "exited"}
  /\ FTerminating' = FALSE
  /\ worker' = [worker EXCEPT ![w] = "check"]
  /\ UNCHANGED <<FQueue, FMsgSem, client, inHand>>

Stop(c) ==
  /\ client[c] = "idle"
  /\ FTerminating' = TRUE
  /\ UNCHANGED <<FQueue, FMsgSem, client, worker, inHand>>

-----------------------------------------------------------------------------
(* Execute: the loop condition, Peek in two steps, and the handler.        *)
Check(w) ==
  /\ worker[w] = "check"
  /\ worker' = [worker EXCEPT ![w] = IF FTerminating THEN "exited" ELSE "wait"]
  /\ UNCHANGED <<FQueue, FMsgSem, FTerminating, client, inHand>>

Wait(w) ==
  /\ worker[w] = "wait"
  /\ FMsgSem > 0
  /\ FMsgSem' = FMsgSem - 1
  /\ worker' = [worker EXCEPT ![w] = "peek"]
  /\ UNCHANGED <<FQueue, FTerminating, client, inHand>>

PeekLeaves(w) ==
  /\ worker[w] = "peek"
  /\ FQueue # <<>>
  /\ worker' = [worker EXCEPT ![w] = "handle"]
  /\ inHand' = [inHand EXCEPT ![w] = {Head(FQueue)}]
  /\ UNCHANGED <<FQueue, FMsgSem, FTerminating, client>>

(* An empty queue yields NULL, and the loop goes on.                       *)
Peek(w) ==
  /\ worker[w] = "peek"
  /\ IF FQueue = <<>>
       THEN /\ worker' = [worker EXCEPT ![w] = "check"]
            /\ UNCHANGED <<FQueue, inHand>>
       ELSE /\ worker' = [worker EXCEPT ![w] = "handle"]
            /\ inHand' = [inHand EXCEPT ![w] = {Head(FQueue)}]
            /\ FQueue' = Tail(FQueue)
  /\ UNCHANGED <<FMsgSem, FTerminating, client>>

(* OnMsgReceived returns, and the message is deleted.                      *)
Handle(w) ==
  /\ worker[w] = "handle"
  /\ worker' = [worker EXCEPT ![w] = "check"]
  /\ inHand' = [inHand EXCEPT ![w] = {}]
  /\ UNCHANGED <<FQueue, FMsgSem, FTerminating, client>>

-----------------------------------------------------------------------------
ClientStep(c) ==
  \/ \E m \in Msg : Post(c, m)
  \/ Signal(c)
  \/ Clear(c)
  \/ \E w \in Worker : Start(c, w)
  \/ Stop(c)

WorkerStep(w) == Check(w) \/ Wait(w) \/ Peek(w) \/ Handle(w)

Next ==
  \/ \E c \in Client : ClientStep(c)
  \/ \E w \in Worker : WorkerStep(w)

Spec == Init /\ [][Next]_vars

(* A client that pushed goes on to sem_post, a thread that can run does,   *)
(* and OnMsgReceived returns.                                              *)
Fairness ==
  /\ \A c \in Client : WF_vars(Signal(c))
  /\ \A w \in Worker : WF_vars(WorkerStep(w))

FairSpec == Spec /\ Fairness

-----------------------------------------------------------------------------
(* No wakeup is lost: every queued message has a count that will wake a    *)
(* thread for it, in the semaphore, on its way there, or already consumed  *)
(* by a thread about to look.  Clear only leaves counts too many.          *)
SemCoversQueue ==
  FMsgSem + Cardinality(Signalling) + Cardinality(Peeking) >= Len(FQueue)

(* A message that was posted has one owner: it is in the queue once or in  *)
(* the hands of one thread, so it is neither handled nor deleted twice,    *)
(* with however many threads a restart has left behind.                    *)
OneOwner ==
  /\ \A i, j \in 1 .. Len(FQueue) : FQueue[i] = FQueue[j] => i = j
  /\ \A w \in Worker : inHand[w] \cap Queued = {}
  /\ \A v, w \in Worker : v # w => inHand[v] \cap inHand[w] = {}

(* While a thread serves the queue, a message that was accepted leaves it. *)
EveryMessageLeaves ==
  \A m \in Msg : (m \in Queued /\ Running # {}) ~> (m \notin Queued \/ FTerminating)

(* A thread told to terminate exits: "this function only set @terminating  *)
(* flag, derived Execute should peek this flag to exit executing"          *)
(* (include/hc_thread.h:41-42).                                            *)
StoppedThreadExits ==
  \A w \in Worker : FTerminating ~> (worker[w] \in {"none", "exited"} \/ ~ FTerminating)
=============================================================================
