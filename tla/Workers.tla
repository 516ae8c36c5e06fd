------------------------------ MODULE Workers -------------------------------
\* Threads of libdevcore: the queue through which they hand each other work, and
\* Worker, which starts and stops them.
EXTENDS Naturals, Sequences, FiniteSets

(***************************************************************************)
(* dev::concurrent_queue, through which the network threads hand the PBFT  *)
(* and Raft messages to the engine thread: push notifies one waiter after  *)
(* it has released the mutex, pop and tryPop wait on the condition         *)
(* variable until the queue holds something, tryPop no longer than its     *)
(* time limit.                                                             *)
(***************************************************************************)
CONSTANTS Producer, Consumer,
          Patient,      \* the consumers that call pop; the others call tryPop
          MaxItems      \* bound: elements each producer pushes

VARIABLES queue,        \* m_queue
          producer,     \* each producer: [pc, pushed]
          consumer,     \* each consumer: [pc, items]
          order         \* history: the elements in the order of the pushes

queueVars == <<queue, producer, consumer, order>>

QueueInit ==
    /\ queue = <<>> /\ order = <<>>
    /\ producer = [p \in Producer |-> [pc |-> "idle", pushed |-> 0]]
    /\ consumer = [c \in Consumer |-> [pc |-> "idle", items |-> <<>>]]

\* The body of push under the mutex.
push(p) ==
    LET item == <<p, producer[p].pushed + 1>>
    IN  /\ producer[p].pc = "idle" /\ producer[p].pushed < MaxItems
        /\ producer' = [producer EXCEPT ![p] = [pc |-> "notify", pushed |-> @.pushed + 1]]
        /\ queue' = Append(queue, item)
        /\ order' = Append(order, item)
        /\ UNCHANGED consumer

\* One of the waiters wakes, if there is any.
notify_one(p) ==
    LET waiting == {c \in Consumer : consumer[c].pc = "waiting"}
    IN  /\ producer[p].pc = "notify"
        /\ producer' = [producer EXCEPT ![p].pc = "idle"]
        /\ IF waiting = {} THEN UNCHANGED consumer
           ELSE \E c \in waiting : consumer' = [consumer EXCEPT ![c].pc = "woken"]
        /\ UNCHANGED <<queue, order>>

Take(c) ==
    /\ consumer' = [consumer EXCEPT ![c] = [pc |-> "idle", items |-> Append(@.items, Head(queue))]]
    /\ queue' = Tail(queue)

\* pop, and each time that its wait or the wait_for of tryPop returns to the test of the
\* predicate, which holds the mutex.
wait(c) ==
    /\ consumer[c].pc \in {"idle", "woken"}
    /\ IF queue # <<>> THEN Take(c)
       ELSE consumer' = [consumer EXCEPT ![c].pc = "waiting"] /\ UNCHANGED queue
    /\ UNCHANGED <<producer, order>>

\* The time limit of tryPop: the predicate is tested once more.
tryPop(c) ==
    /\ c \notin Patient
    /\ consumer[c].pc = "waiting"
    /\ IF queue # <<>> THEN Take(c)
       ELSE consumer' = [consumer EXCEPT ![c].pc = "idle"] /\ UNCHANGED queue
    /\ UNCHANGED <<producer, order>>

\* A wait on a condition variable may end without a notification.
Spurious(c) ==
    /\ consumer[c].pc = "waiting"
    /\ consumer' = [consumer EXCEPT ![c].pc = "woken"]
    /\ UNCHANGED <<queue, producer, order>>

QueueNext ==
    \/ \E p \in Producer : push(p) \/ notify_one(p)
    \/ \E c \in Consumer : wait(c) \/ tryPop(c) \/ Spurious(c)

QueueSpec == QueueInit /\ [][QueueNext]_queueVars

\* A thread that holds an element to announce or that has been woken goes on, and the
\* consumers call again; nobody promises a spurious wake-up.
QueueFairSpec ==
    /\ QueueSpec
    /\ \A p \in Producer : WF_queueVars(notify_one(p))
    /\ \A c \in Consumer : WF_queueVars(wait(c))

-----------------------------------------------------------------------------
(* Properties *)

\* Every message that was pushed is in the queue or was taken by one consumer, once, and
\* a consumer takes the messages in the order of the pushes.
InOrder ==
    \A k \in DOMAIN order :
        LET At(s) == {i \in DOMAIN s : s[i] = order[k]}
            takers == {c \in Consumer : At(consumer[c].items) # {}}
        IN  /\ Cardinality(At(queue)) + Cardinality(takers) = 1
            /\ \A c \in takers : \E i \in At(consumer[c].items) :
                  At(consumer[c].items) = {i}
                  /\ \A j \in 1..(i - 1) : \E m \in 1..(k - 1) : order[m] = consumer[c].items[j]

Empty == queue = <<>>

\* No wake-up is lost between the push and the notification that follows it without the
\* mutex: whatever has been pushed is taken, with every consumer in pop and without a
\* spurious wake-up.
Delivered == []<>Empty

-----------------------------------------------------------------------------
(***************************************************************************)
(* dev::Worker, the thread of the sealer, of the consensus engine and of   *)
(* block sync, and the start and stop of those modules.  One thread of the *)
(* program starts, stops and at last destroys the module; the worker       *)
(* thread may leave its loop by itself, by an exception of doWork.         *)
(*                                                                         *)
(* Every part of the code under x_work is one step.  A thread that waits   *)
(* on m_state_notifier sleeps until somebody calls notify_all.             *)
(***************************************************************************)
VARIABLES state,     \* m_state
          started,   \* m_startConsensus, m_startConsensusEngine
          thread,    \* the worker thread
          main,      \* the thread that calls start, stop and the destructor
          asleep     \* the threads that wait for a notification

workerVars == <<state, started, thread, main, asleep>>

NotifyAll == {}

WorkerInit ==
    /\ state = "Starting" /\ started = FALSE
    /\ thread = "none" /\ main = "idle" /\ asleep = {}

-----------------------------------------------------------------------------
(* The calls of the module.  Each ends with main = "idle". *)

\* Sealer::start and ConsensusEngineBase::start: a started module is left alone.
Start == /\ main = "idle" /\ ~started
         /\ main' = "startWorking"
         /\ UNCHANGED <<state, started, thread, asleep>>

StartWorking ==
    /\ main = "startWorking"
    /\ state' = IF thread = "none" \/ state = "Stopped" THEN "Starting" ELSE state
    /\ thread' = IF thread = "none" THEN "test" ELSE thread
    /\ asleep' = NotifyAll
    /\ main' = "starting"
    /\ UNCHANGED started

\* The loops that wait: test the state under x_work, sleep, test again.
AwaitStarted ==
    /\ main = "starting" /\ "main" \notin asleep
    /\ IF state = "Starting"
       THEN asleep' = asleep \cup {"main"} /\ UNCHANGED <<main, started>>
       ELSE main' = "idle" /\ started' = TRUE /\ UNCHANGED asleep
    /\ UNCHANGED <<state, thread>>

\* Sealer::stop: stopWorking only when isWorking.
Stop ==
    /\ main = "idle" /\ started
    /\ started' = FALSE
    /\ main' = IF state = "Started" THEN "stopWorking" ELSE "idle"
    /\ UNCHANGED <<state, thread, asleep>>

StopWorking ==
    /\ main = "stopWorking"
    /\ IF state = "Started"
       THEN state' = "Stopping" /\ main' = "stopping" /\ asleep' = NotifyAll
       ELSE main' = "idle" /\ UNCHANGED <<state, asleep>>
    /\ UNCHANGED <<started, thread>>

AwaitStopped ==
    /\ main = "stopping" /\ "main" \notin asleep
    /\ IF state # "Stopped" THEN asleep' = asleep \cup {"main"} /\ UNCHANGED main
       ELSE main' = "idle" /\ UNCHANGED asleep
    /\ UNCHANGED <<state, started, thread>>

\* terminate: the state under x_work, the notification and the join without it.
Terminate ==
    /\ main = "idle" /\ ~started
    /\ IF thread = "none" THEN main' = "gone" /\ UNCHANGED state
       ELSE state' = "Killing" /\ main' = "killing"
    /\ UNCHANGED <<started, thread, asleep>>

NotifyKilling == /\ main = "killing"
                 /\ asleep' = NotifyAll /\ main' = "joining"
                 /\ UNCHANGED <<state, started, thread>>

Join == /\ main = "joining" /\ thread = "gone"
        /\ thread' = "none" /\ main' = "gone"
        /\ UNCHANGED <<state, started, asleep>>

-----------------------------------------------------------------------------
(* The worker thread. *)

TestKilling ==
    /\ thread = "test"
    /\ thread' = IF state = "Killing" THEN "gone" ELSE "begin"
    /\ UNCHANGED <<state, started, main, asleep>>

BeginWork == /\ thread = "begin"
             /\ state' = "Started" /\ thread' = "begun"
             /\ UNCHANGED <<started, main, asleep>>

\* The notifications are given without x_work.
Notify == /\ thread \in {"begun", "left"}
          /\ asleep' = NotifyAll
          /\ thread' = IF thread = "begun" THEN "loop" ELSE "pause"
          /\ UNCHANGED <<state, started, main>>

WorkLoop == /\ thread = "loop"
            /\ thread' = IF state = "Started" THEN "doWork" ELSE "leave"
            /\ UNCHANGED <<state, started, main, asleep>>

\* doWork ends or throws.
DoWork == /\ thread = "doWork"
          /\ thread' \in {"loop", "leave"}
          /\ UNCHANGED <<state, started, main, asleep>>

\* A wish to kill or to start again that has come meanwhile is put back.
Leave ==
    /\ thread = "leave"
    /\ state' = IF state \in {"Killing", "Starting"} THEN state ELSE "Stopped"
    /\ thread' = "left"
    /\ UNCHANGED <<started, main, asleep>>

Pause ==
    /\ thread = "pause" /\ "thread" \notin asleep
    /\ IF state = "Stopped" THEN asleep' = asleep \cup {"thread"} /\ UNCHANGED thread
       ELSE thread' = "test" /\ UNCHANGED asleep
    /\ UNCHANGED <<state, started, main>>

MainStep == \/ StartWorking \/ AwaitStarted \/ StopWorking \/ AwaitStopped
            \/ NotifyKilling \/ Join
ThreadStep == TestKilling \/ BeginWork \/ Notify \/ WorkLoop \/ DoWork \/ Leave \/ Pause

WorkerNext == Start \/ Stop \/ Terminate \/ MainStep \/ ThreadStep

\* Both threads go on unless they sleep; doWork returns.
WorkerFairness == WF_workerVars(MainStep) /\ WF_workerVars(ThreadStep)

WorkerSpec == WorkerInit /\ [][WorkerNext]_workerVars
WorkerFairSpec == WorkerSpec /\ WorkerFairness

-----------------------------------------------------------------------------
(* Properties *)

Returned == main \in {"idle", "gone"}

\* Every call of start, of stop and of the destructor returns, also when the worker
\* leaves its loop at the same time: no notification is lost.
CallsReturn == []<>Returned

\* When stop has returned the thread does not work: it is not in doWork and will not
\* enter it until the module is started again.
StopIsQuiet ==
    (main = "idle" /\ ~started) =>
        thread \in {"none", "leave", "left", "pause"} \/ (thread = "loop" /\ state # "Started")
=============================================================================
