------------------------------- MODULE Session -------------------------------
(***************************************************************************)
(* dev::network::Session: one connection to a peer.  Threads send requests *)
(* with a callback (asyncSendMessage), the io_service thread reads, writes *)
(* and fires the timers, a pool of threads runs the callbacks, and any of  *)
(* them may drop the session.                                              *)
(*                                                                         *)
(* Requests and the answers to the requests of the peer share the map      *)
(* m_seq2Callback: an answer is sent under the seq the peer has chosen,    *)
(* with an empty callback, and its handler stays until drop.  Both ends    *)
(* count their seqs from 1 (P2PMessageFactory::newSeq), so that Request    *)
(* and PeerSeq may overlap.  Calling an empty std::function throws in a    *)
(* thread of the pool, which ends the process.                             *)
(***************************************************************************)
EXTENDS Naturals, Sequences, FiniteSets

CONSTANTS Request,   \* the seqs of the requests this node sends
          Timed,     \* those that are sent with options.timeout > 0
          PeerSeq    \* the seqs of the requests of the peer

VARIABLES
    haveNetwork,   \* Host::haveNetwork(): the host has not been stopped
    actived,       \* m_actived
    connected,     \* m_socket->isConnected()
    seq2Callback,  \* m_seq2Callback[seq]: no handler, one with a function, an empty one
    timer,         \* the deadline_timer of a request
    sending,       \* the progress of asyncSendMessage for a message
    writeQueue,    \* m_writeQueue
    writing,       \* m_writing
    writer,        \* the message that asyncWrite has been given, or None
    ioWrite,       \* onWrite is about to call write again
    peer,          \* requests that have arrived at the peer and are not answered
    inbox,         \* answers that have arrived
    dropper,       \* the progress of drop in a thread
    pool,          \* tasks of the thread pool
    called,        \* called[r]: the results the callback of r has been called with
    ignored,       \* history: the requests whose handler addSeqCallback did not insert
    terminated     \* an empty callback was called

vars == <<haveNetwork, actived, connected, seq2Callback, timer, sending, writeQueue, writing,
          writer, ioWrite, peer, inbox, dropper, pool, called, ignored, terminated>>

Seq2 == Request \cup PeerSeq
Asking(r) == <<"request", r>>
Answering(q) == <<"answer", q>>
Message == {Asking(r) : r \in Request} \cup {Answering(q) : q \in PeerSeq}
None == <<"none", 0>>
Thread == {"io", "user"}

Task(kind, s) == [kind |-> kind, seq |-> s]

Init ==
    /\ haveNetwork = TRUE /\ actived = TRUE /\ connected = TRUE
    /\ seq2Callback = [s \in Seq2 |-> "none"]
    /\ timer = [r \in Request |-> "off"]
    /\ sending = [m \in Message |-> IF m[1] = "request" THEN "idle" ELSE "unasked"]
    /\ writeQueue = <<>> /\ writing = FALSE /\ writer = None /\ ioWrite = FALSE
    /\ peer = {} /\ inbox = {}
    /\ dropper = [t \in Thread |-> "idle"]
    /\ pool = {}
    /\ called = [r \in Request |-> {}] /\ ignored = {}
    /\ terminated = FALSE

-----------------------------------------------------------------------------
(* asyncSendMessage, send and write. *)

\* Session::actived().
Actived == actived /\ haveNetwork

\* An inactive session calls the callback from the pool, empty or not.
Begin(m) ==
    /\ sending[m] \in {"idle", "asked"}
    /\ IF Actived
       THEN /\ sending' = [sending EXCEPT ![m] = "register"]
            /\ timer' = [r \in Request |-> IF m = Asking(r) /\ r \in Timed THEN "armed" ELSE timer[r]]
            /\ UNCHANGED pool
       ELSE /\ sending' = [sending EXCEPT ![m] = "done"]
            /\ pool' = pool \cup {Task(IF m[1] = "request" THEN "inactive" ELSE "empty", m[2])}
            /\ UNCHANGED timer
    /\ UNCHANGED <<haveNetwork, actived, connected, seq2Callback, writeQueue, writing, writer,
                   ioWrite, peer, inbox, dropper, called, ignored, terminated>>

\* addSeqCallback inserts: a handler that is there already stays.
Handler(m) == IF m[1] = "request" THEN "func" ELSE "empty"

AddSeqCallback(m) ==
    /\ sending[m] = "register"
    /\ seq2Callback' = [seq2Callback EXCEPT ![m[2]] = IF @ = "none" THEN Handler(m) ELSE @]
    /\ ignored' = ignored \cup {r \in Request : m = Asking(r) /\ seq2Callback[r] # "none"}
    /\ sending' = [sending EXCEPT ![m] = "send"]
    /\ UNCHANGED <<haveNetwork, actived, connected, timer, writeQueue, writing, writer, ioWrite,
                   peer, inbox, dropper, pool, called, terminated>>

Send(m) ==
    /\ sending[m] = "send"
    /\ IF Actived /\ connected
       THEN /\ writeQueue' = Append(writeQueue, m)
            /\ sending' = [sending EXCEPT ![m] = "write"]
       ELSE /\ sending' = [sending EXCEPT ![m] = "done"]
            /\ UNCHANGED writeQueue
    /\ UNCHANGED <<haveNetwork, actived, connected, seq2Callback, timer, writing, writer, ioWrite,
                   peer, inbox, dropper, pool, called, ignored, terminated>>

\* One message is written at a time.  A closed socket makes write call drop, which
\* returns at once: only drop closes the socket.
Write ==
    IF ~Actived \/ writing \/ writeQueue = <<>> THEN UNCHANGED <<writeQueue, writing, writer>>
    ELSE /\ writing' = TRUE
         /\ writeQueue' = Tail(writeQueue)
         /\ writer' = IF connected THEN Head(writeQueue) ELSE writer

WriteAfterSend(m) ==
    /\ sending[m] = "write"
    /\ sending' = [sending EXCEPT ![m] = "done"]
    /\ Write
    /\ UNCHANGED <<haveNetwork, actived, connected, seq2Callback, timer, ioWrite, peer, inbox,
                   dropper, pool, called, ignored, terminated>>

WriteAgain ==
    /\ ioWrite
    /\ ioWrite' = FALSE
    /\ Write
    /\ UNCHANGED <<haveNetwork, actived, connected, seq2Callback, timer, sending, peer, inbox,
                   dropper, pool, called, ignored, terminated>>

-----------------------------------------------------------------------------
(* drop: first m_actived, then the callbacks, then the socket.  Nothing keeps two *)
(* threads from finding m_actived set before one of them clears it.               *)

Drop(t) == dropper' = IF actived THEN [dropper EXCEPT ![t] = "begin"] ELSE dropper

ClearActived(t) ==
    /\ dropper[t] = "begin"
    /\ dropper' = [dropper EXCEPT ![t] = "erase"]
    /\ actived' = FALSE
    /\ UNCHANGED <<haveNetwork, connected, seq2Callback, timer, sending, writeQueue, writing,
                   writer, ioWrite, peer, inbox, pool, called, ignored, terminated>>

\* Cancelling a timer is too late when its handler is queued already.
EraseCallbacks(t) ==
    /\ dropper[t] = "erase"
    /\ dropper' = [dropper EXCEPT ![t] = "close"]
    /\ timer' = [r \in Request |-> IF seq2Callback[r] = "func" /\ timer[r] = "armed" THEN "off"
                                   ELSE timer[r]]
    /\ pool' = pool \cup {Task("disconnect", r) : r \in {s \in Request : seq2Callback[s] = "func"}}
    /\ seq2Callback' = [s \in Seq2 |-> "none"]
    /\ UNCHANGED <<haveNetwork, actived, connected, sending, writeQueue, writing, writer, ioWrite,
                   peer, inbox, called, ignored, terminated>>

\* The message handler is told (Service::onMessage with an error), the socket closed.
CloseSocket(t) ==
    /\ dropper[t] = "close"
    /\ dropper' = [dropper EXCEPT ![t] = "idle"]
    /\ pool' = pool \cup {Task("gone", 0)}
    /\ connected' = FALSE
    /\ UNCHANGED <<haveNetwork, actived, seq2Callback, timer, sending, writeQueue, writing,
                   writer, ioWrite, peer, inbox, called, ignored, terminated>>

\* P2PSession::stop, and an error of a read.
Disconnect(t) ==
    /\ actived /\ dropper[t] = "idle"
    /\ Drop(t)
    /\ UNCHANGED <<haveNetwork, actived, connected, seq2Callback, timer, sending, writeQueue,
                   writing, writer, ioWrite, peer, inbox, pool, called, ignored, terminated>>

-----------------------------------------------------------------------------
(* The io_service thread. *)

\* A write has ended, well or with an error.  Without a connected socket asyncWrite
\* does not call its handler at all.
OnWrite_KeepWriting ==
    /\ writer # None /\ dropper["io"] = "idle"
    /\ writer' = None
    /\ peer' = IF connected /\ writer[1] = "request" THEN peer \cup {writer[2]} ELSE peer
    /\ ioWrite' = (Actived /\ connected)
    /\ UNCHANGED <<haveNetwork, actived, connected, seq2Callback, timer, sending, writeQueue,
                   writing, inbox, dropper, pool, called, ignored, terminated>>

OnWrite ==
    /\ writer # None /\ dropper["io"] = "idle"
    /\ writer' = None
    /\ \/ /\ peer' = IF connected /\ writer[1] = "request" THEN peer \cup {writer[2]} ELSE peer
          /\ writing' = (writing /\ ~(Actived /\ connected))
          /\ ioWrite' = (Actived /\ connected)
          /\ UNCHANGED dropper
       \/ /\ Actived
          /\ Drop("io")
          /\ UNCHANGED <<peer, writing, ioWrite>>
    /\ UNCHANGED <<haveNetwork, actived, connected, seq2Callback, timer, sending, writeQueue,
                   inbox, pool, called, ignored, terminated>>

PeerAnswers(r) ==
    /\ r \in peer /\ connected
    /\ peer' = peer \ {r} /\ inbox' = inbox \cup {r}
    /\ UNCHANGED <<haveNetwork, actived, connected, seq2Callback, timer, sending, writeQueue,
                   writing, writer, ioWrite, dropper, pool, called, ignored, terminated>>

\* onMessage for an answer.  The handler stays in the map until its callback has run.
OnAnswer(r) ==
    /\ r \in inbox /\ dropper["io"] = "idle"
    /\ inbox' = inbox \ {r}
    /\ IF Actived /\ seq2Callback[r] = "func"
       THEN /\ timer' = [timer EXCEPT ![r] = IF @ = "armed" THEN "off" ELSE @]
            /\ pool' = pool \cup {Task("ok", r)}
       ELSE UNCHANGED <<timer, pool>>
    /\ UNCHANGED <<haveNetwork, actived, connected, seq2Callback, sending, writeQueue, writing,
                   writer, ioWrite, peer, dropper, called, ignored, terminated>>

\* onMessage for a request of the peer: the pool will answer it (P2PSession::onTopicMessage).
OnRequest(q) ==
    /\ sending[Answering(q)] = "unasked" /\ Actived /\ connected /\ dropper["io"] = "idle"
    /\ sending' = [sending EXCEPT ![Answering(q)] = "asked"]
    /\ UNCHANGED <<haveNetwork, actived, connected, seq2Callback, timer, writeQueue, writing,
                   writer, ioWrite, peer, inbox, dropper, pool, called, ignored, terminated>>

\* No timeout is so short that it ends before the callback is registered.
Expire(r) ==
    /\ timer[r] = "armed" /\ sending[Asking(r)] # "register"
    /\ timer' = [timer EXCEPT ![r] = "queued"]
    /\ UNCHANGED <<haveNetwork, actived, connected, seq2Callback, sending, writeQueue, writing,
                   writer, ioWrite, peer, inbox, dropper, pool, called, ignored, terminated>>

OnTimeout_Live(r) ==
    /\ timer[r] = "queued" /\ dropper["io"] = "idle"
    /\ timer' = [timer EXCEPT ![r] = "off"]
    /\ pool' = CASE seq2Callback[r] = "none" \/ actived -> pool
                 [] seq2Callback[r] = "func" -> pool \cup {Task("timeout", r)}
                 [] OTHER -> pool \cup {Task("empty", r)}
    /\ UNCHANGED <<haveNetwork, actived, connected, seq2Callback, sending, writeQueue, writing,
                   writer, ioWrite, peer, inbox, dropper, called, ignored, terminated>>

OnTimeout(r) ==
    /\ timer[r] = "queued" /\ dropper["io"] = "idle"
    /\ timer' = [timer EXCEPT ![r] = "off"]
    /\ pool' = CASE seq2Callback[r] = "none" -> pool
                 [] seq2Callback[r] = "func" -> pool \cup {Task("timeout", r)}
                 [] OTHER -> pool \cup {Task("empty", r)}
    /\ UNCHANGED <<haveNetwork, actived, connected, seq2Callback, sending, writeQueue, writing,
                   writer, ioWrite, peer, inbox, dropper, called, ignored, terminated>>

\* A thread of the pool runs a task; an answer and a timeout then erase the handler.
RunTask(k) ==
    /\ k \in pool
    /\ pool' = pool \ {k}
    /\ terminated' = (k.kind = "empty")
    /\ called' = [r \in Request |-> IF k.seq = r /\ k.kind \notin {"empty", "gone"}
                                    THEN called[r] \cup {k.kind} ELSE called[r]]
    /\ seq2Callback' = [s \in Seq2 |-> IF s = k.seq /\ k.kind \in {"ok", "timeout"} THEN "none"
                                       ELSE seq2Callback[s]]
    /\ UNCHANGED <<haveNetwork, actived, connected, timer, sending, writeQueue, writing, writer,
                   ioWrite, peer, inbox, dropper, ignored>>

\* Host::stop; the io_service and the pool end later, at any time.
StopHost ==
    /\ haveNetwork
    /\ haveNetwork' = FALSE
    /\ UNCHANGED <<actived, connected, seq2Callback, timer, sending, writeQueue, writing, writer,
                   ioWrite, peer, inbox, dropper, pool, called, ignored, terminated>>

SendStep(m) == Begin(m) \/ AddSeqCallback(m) \/ Send(m) \/ WriteAfterSend(m)
DropStep(t) == ClearActived(t) \/ EraseCallbacks(t) \/ CloseSocket(t)

Next ==
    /\ ~terminated
    /\ \/ \E m \in Message : SendStep(m)
       \/ \E t \in Thread : Disconnect(t) \/ DropStep(t)
       \/ WriteAgain \/ OnWrite \/ StopHost
       \/ \E r \in Request : PeerAnswers(r) \/ OnAnswer(r) \/ Expire(r) \/ OnTimeout(r)
       \/ \E q \in PeerSeq : OnRequest(q)
       \/ \E k \in pool : RunTask(k)

GoOn(m) == ~terminated /\ sending[m] # "idle" /\ SendStep(m)
Settle(r) == ~terminated /\ (Expire(r) \/ OnTimeout(r) \/ OnAnswer(r))
Drain == ~terminated /\ (WriteAgain \/ OnWrite)
Drops(t) == ~terminated /\ DropStep(t)
Calls(r, kind) == ~terminated /\ RunTask(Task(kind, r))
Kinds == {"inactive", "disconnect", "ok", "timeout"}

\* Threads and timers make progress; a peer need not answer and nobody need send.
Fairness ==
    /\ \A m \in Message : WF_vars(GoOn(m))
    /\ \A t \in Thread : WF_vars(Drops(t))
    /\ \A r \in Request : WF_vars(Settle(r)) /\ \A k \in Kinds : WF_vars(Calls(r, k))
    /\ WF_vars(Drain)

Spec == Init /\ [][Next]_vars
FairSpec == Spec /\ Fairness

-----------------------------------------------------------------------------
(* Properties *)

TypeOK ==
    /\ {haveNetwork, actived, connected, writing, ioWrite, terminated} \subseteq BOOLEAN
    /\ seq2Callback \in [Seq2 -> {"none", "func", "empty"}]
    /\ timer \in [Request -> {"off", "armed", "queued"}]
    /\ sending \in [Message -> {"unasked", "asked", "idle", "register", "send", "write", "done"}]
    /\ writeQueue \in Seq(Message) /\ writer \in Message \cup {None}
    /\ peer \subseteq Request /\ inbox \subseteq Request
    /\ dropper \in [Thread -> {"idle", "begin", "erase", "close"}]
    /\ called \in [Request -> SUBSET Kinds] /\ ignored \subseteq Request

\* A session that is active and that no thread has begun to drop.
Live == Actived /\ \A t \in Thread : dropper[t] = "idle"

\* No message is left in the write queue of a live session: whenever the queue is
\* not empty, a write is under way or a thread is about to call write, and
\* m_writing is set only while asyncWrite has a message.
WriterExists ==
    Live => /\ writing => writer # None
            /\ writeQueue # <<>> => \/ writing \/ ioWrite
                                    \/ \E m \in Message : sending[m] = "write"

\* The result of a request that has begun is out, or lost: the process or the network has
\* ended, or an answer to the peer had taken the seq of the request in m_seq2Callback.
Settled(r) ==
    \/ sending[Asking(r)] = "idle" \/ called[r] # {}
    \/ r \in ignored \/ terminated \/ ~haveNetwork

\* A request with a timeout that has begun and whose handler is in the map gets its
\* callback called, whatever comes first or at the same time: the answer, the timer, or
\* the end of the session.
CallbackComes == \A r \in Timed : []<>Settled(r)

\* drop forgets no request whose handler was inserted: when it has ended, the callback of
\* every such request has been called, is a task of the pool, or was registered after drop
\* had emptied the map, and then the timer of a timed request is still to come.
DropSettles ==
    \A r \in Request \ ignored :
        (~actived /\ dropper = [t \in Thread |-> "idle"] /\ sending[Asking(r)] = "done") =>
            \/ called[r] # {}
            \/ \E k \in pool : k.seq = r /\ k.kind \in Kinds
            \/ seq2Callback[r] = "func" /\ (r \in Timed => timer[r] # "off")

\* The peer has asked under the seq of this request, and is being answered.
Collides(r) == r \in PeerSeq /\ sending[Answering(r)] \notin {"unasked", "asked"}

\* addSeqCallback ignores a handler only for the sake of an answer to the peer under the
\* same seq, so that no request is lost between nodes whose seqs differ.
IgnoredCollide == \A r \in Request : r \in ignored => Collides(r)
=============================================================================
