--------------------------- MODULE ChannelServer ----------------------------
\* The channel server of a node: its listening socket, and its sessions with SDK
\* clients.
EXTENDS Sequences, FiniteSets, Integers

(***************************************************************************)
(* The channel server of a node (ChannelServer, ChannelRPCServer,          *)
(* ChannelSession): SDK clients connect, send JSON-RPC requests and say    *)
(* which topics they follow.  One thread runs the io_service (accepting,   *)
(* reading, writing, disconnecting); the messages of the clients are       *)
(* handled by a pool, and each answer is written by the thread of the      *)
(* request.  Three kinds of locks: _sessionMutex and _seqMutex of the      *)
(* server, and the recursive _mutex of each session.                       *)
(***************************************************************************)
CONSTANTS Client,
          Request,   \* JSON-RPC requests
          Asker,     \* Asker[q]: the client that sends request q
          Topic

VARIABLES
    open,           \* the socket of a client is open
    actived,        \* ChannelSession::_actived
    mutex,          \* ChannelSession::_mutex: its holder
    sendBufferList, writing,   \* of a session
    posted,         \* a buffer of the session is with async_write
    received,       \* the answers a client has received
    topics,         \* ChannelSession::_topics
    sessions,       \* ChannelRPCServer::_sessions
    sessionMutex, seqMutex,
    seq2session,    \* _seq2session: the requests with an entry
    hostTopics,     \* the topics given to Service::setTopics
    io,             \* the io_service thread: [pc, client]
    worker,         \* the pool thread of a request
    follower        \* the pool thread that handles a topic message of a client

rpcVars == <<open, actived, mutex, sendBufferList, writing, posted, received, topics, sessions,
          sessionMutex, seqMutex, seq2session, hostTopics, io, worker, follower>>

session == <<sendBufferList, writing, posted, received>>
server == <<sessions, sessionMutex, seqMutex, seq2session, hostTopics>>

Idle == [pc |-> "idle", client |-> "none"]
At(pc, c) == io.pc = pc /\ io.client = c
Go(pc, c) == io' = [pc |-> pc, client |-> c]

RpcInit ==
    /\ open = [c \in Client |-> FALSE] /\ actived = [c \in Client |-> FALSE]
    /\ mutex = [c \in Client |-> "none"]
    /\ sendBufferList = [c \in Client |-> <<>>]
    /\ writing = [c \in Client |-> FALSE] /\ posted = [c \in Client |-> {}]
    /\ received = {}
    /\ topics = [c \in Client |-> {}]
    /\ sessions = {} /\ sessionMutex = "none" /\ seqMutex = "none" /\ seq2session = {}
    /\ hostTopics = {}
    /\ io = Idle
    /\ worker = [q \in Request |-> "unsent"]
    /\ follower = [c \in Client |-> "idle"]

-----------------------------------------------------------------------------
(* Connections.  onAccept starts the next accept in every case; after the handshake
   onConnect registers the session and runs it: a new object for every connection. *)

OnConnect(c) ==
    /\ io = Idle /\ ~open[c] /\ c \notin sessions /\ sessionMutex = "none"
    /\ follower[c] = "idle"
    /\ \A q \in Request : Asker[q] = c => worker[q] \in {"unsent", "done"}
    /\ open' = [open EXCEPT ![c] = TRUE]
    /\ actived' = [actived EXCEPT ![c] = TRUE]
    /\ sendBufferList' = [sendBufferList EXCEPT ![c] = <<>>]
    /\ writing' = [writing EXCEPT ![c] = FALSE] /\ posted' = [posted EXCEPT ![c] = {}]
    /\ topics' = [topics EXCEPT ![c] = {}]
    /\ sessions' = sessions \cup {c}
    /\ UNCHANGED <<mutex, received, sessionMutex, seqMutex, seq2session, hostTopics, io, worker,
                   follower>>

\* onRead or onWrite has an error, or onIdle: disconnect takes the lock of the session
\* and keeps it to the end.
Disconnect(c) ==
    /\ io = Idle /\ open[c] /\ actived[c] /\ mutex[c] = "none"
    /\ mutex' = [mutex EXCEPT ![c] = "io"]
    /\ actived' = [actived EXCEPT ![c] = FALSE]
    /\ Go("handler", c)
    /\ UNCHANGED <<open, session, topics, server, worker, follower>>

\* The message handler is called with the error: onDisconnect of the server.
LockSessions(c) ==
    /\ At("handler", c) /\ sessionMutex = "none"
    /\ sessionMutex' = "io"
    /\ Go("locked", c)
    /\ UNCHANGED <<open, actived, mutex, session, topics, sessions, seqMutex, seq2session,
                   hostTopics, worker, follower>>

\* At most one entry of _seq2session is erased.
RemoveSession(c) ==
    LET mine == {q \in seq2session : Asker[q] = c} IN
    /\ At("locked", c) /\ seqMutex = "none"
    /\ sessions' = sessions \ {c}
    /\ IF mine = {} THEN UNCHANGED seq2session
       ELSE \E q \in mine : seq2session' = seq2session \ {q}
    /\ sessionMutex' = "none"
    /\ Go("topics", c)
    /\ UNCHANGED <<open, actived, mutex, session, topics, seqMutex, hostTopics, worker, follower>>

UpdateHostTopics ==
    /\ sessionMutex = "none"
    /\ hostTopics' = UNION {topics[c] : c \in sessions}

TopicsAfterRemove(c) ==
    /\ At("topics", c)
    /\ UpdateHostTopics
    /\ Go("close", c)
    /\ UNCHANGED <<open, actived, mutex, session, topics, sessions, sessionMutex, seqMutex,
                   seq2session, worker, follower>>

\* async_shutdown, or the shutdown timer, closes the socket.
CloseSocket(c) ==
    /\ At("close", c)
    /\ open' = [open EXCEPT ![c] = FALSE]
    /\ mutex' = [mutex EXCEPT ![c] = "none"]
    /\ io' = Idle
    /\ UNCHANGED <<actived, session, topics, server, worker, follower>>

-----------------------------------------------------------------------------
(* Writing: startWrite is called with the lock of the session. *)

StartWrite(c, list, busy, inFlight) ==
    IF ~actived[c] \/ busy \/ list = <<>>
    THEN /\ sendBufferList' = [sendBufferList EXCEPT ![c] = list]
         /\ writing' = [writing EXCEPT ![c] = busy]
         /\ posted' = [posted EXCEPT ![c] = inFlight]
    ELSE /\ sendBufferList' = [sendBufferList EXCEPT ![c] = Tail(list)]
         /\ writing' = [writing EXCEPT ![c] = TRUE]
         /\ posted' = [posted EXCEPT ![c] = inFlight \cup {Head(list)}]

OnWrite(c) ==
    /\ io = Idle /\ posted[c] # {} /\ mutex[c] = "none"
    /\ received' = received \cup posted[c]
    /\ StartWrite(c, sendBufferList[c], writing[c] /\ ~actived[c], {})
    /\ UNCHANGED <<open, actived, mutex, topics, server, io, worker, follower>>

-----------------------------------------------------------------------------
(* A JSON-RPC request: onClientEthereumRequest, then the handler of the request and
   SendResponse, which keeps _seqMutex while it writes the answer. *)

OnClientEthereumRequest(q) ==
    /\ worker[q] = "unsent" /\ actived[Asker[q]] /\ seqMutex = "none"
    /\ seq2session' = seq2session \cup {q}
    /\ worker' = [worker EXCEPT ![q] = "running"]
    /\ UNCHANGED <<open, actived, mutex, session, topics, sessions, sessionMutex, seqMutex,
                   hostTopics, io, follower>>

\* asyncSendMessage tests _actived before it takes the lock of the session.
SendResponse(q) ==
    /\ worker[q] = "running" /\ seqMutex = "none"
    /\ IF q \in seq2session /\ actived[Asker[q]]
       THEN /\ seqMutex' = q
            /\ worker' = [worker EXCEPT ![q] = "writing"]
            /\ UNCHANGED seq2session
       ELSE /\ seq2session' = seq2session \ {q}
            /\ worker' = [worker EXCEPT ![q] = "done"]
            /\ UNCHANGED seqMutex
    /\ UNCHANGED <<open, actived, mutex, session, topics, sessions, sessionMutex, hostTopics, io,
                   follower>>

WriteBuffer(q) ==
    LET c == Asker[q] IN
    /\ worker[q] = "writing" /\ mutex[c] = "none"
    /\ StartWrite(c, Append(sendBufferList[c], q), writing[c], posted[c])
    /\ seq2session' = seq2session \ {q}
    /\ seqMutex' = "none"
    /\ worker' = [worker EXCEPT ![q] = "done"]
    /\ UNCHANGED <<open, actived, mutex, received, topics, sessions, sessionMutex, hostTopics, io,
                   follower>>

-----------------------------------------------------------------------------
(* onClientTopicRequest: the topics of the session first, then those of the node.  The
   message may be handled after its session was removed. *)

OnClientTopicRequest(c) ==
    /\ follower[c] = "idle"
    /\ \E ts \in SUBSET Topic : ts # topics[c] /\ topics' = [topics EXCEPT ![c] = ts]
    /\ follower' = [follower EXCEPT ![c] = "update"]
    /\ open[c]
    /\ UNCHANGED <<open, actived, mutex, session, server, io, worker>>

FollowerUpdates(c) ==
    /\ follower[c] = "update"
    /\ UpdateHostTopics
    /\ follower' = [follower EXCEPT ![c] = "idle"]
    /\ UNCHANGED <<open, actived, mutex, session, topics, sessions, sessionMutex, seqMutex,
                   seq2session, io, worker>>

IoStep(c) == LockSessions(c) \/ RemoveSession(c) \/ TopicsAfterRemove(c) \/ CloseSocket(c) \/ OnWrite(c)
WorkerStep(q) == SendResponse(q) \/ WriteBuffer(q)

RpcNext ==
    \/ \E c \in Client : \/ OnConnect(c) \/ Disconnect(c) \/ IoStep(c)
                         \/ OnClientTopicRequest(c) \/ FollowerUpdates(c)
    \/ \E q \in Request : OnClientEthereumRequest(q) \/ WorkerStep(q)

\* Every thread that is not blocked goes on.
RpcFairness ==
    /\ \A c \in Client : WF_rpcVars(IoStep(c)) /\ WF_rpcVars(FollowerUpdates(c))
    /\ \A q \in Request : WF_rpcVars(WorkerStep(q))

RpcSpec == RpcInit /\ [][RpcNext]_rpcVars
RpcFairSpec == RpcSpec /\ RpcFairness

-----------------------------------------------------------------------------
(* Properties *)

\* The node announces what its clients follow: unless a thread is about to call
\* updateHostTopics, the topics given to the service are those of the sessions that are
\* registered, in whatever order topic messages and disconnections are handled.
TopicsPublished ==
    (io.pc # "topics" /\ \A c \in Client : follower[c] # "update") =>
        hostTopics = UNION {topics[c] : c \in sessions}

\* No answer is stuck: a live session with buffers to send is writing, and _writing is
\* set exactly while async_write has one buffer.
AnswersFlow ==
    \A c \in Client : actived[c] =>
        /\ sendBufferList[c] # <<>> => writing[c]
        /\ writing[c] = (posted[c] # {}) /\ Cardinality(posted[c]) <= 1

\* "force close socket after 30 seconds" (ChannelSession.cpp): a session that is being
\* disconnected gets its socket closed.  The code does not keep this: the README tells
\* which two threads wait for each other.
DisconnectCloses == \A c \in Client : (open[c] /\ ~actived[c]) ~> ~open[c]

-----------------------------------------------------------------------------
(***************************************************************************)
(* The listening socket of the channel server: the thread that runs the    *)
(* io service and starts it again after an exception, the accept that each *)
(* accept starts anew, the handshake, and stop() from another thread.      *)
(* Boost's asio is external: an accept or a handshake that was started     *)
(* ends with or without an error, a closed acceptor ends its accepts with  *)
(* an error, and run() returns when the service is stopped or a handler    *)
(* throws.                                                                 *)
(***************************************************************************)
CONSTANTS
    Dialer,
    EnableSSL,
    MaxTroubles    \* bound: accepts and handshakes that fail, and clients that leave

VARIABLES
    listening,          \* the acceptor is open
    ioStopped,     \* io_service::stopped()
    pc,            \* _serverThread: check, start, run, sleep, over
    accepts,       \* accepts that wait
    client,        \* the state of each client
    stopping,      \* the caller of stop(): no, service, join, stopped
    troubles

acceptVars == <<listening, ioStopped, pc, accepts, client, stopping, troubles>>

AcceptInit ==
    /\ listening = TRUE /\ ioStopped = FALSE /\ pc = "check" /\ accepts = 0
    /\ client = [c \in Dialer |-> "away"]
    /\ stopping = "no" /\ troubles = 0

Running == pc = "run" /\ ~ioStopped

-----------------------------------------------------------------------------
(* The thread of run() *)

Check ==
    /\ pc = "check"
    /\ pc' = IF listening THEN "start" ELSE "over"
    /\ UNCHANGED <<listening, ioStopped, accepts, client, stopping, troubles>>

\* startAccept: an acceptor that is closed throws, and the exception ends there.
startAccept(n) == accepts' = n + (IF listening THEN 1 ELSE 0)

Start ==
    /\ pc = "start"
    /\ startAccept(accepts)
    /\ pc' = "run"
    /\ UNCHANGED <<listening, ioStopped, client, stopping, troubles>>

RunReturns ==
    /\ pc = "run" /\ ioStopped
    /\ pc' = "sleep"
    /\ UNCHANGED <<listening, ioStopped, accepts, client, stopping, troubles>>

Sleep_NoCheck ==
    /\ pc = "sleep"
    /\ ioStopped' = FALSE
    /\ pc' = "start"
    /\ UNCHANGED <<listening, accepts, client, stopping, troubles>>

Sleep ==
    /\ pc = "sleep"
    /\ ioStopped' = FALSE
    /\ pc' = "check"
    /\ UNCHANGED <<listening, accepts, client, stopping, troubles>>

-----------------------------------------------------------------------------
(* The handlers, which run() calls *)

\* The handshake of the session, or its connection handler.
Accepted == IF EnableSSL THEN "handshake" ELSE "session"

\* Without an error the session goes on and the next accept starts.  A client that has
\* left meanwhile makes remote_endpoint() throw, out of the handler and out of run().
onAccept(c) ==
    /\ Running /\ accepts > 0
    /\ \/ listening /\ client[c] = "connecting"
          /\ client' = [client EXCEPT ![c] = Accepted]
          /\ startAccept(accepts - 1)
          /\ UNCHANGED <<pc, troubles>>
       \/ listening /\ client[c] = "connecting" /\ troubles < MaxTroubles
          /\ client' = [client EXCEPT ![c] = "away"]
          /\ accepts' = accepts - 1 /\ pc' = "sleep" /\ troubles' = troubles + 1
    /\ UNCHANGED <<listening, ioStopped, stopping>>

\* With an error the socket is closed and the next accept starts.
onAcceptError ==
    /\ Running /\ accepts > 0
    /\ IF listening THEN troubles < MaxTroubles /\ troubles' = troubles + 1 ELSE UNCHANGED troubles
    /\ startAccept(accepts - 1)
    /\ UNCHANGED <<listening, ioStopped, pc, client, stopping>>

onHandshake(c) ==
    /\ Running /\ client[c] = "handshake"
    /\ \/ client' = [client EXCEPT ![c] = "session"] /\ UNCHANGED troubles
       \/ /\ troubles < MaxTroubles /\ troubles' = troubles + 1
          /\ client' = [client EXCEPT ![c] = "away"]
    /\ UNCHANGED <<listening, ioStopped, pc, accepts, stopping>>

-----------------------------------------------------------------------------
(* stop() *)

StopAcceptor ==
    /\ stopping = "no"
    /\ listening' = FALSE
    /\ stopping' = "service"
    /\ UNCHANGED <<ioStopped, pc, accepts, client, troubles>>

StopService ==
    /\ stopping = "service"
    /\ ioStopped' = TRUE
    /\ stopping' = "join"
    /\ UNCHANGED <<listening, pc, accepts, client, troubles>>

Join ==
    /\ stopping = "join" /\ pc = "over"
    /\ stopping' = "stopped"
    /\ UNCHANGED <<listening, ioStopped, pc, accepts, client, troubles>>

-----------------------------------------------------------------------------

Connect(c) ==
    /\ client[c] = "away" /\ listening
    /\ client' = [client EXCEPT ![c] = "connecting"]
    /\ UNCHANGED <<listening, ioStopped, pc, accepts, stopping, troubles>>

Thread == Check \/ Start \/ RunReturns \/ Sleep

AcceptNext ==
    \/ Thread \/ onAcceptError \/ StopAcceptor \/ StopService \/ Join
    \/ \E c \in Dialer : onAccept(c) \/ onHandshake(c) \/ Connect(c)

AcceptSpec == AcceptInit /\ [][AcceptNext]_acceptVars

\* The thread and the caller of stop() run, and asio completes what was started.
AcceptFairSpec ==
    /\ AcceptSpec
    /\ WF_acceptVars(Thread) /\ WF_acceptVars(StopService) /\ WF_acceptVars(Join)
    /\ \A c \in Dialer : WF_acceptVars(onAccept(c)) /\ WF_acceptVars(onHandshake(c))

-----------------------------------------------------------------------------
(* Properties *)

\* As long as the io service runs and the acceptor is open one accept waits: no failed
\* accept or handshake and no exception leaves the server deaf, or with two accepts.
AlwaysAccepting == Running /\ listening => accepts = 1

Served(c) == client[c] # "connecting" \/ ~listening
Stopped == stopping \in {"no", "stopped"}

\* A client that connects gets a session, or leaves, or the server is stopped.
ClientServed == \A c \in Dialer : []<>Served(c)

\* stop() returns, wherever the thread of run() is when it is called: also when it
\* sleeps before the restart and is about to reset the service.
StopReturns == []<>Stopped
=============================================================================
