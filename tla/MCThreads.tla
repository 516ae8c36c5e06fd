----------------------------- MODULE MCThreads ------------------------------
(* The components whose threads, timers and callbacks make progress: each is
   checked on an instance of its own, with the fairness its module justifies.     *)
EXTENDS Integers, Sequences, FiniteSets

\* part is the component of a behaviour and never changes; v1 and the others stand for
\* the variables of the component, in the order of its INSTANCE, and are 0 when it has
\* no use for them.
VARIABLES
    part, v1, v2, v3, v4, v5, v6, v7, v8, v9, v10, v11, v12, v13, v14, v15, v16,
    v17, v18, v19

\* One request with a timeout and one request of the peer under the same seq, as both
\* ends count from 1, on a session of the network host.
Sess == INSTANCE Session WITH
    haveNetwork <- v1, actived <- v2, connected <- v3, seq2Callback <- v4, timer <- v5,
    sending <- v6, writeQueue <- v7, writing <- v8, writer <- v9, ioWrite <- v10,
    peer <- v11, inbox <- v12, dropper <- v13, pool <- v14, called <- v15,
    ignored <- v16, terminated <- v17,
    Request <- {1}, Timed <- {1}, PeerSeq <- {1}

\* Node a has b as a static node, and itself by mistake; handshakes fail, connections
\* break, and b may stop.
Net == INSTANCE P2PService WITH
    run <- v1, accepting <- v2, staticNodes <- v3, pendingConns <- v4,
    tcpClient <- v5, sessions <- v6, conn <- v7, troubles <- v8,
    Node <- {"a", "b"}, Conn <- {1, 2}, Static <- [a |-> {"a", "b"}, b |-> {}],
    ListenPort <- [a |-> 1, b |-> 2], Crl <- [a |-> {}, b |-> {}],
    Breaks <- {"session", "handshake"}, MaxTroubles <- 2, MayStop <- {"b"}

\* The same two nodes when they listen on the same port of their machines.
Ports == INSTANCE P2PService WITH
    run <- v1, accepting <- v2, staticNodes <- v3, pendingConns <- v4,
    tcpClient <- v5, sessions <- v6, conn <- v7, troubles <- v8,
    Node <- {"a", "b"}, Conn <- {1, 2}, Static <- [a |-> {"a", "b"}, b |-> {}],
    ListenPort <- [a |-> 1, b |-> 1], Crl <- [a |-> {}, b |-> {}],
    Breaks <- {"session"}, MaxTroubles <- 2, MayStop <- {"b"}

\* topics: The topics of a node change twice and its peer follows them.
\* send: A message to a topic that three nodes follow.
\* push: A message for a topic that three clients follow.
Amop == INSTANCE Topics WITH
    topics <- v1, topicSeq <- v2, setter <- v3, viewTopics <- v4, viewSeq <- v5,
    seqMsg <- v6, asked <- v7, reading <- v8, answer <- v9,
    actived <- v1, nodeIDs <- v2, sent <- v3, handler <- v4, pool <- v5,
    replies <- v6,
    live <- v1, status <- v2, picked <- v3, passed <- v4, pending <- v5,
    current <- v6, exclude <- v7, onResult <- v8, failed <- v9, tries <- v10,
    Topic <- {"t"}, MaxSeq <- 2, Peer <- {"p1", "p2", "p3"},
    Sdk <- {"s1", "s2", "s3"}

\* accept: Two clients connect to the channel port; accepts, handshakes and the io
\* service may fail twice.
\* channel: Two clients of the channel server; the first sends two JSON-RPC
\* requests.
Channel == INSTANCE ChannelServer WITH
    listening <- v1, ioStopped <- v2, pc <- v3, accepts <- v4, client <- v5,
    stopping <- v6, troubles <- v7,
    open <- v1, actived <- v2, mutex <- v3, sendBufferList <- v4, writing <- v5,
    posted <- v6, received <- v7, topics <- v8, sessions <- v9, sessionMutex <- v10,
    seqMutex <- v11, seq2session <- v12, hostTopics <- v13, io <- v14,
    worker <- v15, follower <- v16,
    Dialer <- {"c1", "c2"}, EnableSSL <- TRUE, MaxTroubles <- 2,
    Client <- {"c1", "c2"}, Request <- {"q1", "q2"},
    Asker <- [q1 |-> "c1", q2 |-> "c1"], Topic <- {"t"}

\* A blocking request by node id or by topic to two peers, with two threads in the
\* pool.
Calls == INSTANCE Dispatch WITH
    actived <- v1, nodeList <- v2, registered <- v3, tasks <- v4, busy <- v5,
    caller <- v6, packets <- v7, handled <- v8, sent <- v9,
    Peer <- {"p", "q"}, Group <- {1}, Module <- {1}, ModuleBits <- 2,
    GroupBits <- 2, NodeLists <- {}, Topics <- {{}, {"p", "q"}},
    Worker <- {"w1", "w2"}, MaxPackets <- 1

\* worker: The thread of a module, started and stopped by its owner.
\* queue: Two producers push two items each; two consumers pop, one of them with a
\* time limit.
Work == INSTANCE Workers WITH
    state <- v1, started <- v2, thread <- v3, main <- v4, asleep <- v5,
    queue <- v1, producer <- v2, consumer <- v3, order <- v4,
    Producer <- {"p", "q"}, Consumer <- {"c", "d"}, Patient <- {"c"}, MaxItems <- 2

\* The sealer and the engine of a Raft leader over two blocks.
Commit == INSTANCE RaftCommit WITH
    role <- v1, stored <- v2, number <- v3, next <- v4, waiting <- v5, ready <- v6,
    height <- v7, highest <- v8, sealing <- v9, sealer <- v10, engine <- v11,
    MaxNumber <- 2

\* One transaction, submitted to any of three nodes; the pool of b has room for one.
Gossip == INSTANCE TxGossip WITH
    pool <- v1, done <- v2, knownBy <- v3, newTxs <- v4, downloading <- v5,
    peers <- v6, thread <- v7, net <- v8, missed <- v9, troubles <- v10,
    Node <- {"a", "b", "c"}, Tx <- {"t"}, PoolLimit <- [a |-> 2, b |-> 1, c |-> 2],
    SendLimit <- 1, MayDownload <- {}, MayCommit <- {}, MaxTroubles <- 0

\* Two transactions in two pools that send one at a time.
Packets == INSTANCE TxGossip WITH
    pool <- v1, done <- v2, knownBy <- v3, newTxs <- v4, downloading <- v5,
    peers <- v6, thread <- v7, net <- v8, missed <- v9, troubles <- v10,
    Node <- {"a", "b"}, Tx <- {"t", "u"}, PoolLimit <- [a |-> 2, b |-> 2],
    SendLimit <- 1, MayDownload <- {}, MayCommit <- {}, MaxTroubles <- 0

\* Block sync of a node that has no block, and asks for one block in a turn, with a peer
\* that has one; the peer commits another, and a session, a timer, a refused block, a
\* download of the peer or the engine interferes once.
Sync == INSTANCE SyncMaster WITH
    number <- v1, sealingNumber <- v2, state <- v3, knownHighest <- v4,
    maxRequest <- v5, waiting <- v6, peerStatus <- v7, buffer <- v8, blocks <- v9,
    thread <- v10, sessions <- v11, peerNumber <- v12, knownBy <- v13,
    reqQueue <- v14, answering <- v15, peerSyncing <- v16, net <- v17, dropped <- v18,
    troubles <- v19,
    Peer <- {"a"}, InitPeerNumber <- [a |-> 1], RequestBlocks <- 1,
    RequestShards <- 1, QueueSize <- 4, BufferSize <- 2, RequestQueueSize <- 2,
    MaxNumber <- 2, MaxTroubles <- 1

-----------------------------------------------------------------------------
\* The variables that a component with this many of them leaves alone.
Zero17 == v18 = 0 /\ v19 = 0
Zero16 == v17 = 0 /\ Zero17
Zero11 == v12 = 0 /\ v13 = 0 /\ v14 = 0 /\ v15 = 0 /\ v16 = 0 /\ Zero16
Zero10 == v11 = 0 /\ Zero11
Zero9 == v10 = 0 /\ Zero10
Zero8 == v9 = 0 /\ Zero9
Zero7 == v8 = 0 /\ Zero8
Zero6 == v7 = 0 /\ Zero7
Zero5 == v6 = 0 /\ Zero6
Zero4 == v5 = 0 /\ Zero5
Same17 == UNCHANGED <<v18, v19>>
Same16 == UNCHANGED <<v17>> /\ Same17
Same11 == UNCHANGED <<v12, v13, v14, v15, v16>> /\ Same16
Same10 == UNCHANGED <<v11>> /\ Same11
Same9 == UNCHANGED <<v10>> /\ Same10
Same8 == UNCHANGED <<v9>> /\ Same9
Same7 == UNCHANGED <<v8>> /\ Same8
Same6 == UNCHANGED <<v7>> /\ Same7
Same5 == UNCHANGED <<v6>> /\ Same6
Same4 == UNCHANGED <<v5>> /\ Same5

all == <<part, v1, v2, v3, v4, v5, v6, v7, v8, v9, v10, v11, v12, v13, v14, v15, v16, v17, v18,
         v19>>

PartInit ==
    \/ part = "session" /\ Sess!Init /\ Zero17
    \/ part = "p2p" /\ Net!Init /\ Zero8
    \/ part = "ports" /\ Ports!Init /\ Zero8
    \/ part = "topics" /\ Amop!ViewInit /\ Zero9
    \/ part = "send" /\ Amop!SendInit /\ Zero6
    \/ part = "accept" /\ Channel!AcceptInit /\ Zero7
    \/ part = "dispatch" /\ Calls!Init /\ Zero9
    \/ part = "worker" /\ Work!WorkerInit /\ Zero5
    \/ part = "commit" /\ Commit!Init /\ Zero11
    \/ part = "gossip" /\ Gossip!Init /\ Zero10
    \/ part = "packets" /\ Packets!Init /\ Zero10
    \/ part = "queue" /\ Work!QueueInit /\ Zero4
    \/ part = "sync" /\ Sync!Init
    \/ part = "channel" /\ Channel!RpcInit /\ Zero16
    \/ part = "push" /\ Amop!PushInit /\ Zero10

PartNext ==
    /\ UNCHANGED part
    /\ \/ part = "session" /\ Sess!Next /\ Same17
       \/ part = "p2p" /\ Net!Next /\ Same8
       \/ part = "ports" /\ Ports!Next /\ Same8
       \/ part = "topics" /\ Amop!ViewNext /\ Same9
       \/ part = "send" /\ Amop!SendNext /\ Same6
       \/ part = "accept" /\ Channel!AcceptNext /\ Same7
       \/ part = "dispatch" /\ Calls!Next /\ Same9
       \/ part = "worker" /\ Work!WorkerNext /\ Same5
       \/ part = "commit" /\ Commit!Next /\ Same11
       \/ part = "gossip" /\ Gossip!Next /\ Same10
       \/ part = "packets" /\ Packets!Next /\ Same10
       \/ part = "queue" /\ Work!QueueNext /\ Same4
       \/ part = "sync" /\ Sync!Next
       \/ part = "channel" /\ Channel!RpcNext /\ Same16
       \/ part = "push" /\ Amop!PushNext /\ Same10

PartSpec == PartInit /\ [][PartNext]_all

\* The i-th step that a component is sure to take when it stays enabled; its module says
\* what justifies the fairness.  A behaviour runs one component, so that one condition
\* for each i does for all.
FairStep(i) ==
    \/ /\ part = "session" /\ UNCHANGED part /\ Same17
       /\ \/ (i = 1 /\ Sess!GoOn(<<"request", 1>>))
          \/ (i = 2 /\ Sess!GoOn(<<"answer", 1>>)) \/ (i = 3 /\ Sess!Drops("io"))
          \/ (i = 4 /\ Sess!Drops("user")) \/ (i = 5 /\ Sess!Settle(1))
          \/ (i = 6 /\ Sess!Drain) \/ (i = 7 /\ Sess!Calls(1, "inactive"))
          \/ (i = 8 /\ Sess!Calls(1, "disconnect"))
          \/ (i = 9 /\ Sess!Calls(1, "ok")) \/ (i = 10 /\ Sess!Calls(1, "timeout"))
    \/ /\ part = "p2p" /\ UNCHANGED part /\ Same8
       /\ \/ (i = 1 /\ Net!HeartBeat("a", "a"))
          \/ (i = 2 /\ Net!HeartBeat("a", "b")) \/ (i = 3 /\ Net!ConnStep(1))
          \/ (i = 4 /\ Net!ConnStep(2))
    \/ /\ part = "ports" /\ UNCHANGED part /\ Same8
       /\ \/ (i = 1 /\ Ports!HeartBeat("a", "a"))
          \/ (i = 2 /\ Ports!HeartBeat("a", "b")) \/ (i = 3 /\ Ports!ConnStep(1))
          \/ (i = 4 /\ Ports!ConnStep(2))
    \/ /\ part = "topics" /\ UNCHANGED part /\ Same9
       /\ \/ (i = 1 /\ Amop!IncreaseTopicSeq) \/ (i = 2 /\ Amop!HeartBeat)
          \/ (i = 3 /\ Amop!OnTopicSeq) \/ (i = 4 /\ Amop!OnRequestTopics)
          \/ (i = 5 /\ Amop!SendTopics)
    \/ /\ part = "send" /\ UNCHANGED part /\ Same6
       /\ \/ (i = 1 /\ Amop!Settle("p1")) \/ (i = 2 /\ Amop!Settle("p2"))
          \/ (i = 3 /\ Amop!Settle("p3"))
          \/ (i = 4 /\ Amop!OnResponse(Amop!Failure("p1")))
          \/ (i = 5 /\ Amop!OnResponse(Amop!Failure("p2")))
          \/ (i = 6 /\ Amop!OnResponse(Amop!Failure("p3")))
          \/ (i = 7 /\ Amop!OnResponse(Amop!Success("p1")))
          \/ (i = 8 /\ Amop!OnResponse(Amop!Success("p2")))
          \/ (i = 9 /\ Amop!OnResponse(Amop!Success("p3")))
          \/ (i = 10 /\ Amop!OnResponse(Amop!NotFound))
    \/ /\ part = "accept" /\ UNCHANGED part /\ Same7
       /\ \/ (i = 1 /\ Channel!Thread) \/ (i = 2 /\ Channel!StopService)
          \/ (i = 3 /\ Channel!Join) \/ (i = 4 /\ Channel!onAccept("c1"))
          \/ (i = 5 /\ Channel!onAccept("c2"))
          \/ (i = 6 /\ Channel!onHandshake("c1"))
          \/ (i = 7 /\ Channel!onHandshake("c2"))
    \/ /\ part = "dispatch" /\ UNCHANGED part /\ Same9
       /\ \/ (i = 1 /\ Calls!Work("w1")) \/ (i = 2 /\ Calls!Work("w2"))
          \/ (i = 3 /\ Calls!Return)
    \/ /\ part = "worker" /\ UNCHANGED part /\ Same5
       /\ \/ (i = 1 /\ Work!MainStep) \/ (i = 2 /\ Work!ThreadStep)
    \/ /\ part = "commit" /\ UNCHANGED part /\ Same11
       /\ \/ (i = 1 /\ Commit!SealerSteps)
    \/ /\ part = "gossip" /\ UNCHANGED part /\ Same10
       /\ \/ (i = 1 /\ Gossip!SyncStep("a")) \/ (i = 2 /\ Gossip!SyncStep("b"))
          \/ (i = 3 /\ Gossip!SyncStep("c")) \/ (i = 4 /\ Gossip!HandleOne)
    \/ /\ part = "packets" /\ UNCHANGED part /\ Same10
       /\ \/ (i = 1 /\ Packets!SyncStep("a")) \/ (i = 2 /\ Packets!SyncStep("b"))
          \/ (i = 3 /\ Packets!HandleOne)
    \/ /\ part = "queue" /\ UNCHANGED part /\ Same4
       /\ \/ (i = 1 /\ Work!notify_one("p")) \/ (i = 2 /\ Work!notify_one("q"))
          \/ (i = 3 /\ Work!wait("c")) \/ (i = 4 /\ Work!wait("d"))
    \/ /\ part = "sync" /\ UNCHANGED part
       /\ \/ (i = 1 /\ Sync!SyncThread) \/ (i = 2 /\ Sync!RequestTimeout)
          \/ (i = 3 /\ Sync!OnPeerStatus) \/ (i = 4 /\ Sync!OnPeerBlocks)
          \/ (i = 5 /\ Sync!OnPeerRequestBlocks)
          \/ (i = 6 /\ Sync!NoteSealingBlockNumber)
          \/ (i = 7 /\ Sync!Responder("a")) \/ (i = 8 /\ Sync!Broadcast("a"))
          \/ (i = 9 /\ Sync!Connect("a"))

PartFairness ==
    /\ \A i \in 1..10 : WF_all(FairStep(i))

PartFairSpec == PartSpec /\ PartFairness

-----------------------------------------------------------------------------
(* Properties *)

\* Whoever waits for a thread has one that comes. No message stays in the write
\* queue of a live session with nobody to write it, and when Session::drop has ended
\* every callback was called or is sure to be, unless addSeqCallback ignored it because
\* the peer has asked under the same seq; as long as the channel server runs exactly one
\* accept waits (ChannelServer::startAccept); and a live client session with buffers to
\* send is writing, one buffer at a time (ChannelSession::writeBuffer).
NoLostWakeup ==
    /\ part = "session" => Sess!TypeOK /\ Sess!WriterExists /\ Sess!DropSettles
                          /\ Sess!IgnoredCollide
    /\ part = "accept" => Channel!AlwaysAccepting
    /\ part = "channel" => Channel!AnswersFlow

\* What a thread may rely on after another has handed over. When Worker::stopWorking
\* has returned the thread is not in doWork and does not enter it; a sealer that
\* RaftEngine::commit wakes without a block finds no number either, as its assertion
\* says; and every item pushed on a concurrent_queue is in it or was taken once, in
\* the order of the pushes.
HandOverSound ==
    /\ part = "worker" => Work!StopIsQuiet
    /\ part = "commit" => Commit!CommitAssertion
    /\ part = "queue" => Work!InOrder

\* What a node believes of its peers and clients. A session started and not stopped
\* is the one m_sessions has for its node (Service::onConnect, onDisconnect); the
\* topics a session has for its peer are right when the seqs agree
\* (Service::setTopics, onReceiveTopics); unless a thread is about to call
\* updateHostTopics the service has the topics of the registered clients; and
\* asyncPushChannelMessage tries a message with a client once, and once more at most
\* for each other client it finds inactive.
PeersKnown ==
    /\ part = "p2p" => Net!NoOrphanSession
    /\ part = "ports" => Ports!NoOrphanSession
    /\ part = "topics" => Amop!ViewFresh
    /\ part = "channel" => Channel!TopicsPublished
    /\ part = "push" => Amop!RetriesBounded

\* Whoever asks gets an answer, whatever becomes of the sessions and the nodes: the
\* callback of Host::asyncSendMessage with a timeout is called, the client of
\* asyncSendMessageByTopic gets a reply, sendMessageByNodeID and sendMessageByTopic
\* return unless a live peer keeps silent, and a client that connects to the channel
\* port gets a session unless it leaves or the server stops.
AskersAnswered ==
    /\ []<>(part = "session" => Sess!Settled(1))
    /\ []<>(part = "send" => Amop!Answered)
    /\ []<>(part = "dispatch" => Calls!Returned)
    /\ \A c \in {"c1", "c2"} : []<>(part = "accept" => Channel!Served(c))

\* Nobody waits for ever: ChannelServer::stop returns, wherever the thread of run()
\* is; every call of startWorking, stopWorking and terminate of a Worker returns;
\* RaftEngine::commit returns if the node is a follower again and again; and what is
\* pushed on a concurrent_queue is taken, although push notifies without the mutex.
ThreadsReturn ==
    /\ []<>(part = "accept" => Channel!Stopped)
    /\ []<>(part = "worker" => Work!Returned)
    /\ []<><<part = "commit" /\ Commit!SwitchToFollower>>_all => []<>(part = "commit" => Commit!Returned)
    /\ []<>(part = "queue" => Work!Empty)

\* Service::heartBeat connects a running node again and again with its running
\* static node, unless a failed handshake has left that node deaf or heartBeat takes
\* it for this one; it tells a peer the topics of a node for good once they no longer
\* change, although answers are lost and overtake each other; and
\* SyncMaster::maintainTransactions brings a transaction that one pool took in to
\* every pool, although most nodes pass it on to a quarter of their peers, unless
\* more than the limit of one packet were waiting with it.
NetworkHeals ==
    /\ []<>(part = "p2p" => Net!Heals("a", "b"))
    /\ []<>(part = "ports" => Ports!Heals("a", "b"))
    /\ (SF_all(part = "topics" /\ Amop!OnTopics /\ UNCHANGED part /\ Same9) /\ <>[](part = "topics" => Amop!Settled))
        => <>[](part = "topics" => Amop!Learnt)
    /\ []<>(part = "gossip" => Gossip!Reached("t"))
    /\ \A t \in {"t", "u"} : []<>(part = "packets" => Packets!Reached(t))

\* SyncMaster: every block a peer has is committed in the end, by sync or by the
\* engine; and a download ends, so that the node is ready to seal again and again.
SyncCompletes ==
    /\ \A n \in 1..2 : []<>(part = "sync" => Sync!CaughtUp(n))
    /\ []<>(part = "sync" => Sync!Idle)
=============================================================================
