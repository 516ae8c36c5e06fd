----------------------------- MODULE SyncMaster -----------------------------
(***************************************************************************)
(* Block sync: the sync thread of a node (SyncMaster::doWork) that finds   *)
(* out that it is behind, asks its peers for ranges of blocks, queues what *)
(* arrives and commits it in order.  It runs beside the handlers of the    *)
(* packets (SyncMsgEngine), which the thread pool of the network calls in  *)
(* any order, and the consensus engine, which commits blocks of its own    *)
(* and tells block sync what it is sealing.  Of the peers, which run the   *)
(* same code, the part that answers requests is modelled, which waits      *)
(* while the peer downloads blocks itself.  All chains are                 *)
(* prefixes of one chain, so a block is its number.                        *)
(***************************************************************************)
EXTENDS Integers, Sequences, FiniteSets, Bags, SequencesExt, FiniteSetsExt

CONSTANTS
    Peer,              \* the other nodes of the group
    InitPeerNumber,    \* their block numbers at the start
    RequestBlocks,     \* c_maxRequestBlocks, blocks in a shard
    RequestShards,     \* c_maxRequestShards, shards requested in a turn
    QueueSize,         \* c_maxDownloadingBlockQueueSize
    BufferSize,        \* c_maxDownloadingBlockQueueBufferSize
    RequestQueueSize,  \* c_maxReceivedDownloadRequestPerPeer
    MaxNumber,         \* bound: the length of the chain
    MaxTroubles        \* bound: lost sessions, timeouts while an answer is under way,
                       \* refused blocks, downloads of the peers and blocks that the
                       \* engine executes

VARIABLES
    number,        \* m_blockChain->number()
    sealingNumber, \* m_currentSealingNumber
    state,         \* m_syncStatus->state
    knownHighest,  \* m_syncStatus->knownHighestNumber
    maxRequest,    \* m_maxRequestNumber
    waiting,       \* m_lastDownloadingRequestTime is less than the timeout ago
    peerStatus,    \* m_peersStatus: the number each known peer has told
    buffer,        \* m_buffer: the shards that have arrived
    blocks,        \* m_blocks: how often each number is in the queue
    thread,        \* the sync thread: next step, currentNumber, maxPeerNumber
    sessions,      \* the peers that are connected
    peerNumber,    \* the block number of each peer
    knownBy,       \* the peers that have a SyncPeerStatus of this node
    reqQueue,      \* their reqQueue for this node, a bag of ranges of numbers
    answering,     \* the range a peer is answering; push is disabled meanwhile
    peerSyncing,   \* the peers whose own state is Downloading
    net,           \* packets sent and not yet handled
    dropped,       \* history: a request or a block above the number was dropped
    troubles       \* how many of them there have been

chainVars == <<number, sealingNumber>>
download == <<state, knownHighest, maxRequest, waiting>>
queueVars == <<buffer, blocks>>
peerSide == <<peerNumber, knownBy, reqQueue, answering, peerSyncing>>
vars == <<chainVars, download, queueVars, peerStatus, thread, peerSide, sessions, net, dropped,
          troubles>>

Number == 1..MaxNumber
Span(from, to) == [from |-> from, to |-> to]
NoSpan == Span(0, -1)
Packet(type, p, from, to) == [type |-> type, peer |-> p, from |-> from, to |-> to]
Status(p, n) == Packet("status", p, n, n)
Received(type) == {m \in net : m.type = type}

EmptyQueue == [n \in Number |-> 0]
Size(q) == MapThenSumSet(LAMBDA n : q[n], Number)
Queued(q) == {n \in Number : q[n] > 0}
Top(q) == Min(Queued(q))
Pop(q) == [q EXCEPT ![Top(q)] = @ - 1]

\* The locals currentNumber and maxPeerNumber are not used any more.
Step(pc) == thread' = [pc |-> pc, cur |-> 0, maxPeer |-> 0]

-----------------------------------------------------------------------------
(* The queue of downloaded blocks *)

ClearFullQueueIfNotHas(q, n) == IF Size(q) = QueueSize /\ Top(q) > n THEN EmptyQueue ELSE q

\* A shard is added when there is room for one block; blocks that the chain has are
\* left out.  The first shard without room ends the flush, and the rest is dropped.
FlushBufferToQueue(q) ==
    FoldSeq(LAMBDA shard, acc :
                IF Size(acc) >= QueueSize THEN acc
                ELSE [n \in Number |-> acc[n] +
                        IF n \in shard.from..shard.to /\ n > number THEN 1 ELSE 0],
            q, buffer)

Arrived == UNION {buffer[i].from..buffer[i].to : i \in DOMAIN buffer}

MaintainPeersConnection ==
    /\ thread.pc = "connection"
    /\ peerStatus' = [p \in sessions |-> IF p \in DOMAIN peerStatus THEN peerStatus[p] ELSE 0]
    /\ Step("buffer")
    /\ UNCHANGED <<chainVars, download, queueVars, peerSide, sessions, net, dropped, troubles>>

MaintainDownloadingQueueBuffer ==
    /\ thread.pc = "buffer"
    /\ blocks' = IF state = "Downloading"
                 THEN FlushBufferToQueue(ClearFullQueueIfNotHas(blocks, number + 1))
                 ELSE EmptyQueue
    /\ buffer' = <<>>
    /\ dropped' = (dropped \/ Size(blocks') >= QueueSize
                    \/ \E n \in Queued(blocks) \cup Arrived : n > number /\ blocks'[n] = 0)
    /\ Step("status")
    /\ UNCHANGED <<chainVars, download, peerStatus, peerSide, sessions, net, troubles>>

-----------------------------------------------------------------------------
(* maintainPeersStatus *)

HighestPeer == Max({peerStatus[p] : p \in DOMAIN peerStatus} \cup {0})

KnownHighest(maxPeer) == IF maxPeer > number THEN maxPeer ELSE knownHighest

\* The first half reads the number and the highest number of a peer.
MaintainPeersStatus ==
    /\ thread.pc = "status"
    /\ thread' = [pc |-> "request", cur |-> number, maxPeer |-> HighestPeer]
    /\ knownHighest' = KnownHighest(HighestPeer)
    /\ UNCHANGED <<chainVars, state, maxRequest, waiting, queueVars, peerStatus,
                   peerSide, sessions, net, dropped, troubles>>

NoNeed_OneBehind == thread.maxPeer <= sealingNumber + 1

NoNeed == thread.maxPeer <= sealingNumber

Shards(cur, max) ==
    LET shardNumber == (max - cur + RequestBlocks - 1) \div RequestBlocks
        from(i) == cur + 1 + i * RequestBlocks
    IN  [i \in 1..Min({shardNumber, RequestShards}) |->
            Span(from(i - 1), Min({from(i - 1) + RequestBlocks - 1, max}))]

Serves(shard) == {p \in DOMAIN peerStatus : peerStatus[p] >= shard.to}

\* Each shard is requested from a peer that has all of it, up to the first shard
\* that no peer has.  A packet to a peer without a session goes nowhere.
RequestShardsOf(max) ==
    LET shards == Shards(thread.cur, max)
        found == {i \in DOMAIN shards : \A j \in 1..i : Serves(shards[j]) # {}}
    IN  /\ \E chosen \in [found -> Peer] :
              /\ \A i \in found : chosen[i] \in Serves(shards[i])
              /\ net' = net \cup {Packet("req", chosen[i], shards[i].from, shards[i].to) :
                                    i \in {j \in found : chosen[j] \in sessions}}
        /\ maxRequest' = Max({shards[i].to : i \in found} \cup {0})

\* The second half: unless the node is mining, has what its peers have, or waits
\* for the answers of the last turn, a turn of requests starts.
StartDownload ==
    /\ thread.pc = "request"
    /\ \/ /\ NoNeed \/ waiting
          /\ UNCHANGED <<net, maxRequest, waiting, state>>
       \/ /\ ~NoNeed /\ ~waiting
          /\ waiting' = TRUE
          /\ state' = "Downloading"
          /\ LET max == IF Queued(blocks) = {} THEN thread.maxPeer
                        ELSE Min({thread.maxPeer, Top(blocks) - 1})
             IN  \/ thread.cur >= max /\ UNCHANGED <<net, maxRequest>>
                 \/ thread.cur < max /\ RequestShardsOf(max)
    /\ Step(IF state' = "Idle" THEN "connection" ELSE "queue")
    /\ UNCHANGED <<chainVars, knownHighest, queueVars, peerStatus, peerSide, sessions, dropped, troubles>>

-----------------------------------------------------------------------------
(* maintainDownloadingQueue *)

\* A node that has reached the known height stops here; its request timer runs on.
AlreadyFinished ==
    /\ thread.pc = "queue"
    /\ IF number >= knownHighest
       THEN state' = "Idle" /\ Step("connection")
       ELSE state' = state /\ Step("pop")
    /\ UNCHANGED <<chainVars, knownHighest, maxRequest, waiting, queueVars, peerStatus,
                   peerSide, sessions, net, dropped, troubles>>

Trouble == troubles < MaxTroubles /\ troubles' = troubles + 1

HasTop == Queued(blocks) # {} /\ Top(blocks) <= number + 1

\* isNewBlock: the top is executed when it is the next block, and else dropped.
CheckTop ==
    /\ thread.pc = "pop" /\ HasTop
    /\ IF Top(blocks) = number + 1
       THEN blocks' = blocks /\ Step("commit")
       ELSE blocks' = Pop(blocks) /\ Step("pop")
    /\ UNCHANGED <<chainVars, download, buffer, peerStatus, peerSide, sessions, net, dropped, troubles>>

\* The next block is refused by isNewBlock, as the engine goes by an older list of miners
\* than the block, or executeBlock throws: it is popped as well.
RefuseTop ==
    /\ thread.pc = "pop" /\ HasTop /\ Top(blocks) = number + 1 /\ Trouble
    /\ blocks' = Pop(blocks) /\ Step("pop")
    /\ dropped' = TRUE
    /\ UNCHANGED <<chainVars, download, buffer, peerStatus, peerSide, sessions, net>>

\* commitBlock refuses a block that the engine has committed meanwhile.
CommitTop ==
    /\ thread.pc = "commit"
    /\ number' = IF Top(blocks) = number + 1 THEN number + 1 ELSE number
    /\ blocks' = Pop(blocks)
    /\ Step("pop")
    /\ UNCHANGED <<sealingNumber, download, buffer, peerStatus, peerSide, sessions, net, dropped, troubles>>

\* The end of the turn resets the timer, the known height ends the download.
TurnEnds ==
    /\ thread.pc = "pop" /\ ~HasTop
    /\ waiting' = (waiting /\ number < maxRequest)
    /\ state' = IF number >= knownHighest THEN "Idle" ELSE state
    /\ Step("connection")
    /\ UNCHANGED <<chainVars, knownHighest, maxRequest, queueVars, peerStatus, peerSide,
                   sessions, net, dropped, troubles>>

SyncThread ==
    \/ MaintainPeersConnection \/ MaintainDownloadingQueueBuffer
    \/ MaintainPeersStatus \/ StartDownload
    \/ AlreadyFinished \/ CheckTop \/ RefuseTop \/ CommitTop \/ TurnEnds

\* The answer to a request is on its way.
UnderWay ==
    \/ Received("req") \cup Received("blocks") # {}
    \/ \E p \in Peer : reqQueue[p] # EmptyBag \/ answering[p] # NoSpan
    \/ buffer # <<>>

\* c_downloadingRequestTimeout has passed since the last turn of requests.
RequestTimeout ==
    /\ waiting
    /\ \/ ~UnderWay /\ UNCHANGED troubles
       \/ UnderWay /\ Trouble
    /\ waiting' = FALSE
    /\ UNCHANGED <<chainVars, state, knownHighest, maxRequest, queueVars, peerStatus, thread,
                   peerSide, sessions, net, dropped>>

-----------------------------------------------------------------------------
(* The handlers of packets *)

\* A status may be one the peer sent long ago, and may come from a peer that has
\* been deleted, which it adds again.
OnPeerStatus ==
    \E m \in Received("status") :
        /\ net' = net \ {m}
        /\ peerStatus' = [p \in DOMAIN peerStatus \cup {m.peer} |->
                            IF p = m.peer THEN m.from ELSE peerStatus[p]]
        /\ UNCHANGED <<chainVars, download, queueVars, thread, peerSide, sessions, dropped, troubles>>

BufferIsFull == Len(buffer) >= BufferSize

OnPeerBlocks ==
    \E m \in Received("blocks") :
        /\ net' = net \ {m}
        /\ buffer' = IF BufferIsFull THEN buffer ELSE Append(buffer, Span(m.from, m.to))
        /\ dropped' = (dropped \/ BufferIsFull)
        /\ UNCHANGED <<chainVars, download, blocks, peerStatus, thread, peerSide, sessions, troubles>>

-----------------------------------------------------------------------------
(* A peer answers requests *)

\* DownloadRequestQueue::push; what the full queue cannot take is dropped, and a range
\* that is there already takes a place as well.
Push(p, range) ==
    LET full == BagCardinality(reqQueue[p]) >= RequestQueueSize
    IN  /\ reqQueue' = IF full THEN reqQueue
                       ELSE [reqQueue EXCEPT ![p] = @ (+) SetToBag({range})]
        /\ dropped' = (dropped \/ full)

\* A request is dropped while the queue is answered, and by a peer that does not
\* know this node.
OnPeerRequestBlocks ==
    \E m \in Received("req") :
        /\ net' = net \ {m}
        /\ \/ /\ m.peer \in knownBy /\ answering[m.peer] = NoSpan
              /\ Push(m.peer, Span(m.from, m.to))
           \/ /\ m.peer \notin knownBy \/ answering[m.peer] # NoSpan
              /\ reqQueue' = reqQueue /\ dropped' = TRUE
        /\ UNCHANGED <<chainVars, download, queueVars, peerStatus, thread, peerNumber, knownBy,
                       answering, peerSyncing, sessions, troubles>>

\* topAndPop: the requests whose ranges join the first ones without a gap.
Merged(queue) ==
    LET first == Min({r.from : r \in queue})
        joins(r) == \A n \in first..(r.from - 1) :
                        \E q \in queue : q.from <= n /\ n <= q.to
    IN  {r \in queue : joins(r)}

\* topAndPop, all copies of a merged range included.
TopAndPop(p) ==
    LET merged == Merged(BagToSet(reqQueue[p]))
    IN  /\ answering' = [answering EXCEPT ![p] = Span(Min({r.from : r \in merged}),
                                                       Max({r.to : r \in merged}))]
        /\ reqQueue' = [reqQueue EXCEPT ![p] = [r \in BagToSet(@) \ merged |-> @[r]]]

\* Only an idle peer answers.
MaintainBlockRequest(p) ==
    /\ p \notin peerSyncing /\ reqQueue[p] # EmptyBag /\ answering[p] = NoSpan
    /\ TopAndPop(p)
    /\ UNCHANGED <<chainVars, download, queueVars, peerStatus, thread, peerNumber, knownBy,
                   peerSyncing, sessions, net, dropped, troubles>>

\* The blocks in order, until one is missing or the time to respond is over (which
\* lets at least one through); the rest of the range goes back to the queue.  While there
\* is time, push stays disabled and the next range follows.
Sent(p) ==
    LET ans == answering[p]
    IN  IF ans.from > peerNumber[p] THEN {ans.from - 1}
        ELSE ans.from..Min({ans.to, peerNumber[p]})

RestOf_SkipsOne(p, upto) == Span(upto + 2, answering[p].to)

RestOf(p, upto) == Span(upto + 1, answering[p].to)

SendBlocks(p) ==
    /\ answering[p] # NoSpan
    /\ \E upto \in Sent(p) :
          /\ net' = IF p \notin sessions \/ upto < answering[p].from THEN net
                    ELSE net \cup {Packet("blocks", p, answering[p].from, upto)}
          /\ \/ /\ upto < answering[p].to /\ Push(p, RestOf(p, upto))
                /\ answering' = [answering EXCEPT ![p] = NoSpan]
             \/ /\ upto = answering[p].to /\ UNCHANGED <<reqQueue, dropped>>
                /\ answering' = [answering EXCEPT ![p] = NoSpan]
             \/ /\ upto = answering[p].to /\ UNCHANGED dropped
                /\ reqQueue[p] # EmptyBag /\ TopAndPop(p)
    /\ UNCHANGED <<chainVars, download, queueVars, peerStatus, thread, peerNumber, knownBy,
                   peerSyncing, sessions, troubles>>

\* The peer's maintainPeersConnection: it learns of this node, or forgets it.  The
\* status this node sends to a new peer has the first effect as well.
PeerConnection(p) ==
    /\ answering[p] = NoSpan
    /\ (p \in sessions) # (p \in knownBy)
    /\ knownBy' = IF p \in sessions THEN knownBy \cup {p} ELSE knownBy \ {p}
    /\ reqQueue' = [reqQueue EXCEPT ![p] = EmptyBag]
    /\ UNCHANGED <<chainVars, download, queueVars, peerStatus, thread, peerNumber, answering,
                   peerSyncing, sessions, net, dropped, troubles>>

\* maintainBlocks of an idle peer, every five seconds and after every block.
Broadcast(p) ==
    /\ p \in knownBy \cap sessions /\ p \notin peerSyncing
    /\ Status(p, peerNumber[p]) \notin net
    /\ p \in DOMAIN peerStatus => peerStatus[p] # peerNumber[p]
    /\ net' = net \cup {Status(p, peerNumber[p])}
    /\ UNCHANGED <<chainVars, download, queueVars, peerStatus, thread, peerSide, sessions, dropped, troubles>>

PeerCommits(p) ==
    /\ peerNumber[p] < MaxNumber
    /\ peerNumber' = [peerNumber EXCEPT ![p] = @ + 1]
    /\ UNCHANGED <<chainVars, download, queueVars, peerStatus, thread, knownBy, reqQueue,
                   answering, peerSyncing, sessions, net, dropped, troubles>>

\* The state of the peer's own sync thread.  DownloadEnds is why it does not stay so.
PeerDownloads(p) ==
    /\ p \notin peerSyncing /\ answering[p] = NoSpan /\ Trouble
    /\ peerSyncing' = peerSyncing \cup {p}
    /\ UNCHANGED <<chainVars, download, queueVars, peerStatus, thread, peerNumber, knownBy,
                   reqQueue, answering, sessions, net, dropped>>

PeerFinishes(p) ==
    /\ p \in peerSyncing
    /\ peerSyncing' = peerSyncing \ {p}
    /\ UNCHANGED <<chainVars, download, queueVars, peerStatus, thread, peerNumber, knownBy,
                   reqQueue, answering, sessions, net, dropped, troubles>>

-----------------------------------------------------------------------------
(* The network and the consensus engine *)

\* A session is lost with some of the packets; the others have been read already.
Disconnect(p) ==
    /\ p \in sessions /\ Trouble
    /\ sessions' = sessions \ {p}
    /\ dropped' = TRUE
    /\ \E gone \in SUBSET {m \in net : m.peer = p} : net' = net \ gone
    /\ UNCHANGED <<chainVars, download, queueVars, peerStatus, thread, peerSide>>

\* The heart beat of the service connects to the static nodes again.
Connect(p) ==
    /\ p \notin sessions
    /\ sessions' = sessions \cup {p}
    /\ UNCHANGED <<chainVars, download, queueVars, peerStatus, thread, peerSide, net, dropped,
                   troubles>>

\* execBlock: a prepared block is being sealed.
ExecBlock ==
    /\ Trouble
    /\ sealingNumber' = number + 1
    /\ UNCHANGED <<number, download, queueVars, peerStatus, thread, peerSide, sessions, net, dropped>>

\* The sealer after a new block, and the engine after a view change or a failed
\* commit: nothing is being sealed.
NoteSealingBlockNumber ==
    /\ sealingNumber # number
    /\ sealingNumber' = number
    /\ UNCHANGED <<number, download, queueVars, peerStatus, thread, peerSide, sessions, net, dropped, troubles>>

\* checkAndSave commits the block that was prepared.
EngineCommits ==
    /\ sealingNumber = number + 1 /\ number < MaxNumber
    /\ number' = number + 1
    /\ UNCHANGED <<sealingNumber, download, queueVars, peerStatus, thread, peerSide, sessions,
                   net, dropped, troubles>>

-----------------------------------------------------------------------------
Init ==
    /\ number = 0 /\ sealingNumber = 0
    /\ state = "Idle" /\ knownHighest = 0 /\ maxRequest = 0 /\ waiting = FALSE
    /\ buffer = <<>> /\ blocks = EmptyQueue
    /\ peerStatus = [p \in {} |-> 0]
    /\ thread = [pc |-> "connection", cur |-> 0, maxPeer |-> 0]
    /\ peerNumber = InitPeerNumber /\ knownBy = {}
    /\ reqQueue = [p \in Peer |-> EmptyBag] /\ answering = [p \in Peer |-> NoSpan]
    /\ peerSyncing = {}
    /\ sessions = Peer /\ net = {} /\ dropped = FALSE /\ troubles = 0

Handler == OnPeerStatus \/ OnPeerBlocks \/ OnPeerRequestBlocks

Responder(p) ==
    MaintainBlockRequest(p) \/ SendBlocks(p) \/ PeerConnection(p) \/ PeerFinishes(p)

Engine == ExecBlock \/ NoteSealingBlockNumber \/ EngineCommits

Next ==
    \/ SyncThread \/ RequestTimeout \/ Handler \/ Engine
    \/ \E p \in Peer : \/ Responder(p) \/ Broadcast(p) \/ PeerCommits(p) \/ PeerDownloads(p)
                       \/ Disconnect(p) \/ Connect(p)

Spec == Init /\ [][Next]_vars

(* The threads run, packets of a session that lasts arrive, peers answer and *)
(* repeat their status, the timers run out and the heart beat reconnects.    *)
Fairness ==
    /\ WF_vars(SyncThread) /\ WF_vars(RequestTimeout)
    /\ WF_vars(OnPeerStatus) /\ WF_vars(OnPeerBlocks) /\ WF_vars(OnPeerRequestBlocks)
    /\ WF_vars(NoteSealingBlockNumber)
    /\ \A p \in Peer : WF_vars(Responder(p)) /\ WF_vars(Broadcast(p)) /\ WF_vars(Connect(p))

FairSpec == Spec /\ Fairness

-----------------------------------------------------------------------------
(* Properties *)

\* The numbers stay within the chain, and no queue outgrows its limit by more than
\* the one shard that the limit lets in.
TypeOK ==
    /\ {number, maxRequest} \subseteq 0..MaxNumber /\ knownHighest \in 0..MaxNumber + 1
    /\ sealingNumber \in 0..MaxNumber + 1
    /\ state \in {"Idle", "Downloading"}
    /\ DOMAIN peerStatus \subseteq Peer
    /\ Len(buffer) <= BufferSize
    /\ Size(blocks) < QueueSize + RequestShards * RequestBlocks
    /\ \A p \in Peer : BagCardinality(reqQueue[p]) <= RequestQueueSize

\* A node asks a peer only for blocks that the peer has, however old the status it
\* goes by, and merging requests adds nothing: the peer never meets the missing block
\* of maintainBlockRequest, whose request would stay in its queue for ever.
RequestsServable ==
    \A p \in Peer :
        /\ \A m \in Received("req") : m.peer = p => m.to <= peerNumber[p]
        /\ \A r \in BagToSet(reqQueue[p]) \cup {answering[p]} : r.to <= peerNumber[p]

Pending ==
    UNION {m.from..m.to : m \in Received("req") \cup Received("blocks")}
        \cup UNION {UNION {r.from..r.to : r \in BagToSet(reqQueue[p]) \cup {answering[p]}} : p \in Peer}
        \cup Arrived \cup Queued(blocks)

\* Without lost sessions, full queues and blocks cleared by an idle node a turn of
\* requests loses nothing: every block up to m_maxRequestNumber is committed, queued, arriving or asked for, while
\* requests are merged, answered in parts and sent back to the queue.
NothingForgotten ==
    state = "Downloading" /\ waiting /\ ~dropped =>
        (number + 1)..maxRequest \subseteq Pending

CaughtUp(n) == number >= n \/ \A p \in Peer : peerNumber[p] < n
Idle == state = "Idle"

\* Every block a peer has is committed in the end, by sync or by the engine: no chain
\* loses a block, so that a block that is missing again and again is missing for good.
CatchUp == \A n \in Number : []<>CaughtUp(n)

\* A download ends: the node is ready to seal again and again.
DownloadEnds == []<>Idle

=============================================================================
