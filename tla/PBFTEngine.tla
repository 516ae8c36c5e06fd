----------------------------- MODULE PBFTEngine -----------------------------
(***************************************************************************)
(* The PBFT consensus engine of a group of N miners with its request       *)
(* caches, driven by the engine thread (messages, timeouts, the future     *)
(* block, garbage collection) and by the sealer thread (sealing, reporting *)
(* new blocks).  Every handler that runs under m_mutex is one action.      *)
(*                                                                         *)
(* node[i] is the whole state of node i.  The handlers are operators from  *)
(* the state s of a node to its next state; they add what they send to the *)
(* field "sent", from which any other node may receive it late, twice,     *)
(* out of order or never.                                                  *)
(*                                                                         *)
(* Blocks are modelled as in PBFTLock.  A seal also says whether the block *)
(* has been executed: execution fills in the state and receipt roots, so   *)
(* the executed block has another hash than the proposal it comes from.    *)
(***************************************************************************)
EXTENDS Integers, Sequences, FiniteSets

CONSTANTS
    N,            \* number of miners; a node is its index in m_minerList
    Down,         \* the nodes that are not running
    Payload,      \* what a leader can put in a block (timestamp, transactions)
    EmptyPayload, \* the payloads without transactions
    MaxNumber,    \* bound: no proposal above this block number
    MaxView,      \* bound: no timeout beyond this view
    MaxRestarts   \* bound: number of crashes of a running node

ASSUME NAssumption == N \in Nat \ {0}
ASSUME DownAssumption == Down \subseteq 0..(N - 1)
ASSUME PayloadAssumption == EmptyPayload \subseteq Payload
ASSUME BoundAssumption == MaxNumber \in Nat /\ MaxView \in Nat /\ MaxRestarts \in Nat

VARIABLES
    node,       \* node[i]: the state of node i
    restarts    \* number of crashes so far

vars == <<node, restarts>>

Node == 0..(N - 1)
Up == Node \ Down

F == (N - 1) \div 3
MinValidNodes == N - F

-----------------------------------------------------------------------------
(* Blocks *)

Seal == Node \X Payload \X BOOLEAN
Block == UNION {[1..n -> Seal] : n \in 0..MaxNumber}

\* The block that idx seals on top of parent: a proposal, not yet executed.
Proposal(parent, idx, p) == Append(parent, <<idx, p, FALSE>>)

\* The hash of a proposal once it has been executed.
Executed(b) == [b EXCEPT ![Len(b)] = <<b[Len(b)][1], b[Len(b)][2], TRUE>>]

HasNoTransaction(b) == b[Len(b)][2] \in EmptyPayload

\* The parent of b is the block c.
Extends(b, c) == Len(b) = Len(c) + 1 /\ SubSeq(b, 1, Len(c)) = c

-----------------------------------------------------------------------------
(* Requests: a cleared request has height -1 and the hash of no proposal *)

Req(b, view, idx) == [height |-> Len(b), view |-> view, idx |-> idx, block |-> b]
NoReq == [height |-> -1, view |-> MaxView + 1, idx |-> N, block |-> <<>>]
IsEmpty(req) == req.height = -1

Msg(type, req, dst) == [type |-> type, req |-> req, dst |-> dst]
All == N    \* the destination of a broadcast
Send(s, m) == [s EXCEPT !.sent = @ \cup {m}]
Sent(s, type) == {m.req : m \in {x \in s.sent : x.type = type}}

\* addSignReq, addCommitReq: the key is (block hash, signature of the hash),
\* and a node has one signature for a hash.
SameKey(r, q) == r.block = q.block /\ r.idx = q.idx
AddReq(cache, req) == {r \in cache : ~SameKey(r, req)} \cup {req}
Exists(cache, req) == \E r \in cache : SameKey(r, req)
ForBlock(cache, b) == {r \in cache : r.block = b}

\* addViewChangeReq: the key is (view, index).
ExistsViewChange(cache, req) == \E r \in cache : r.view = req.view /\ r.idx = req.idx

-----------------------------------------------------------------------------
(* The life of a node *)

\* What a node starts with: its chain and its backed-up committed-prepare; the
\* network still holds what it has sent.
Booting(chain, committed, sent) ==
    [chain            |-> chain,
     committedPrepare |-> committed,
     sent             |-> sent,
     reported         |-> FALSE,   \* m_highestBlock has been set
     highest          |-> <<>>,    \* m_highestBlock
     consNum          |-> 0,       \* m_consensusBlockNumber
     view             |-> 0,
     toView           |-> 0,
     leaderFailed     |-> FALSE,
     rawPrepare       |-> NoReq,
     prepare          |-> NoReq,
     futurePrepare    |-> NoReq,
     signCache        |-> {},
     commitCache      |-> {},
     viewChanges      |-> {},      \* m_recvViewChangeReq
     sealing          |-> chain,   \* parent of the block being sealed
     sealed           |-> FALSE,   \* m_sealing.block.isSealed()
     sealer           |-> "idle",  \* where the sealer thread is
     onViewChange     |-> FALSE]   \* the engine thread is about to call m_onViewChange

Init ==
    /\ node = [i \in Node |-> Booting(<<>>, NoReq, {})]
    /\ restarts = 0

\* Mutant of Restart: the backed-up lock is not reloaded.
Restart_NoReload(i) ==
    /\ restarts < MaxRestarts
    /\ restarts' = restarts + 1
    /\ node' = [node EXCEPT ![i] = Booting(@.chain, NoReq, @.sent)]

\* A running node stops at any point and starts again: start, initPBFTEnv,
\* reloadMsg.
Restart(i) ==
    /\ restarts < MaxRestarts
    /\ restarts' = restarts + 1
    /\ node' = [node EXCEPT ![i] = Booting(@.chain, @.committedPrepare, @.sent)]

-----------------------------------------------------------------------------
(* Predicates of the engine *)

HasLeader(s) == s.reported /\ ~s.leaderFailed
Leader(s) == (s.view + Len(s.highest)) % N

HasConsensused(s, req) == req.height < s.consNum \/ req.view < s.view
IsFutureBlock(s, req) ==
    \/ req.height > s.consNum
    \/ req.height = s.consNum /\ req.view > s.view
IsHashSavedAfterCommit(s, req) ==
    req.height = s.committedPrepare.height => req.block = s.committedPrepare.block

IsValidPrepare(s, req) ==
    /\ s.rawPrepare.block # req.block
    /\ ~HasConsensused(s, req)
    /\ ~IsFutureBlock(s, req)
    /\ HasLeader(s) /\ req.idx = Leader(s)
    /\ IsHashSavedAfterCommit(s, req)

\* getBlockByHash: b is a block of the chain.
InChain(s, b) == Len(b) <= Len(s.chain) /\ SubSeq(s.chain, 1, Len(b)) = b

\* checkBlockValid: above the chain, and the parent is a block of the chain.
CheckBlockValid(s, b) == Len(b) > Len(s.chain) /\ InChain(s, SubSeq(b, 1, Len(b) - 1))

\* commitBlock: busy when another thread is committing.
CommitBlock(s, b, busy) ==
    IF ~busy /\ Extends(b, s.chain) THEN [s EXCEPT !.chain = b] ELSE s

-----------------------------------------------------------------------------
(* The three phases *)

ClearAllExceptCommitCache(s) ==
    [s EXCEPT !.prepare = NoReq, !.signCache = {}, !.viewChanges = {}]

EnoughReqs(cache, b) == Cardinality(ForBlock(cache, b)) >= MinValidNodes

CheckAndSave(s, busy) ==
    IF /\ EnoughReqs(s.signCache, s.prepare.block)
       /\ EnoughReqs(s.commitCache, s.prepare.block)
       /\ s.prepare.view = s.view
       /\ s.prepare.height > Len(s.highest)
    THEN ClearAllExceptCommitCache(CommitBlock(s, s.prepare.block, busy))
    ELSE s

BroadcastCommitReq(i, s) ==
    LET req == Req(s.prepare.block, s.prepare.view, i)
    IN  Send([s EXCEPT !.commitCache = AddReq(@, req)], Msg("commit", req, All))

\* The lock is backed up before the CommitReq leaves.
CheckAndCommit(i, s, busy) ==
    IF /\ Cardinality(ForBlock(s.signCache, s.prepare.block)) = MinValidNodes
       /\ s.prepare.view = s.view
    THEN CheckAndSave(
            BroadcastCommitReq(i, [s EXCEPT !.committedPrepare = s.rawPrepare]), busy)
    ELSE s

\* addRawPrepare: the new proposal displaces the prepare of the last one.
AddRawPrepare(s, req) == [s EXCEPT !.rawPrepare = req, !.prepare = NoReq]

\* What was cached for the block in another view is dropped.
RemoveInvalidSignCache(s, b, v) ==
    [s EXCEPT !.signCache = {r \in @ : r.block = b => r.view = v}]
RemoveInvalidCommitCache(s, b, v) ==
    [s EXCEPT !.commitCache = {r \in @ : r.block = b => r.view = v}]

AddPrepareReq(s, req) ==
    RemoveInvalidCommitCache(
        RemoveInvalidSignCache([s EXCEPT !.prepare = req], req.block, req.view), req.block, req.view)

BroadcastSignReq(i, s) ==
    LET req == Req(s.prepare.block, s.prepare.view, i)
    IN  Send([s EXCEPT !.signCache = AddReq(@, req)], Msg("sign", req, All))

\* The future-prepare cache has one slot; a request with the cached hash does
\* not replace it.
AddFuturePrepare(s, req) ==
    IF s.futurePrepare.block # req.block THEN [s EXCEPT !.futurePrepare = req] ELSE s

\* execBlock fails or the block is to be omitted: only the raw cache changes.
AcceptPrepare(i, s, req, busy) ==
    LET raw == AddRawPrepare(s, req)
        executed == Req(Executed(req.block), req.view, req.idx)
    IN  IF CheckBlockValid(s, req.block) /\ ~HasNoTransaction(req.block)
        THEN CheckAndCommit(i, BroadcastSignReq(i, AddPrepareReq(raw, executed)), busy)
        ELSE raw

HandlePrepare(i, s, req, busy) ==
    IF IsValidPrepare(s, req) THEN AcceptPrepare(i, s, req, busy)
    ELSE IF s.rawPrepare.block # req.block /\ ~HasConsensused(s, req) /\ IsFutureBlock(s, req)
         THEN AddFuturePrepare(s, req)
         ELSE s

\* checkReq
IsValidReq(i, s, req) ==
    s.prepare.block = req.block /\ req.idx # i /\ s.prepare.view = req.view
\* Mutant of IsFutureReq: a request that overtakes its prepare is kept as well.
IsFutureReq_Current(s, req) == s.prepare.block # req.block /\ ~HasConsensused(s, req)

IsFutureReq(s, req) == s.prepare.block # req.block /\ IsFutureBlock(s, req)

HandleSign(i, s, req, busy) ==
    LET added == [s EXCEPT !.signCache = AddReq(@, req)]
    IN  IF Exists(s.signCache, req) THEN s
        ELSE IF IsFutureReq(s, req) THEN added
        ELSE IF IsValidReq(i, s, req) THEN CheckAndCommit(i, added, busy)
        ELSE s

HandleCommit(i, s, req, busy) ==
    LET added == [s EXCEPT !.commitCache = AddReq(@, req)]
    IN  IF Exists(s.commitCache, req) THEN s
        ELSE IF IsFutureReq(s, req) THEN added
        ELSE IF IsValidReq(i, s, req) THEN CheckAndSave(added, busy)
        ELSE s

-----------------------------------------------------------------------------
(* View change *)

ViewChangeReq(i, s) == Req(s.highest, s.toView, i)

\* Mutant of TriggerViewChange: the prepare cache survives the view change.
TriggerViewChange_KeepPrepare(s) ==
    [s EXCEPT !.rawPrepare = NoReq, !.signCache = {}, !.commitCache = {},
              !.viewChanges = {r \in @ : r.view > s.view}]

\* triggerViewChange
TriggerViewChange(s) ==
    [s EXCEPT !.rawPrepare = NoReq, !.prepare = NoReq,
              !.signCache = {}, !.commitCache = {},
              !.viewChanges = {r \in @ : r.view > s.view}]

\* Mutant of CheckAndChangeView: one request too few is enough.
CheckAndChangeView_OneLess(s) ==
    IF Cardinality({r \in s.viewChanges : r.view = s.toView}) >= MinValidNodes - 2
    THEN TriggerViewChange([s EXCEPT !.leaderFailed = FALSE, !.view = s.toView])
    ELSE s

CheckAndChangeView(s) ==
    IF Cardinality({r \in s.viewChanges : r.view = s.toView}) >= MinValidNodes - 1
    THEN TriggerViewChange([s EXCEPT !.leaderFailed = FALSE, !.view = s.toView])
    ELSE s

\* The header of an entry contradicts m_highestBlock.
Outdated(s, r) ==
    r.height < Len(s.highest) \/ (r.height = Len(s.highest) /\ r.block # s.highest)

\* The unordered_map of the view-change requests is walked in any order of the views.
ViewOrder == {f \in [1..MaxView -> 1..MaxView] : \A v, w \in 1..MaxView : f[v] = f[w] => v = w}

\* canTriggerViewChange: the entries that update idx_view_map on a walk in the
\* order ord, one of them for every index it meets.
Counted(s, ord) ==
    LET above == {r \in s.viewChanges : r.view > s.toView /\ r.height >= Len(s.highest)}
    IN  {r \in above : ~\E q \in above :
            q.idx = r.idx /\ q.view > r.view /\ ord[q.view] < ord[r.view]}

CanTriggerViewChange(s, counted) ==
    /\ Cardinality({r.idx : r \in counted}) > F
    /\ ~ /\ s.committedPrepare.height = s.consNum
         /\ \A r \in counted : r.height >= s.consNum
         /\ \E r \in counted : r.height = s.consNum

MinView(counted) == CHOOSE v \in {r.view : r \in counted} : \A r \in counted : v <= r.view

FastViewChange(s, ord) ==
    IF CanTriggerViewChange(s, Counted(s, ord))
    THEN [s EXCEPT !.toView = MinView(Counted(s, ord)) - 1]
    ELSE s

\* catchupView: a sender that lags behind is told our view.  Before the first
\* report the header sent is the default one, which every receiver rejects.
CatchupView(i, s, req, direct) ==
    IF direct /\ req.view + 1 < s.toView /\ s.reported
    THEN Send(s, Msg("viewchange", ViewChangeReq(i, s), req.idx))
    ELSE s

IsValidViewChange(s, req) ==
    /\ req.view > s.view
    /\ ~Outdated(s, req)
    /\ ~s.reported => req.height > 0
    /\ InChain(s, req.block)

\* direct: the message comes from its author, it has not been forwarded.
HandleViewChange(i, s, req, direct, ord) ==
    LET caught == CatchupView(i, s, req, direct)
        added == [caught EXCEPT !.viewChanges = @ \cup {req}]
    IN  IF ExistsViewChange(s.viewChanges, req) \/ req.idx = i THEN s
        ELSE IF ~IsValidViewChange(s, req) THEN caught
        ELSE IF req.view = s.toView THEN CheckAndChangeView(added)
        ELSE FastViewChange(added, ord)

Timeout(i, s) ==
    LET next == [s EXCEPT !.toView = @ + 1, !.leaderFailed = TRUE, !.onViewChange = TRUE]
        kept == [next EXCEPT !.viewChanges =
                    {r \in @ : ~(r.view = next.toView /\ Outdated(next, r))}]
    IN  CheckAndChangeView(Send(kept, Msg("viewchange", ViewChangeReq(i, next), All)))

-----------------------------------------------------------------------------
(* Sealing and reporting *)

ResetSealingBlock(s) == [s EXCEPT !.sealing = s.chain, !.sealed = FALSE]
ResetIfShould(s) ==
    IF s.sealed \/ Len(s.sealing) < Len(s.chain) THEN ResetSealingBlock(s) ELSE s

DelCache(s, b) ==
    [s EXCEPT !.signCache = {r \in @ : r.block # b}, !.commitCache = {r \in @ : r.block # b},
              !.prepare = IF @.block = b THEN NoReq ELSE @]

\* reportBlock
Report(s) ==
    LET top == [s EXCEPT !.reported = TRUE, !.highest = s.chain]
        new == IF Len(s.chain) >= s.consNum
               THEN [top EXCEPT !.view = 0, !.toView = 0, !.leaderFailed = FALSE,
                                !.consNum = Len(s.chain) + 1]
               ELSE top
    IN  DelCache(ClearAllExceptCommitCache(new), s.chain)

\* generatePrepare: the leader gives up its turn when the block is empty.
GeneratePrepare(i, s, b, busy) ==
    LET req == Req(b, s.view, i)
        sent == Send([s EXCEPT !.sealed = TRUE], Msg("prepare", req, All))
    IN  IF HasNoTransaction(b)
        THEN ResetSealingBlock(HandlePrepare(i, [sent EXCEPT !.leaderFailed = TRUE], req, busy))
        ELSE HandlePrepare(i, sent, req, busy)

\* rehandleCommitedPrepareCache: the lock is proposed again in this view.
RehandleCommittedPrepare(i, s, busy) ==
    LET req == Req(s.committedPrepare.block, s.view, i)
    IN  HandlePrepare(i, Send(s, Msg("prepare", req, All)), req, busy)

RemoveInvalidEntry(s, cache) == {r \in cache : ~Outdated(s, r)}

-----------------------------------------------------------------------------
(* The actions *)

Update(i, s) == node' = [node EXCEPT ![i] = s] /\ UNCHANGED restarts

\* Handling a message that is ignored is no step.
Handle(i, s) == s # node[i] /\ Update(i, s)

\* Another thread of node i (block sync) may hold the chain's commit lock: only
\* when there is a block to fetch.
Busy(i) == {busy \in BOOLEAN : busy => \E j \in Node : Len(node[j].chain) > Len(node[i].chain)}

\* The messages of type that can reach node i.
Arriving(i, type) ==
    {m.req : m \in {x \in UNION {node[j].sent : j \in Node \ {i}} :
                        x.type = type /\ x.dst \in {i, All}}}

\* The engine thread takes its next step only after m_onViewChange has returned.
EngineFree(i) == ~node[i].onViewChange

HandlePrepareMsg(i) ==
    EngineFree(i) /\ \E req \in Arriving(i, "prepare"), busy \in Busy(i) :
        Handle(i, HandlePrepare(i, node[i], req, busy))

HandleSignMsg(i) ==
    EngineFree(i) /\ \E req \in Arriving(i, "sign"), busy \in Busy(i) :
        Handle(i, HandleSign(i, node[i], req, busy))

HandleCommitMsg(i) ==
    EngineFree(i) /\ \E req \in Arriving(i, "commit"), busy \in Busy(i) :
        Handle(i, HandleCommit(i, node[i], req, busy))

HandleViewChangeMsg(i) ==
    EngineFree(i) /\ \E req \in Arriving(i, "viewchange"), direct \in BOOLEAN, ord \in ViewOrder :
        Handle(i, HandleViewChange(i, node[i], req, direct, ord))

CheckTimeout(i) ==
    /\ EngineFree(i)
    /\ node[i].reported
    /\ node[i].toView < MaxView
    /\ Update(i, Timeout(i, node[i]))

\* The callback takes x_sealing after m_mutex has been released.
OnViewChange(i) ==
    /\ node[i].onViewChange
    /\ Update(i, [ResetIfShould(node[i]) EXCEPT !.onViewChange = FALSE])

HandleFutureBlock(i) ==
    LET s == node[i]
    IN  /\ EngineFree(i)
        /\ s.futurePrepare.height = s.consNum
        /\ s.futurePrepare.view = s.view
        /\ \E busy \in Busy(i) :
            Update(i, [HandlePrepare(i, s, s.futurePrepare, busy) EXCEPT !.futurePrepare = NoReq])

CollectGarbage(i) ==
    /\ EngineFree(i)
    /\ node[i].reported
    /\ Update(i, [node[i] EXCEPT !.signCache = RemoveInvalidEntry(node[i], @),
                                 !.commitCache = RemoveInvalidEntry(node[i], @)])

\* Sealer::start and Sealer::reportNewBlock.
ReportNewBlock(i) ==
    LET s == node[i]
    IN  /\ s.sealer = "idle"
        /\ ~s.reported \/ Len(s.chain) > Len(s.highest)
        /\ Update(i, ResetIfShould(Report(s)))

\* shouldSeal reads the engine's state without m_mutex: what it decides is done
\* in a later step.
ShouldSeal(i) ==
    LET s == node[i]
        locked == s.committedPrepare.height = s.consNum
    IN  /\ s.sealer = "idle"
        /\ ~s.sealed
        /\ HasLeader(s) /\ Leader(s) = i
        /\ IF locked THEN s.rawPrepare.height # s.consNum ELSE Len(s.sealing) < MaxNumber
        /\ Update(i, [s EXCEPT !.sealer = IF locked THEN "rehandle" ELSE "seal"])

\* The timestamp makes every sealed block a new one.
HandleBlock(i) ==
    LET s == node[i]
    IN  /\ s.sealer = "seal"
        /\ Len(s.sealing) < MaxNumber
        /\ \E p \in Payload, busy \in Busy(i) :
            LET b == Proposal(s.sealing, i, p)
            IN  /\ b \notin {r.block : r \in Sent(s, "prepare")}
                /\ Update(i, GeneratePrepare(i, [s EXCEPT !.sealer = "idle"], b, busy))

\* doWork: not enough transactions yet.
WaitForTransactions(i) ==
    /\ node[i].sealer = "seal"
    /\ Update(i, [node[i] EXCEPT !.sealer = "idle"])

Rehandle(i) ==
    /\ node[i].sealer = "rehandle"
    /\ \E busy \in Busy(i) :
        Update(i, RehandleCommittedPrepare(i, [node[i] EXCEPT !.sealer = "idle"], busy))

\* Block sync: the next block of a peer's chain is verified and committed.
SyncBlock(i) ==
    \E j \in Up :
        /\ Len(node[j].chain) > Len(node[i].chain)
        /\ LET b == SubSeq(node[j].chain, 1, Len(node[i].chain) + 1)
           IN  Extends(b, node[i].chain) /\ Update(i, CommitBlock(node[i], b, FALSE))

Next ==
    \E i \in Up :
        \/ HandlePrepareMsg(i) \/ HandleSignMsg(i) \/ HandleCommitMsg(i)
        \/ HandleViewChangeMsg(i) \/ CheckTimeout(i) \/ OnViewChange(i)
        \/ HandleFutureBlock(i) \/ CollectGarbage(i)
        \/ ReportNewBlock(i) \/ ShouldSeal(i) \/ HandleBlock(i)
        \/ WaitForTransactions(i) \/ Rehandle(i) \/ SyncBlock(i) \/ Restart(i)

Spec == Init /\ [][Next]_vars

-----------------------------------------------------------------------------
(* Properties *)

Request == [height : 1..MaxNumber, view : 0..MaxView, idx : Node, block : Block]
ViewChangeRequest == [height : 0..MaxNumber, view : 0..MaxView, idx : Node, block : Block]

NodeState ==
    [chain : Block, committedPrepare : Request \cup {NoReq},
     sent : SUBSET (    [type : {"prepare", "sign", "commit"}, req : Request, dst : {All}]
                    \cup [type : {"viewchange"}, req : ViewChangeRequest, dst : 0..N]),
     reported : BOOLEAN, highest : Block, consNum : 0..(MaxNumber + 1),
     view : 0..MaxView, toView : 0..MaxView, leaderFailed : BOOLEAN,
     rawPrepare : Request \cup {NoReq}, prepare : Request \cup {NoReq},
     futurePrepare : Request \cup {NoReq},
     signCache : SUBSET Request, commitCache : SUBSET Request,
     viewChanges : SUBSET ViewChangeRequest,
     sealing : Block, sealed : BOOLEAN, sealer : {"idle", "seal", "rehandle"},
     onViewChange : BOOLEAN]

TypeOK == node \in [Node -> NodeState] /\ restarts \in 0..MaxRestarts

\* What PBFTLock sees of the engine: the block a node is locked on, the commit
\* votes on the network, and the chains.
LockOf(s) == IF IsEmpty(s.committedPrepare) THEN <<>> ELSE Executed(s.committedPrepare.block)
VotesOf(i, s) == {<<i, r.block>> : r \in Sent(s, "commit")}

\* checkAndCommit fires at a sign count equal to minValidNodes, never above it:
\* no interleaving makes the count step over the quorum, so a node that holds a
\* quorum of signs for its prepare has locked the proposal it came from.
SignQuorumLocks ==
    \A i \in Node :
        LET s == node[i]
        IN  ~IsEmpty(s.prepare) /\ EnoughReqs(s.signCache, s.prepare.block)
                => s.committedPrepare.block = s.rawPrepare.block

\* The prepare cache is never left over from another view or height, stays the
\* execution of the raw cache, and the requests counted for it are of its view:
\* the InvalidView branches of checkAndCommit and checkAndSave are never taken.
\* Every field of the engine has its type.
PrepareIsCurrent ==
    /\ TypeOK
    /\ \A i \in Node :
        LET s == node[i]
        IN  ~IsEmpty(s.prepare) =>
                /\ s.prepare.view = s.view /\ s.prepare.height = s.consNum
                /\ s.prepare.block = Executed(s.rawPrepare.block)
                /\ \A r \in ForBlock(s.signCache \cup s.commitCache, s.prepare.block) :
                    r.view = s.view

\* A node enters a view only when MinValidNodes - 1 others have asked for it on a
\* block that is not below its own highest block.
ViewHasQuorum ==
    \A i \in Up : node[i].view > 0 =>
        Cardinality({j \in Node \ {i} : \E r \in Sent(node[j], "viewchange") :
                        r.view = node[i].view /\ r.height >= Len(node[i].highest)})
            >= MinValidNodes - 1
=============================================================================
