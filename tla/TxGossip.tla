------------------------------ MODULE TxGossip ------------------------------
(***************************************************************************)
(* How transactions travel between the pools of a group.  On each node the *)
(* sync thread (SyncMaster::maintainTransactions) sends what it has not    *)
(* sent yet to some of its peers, the handlers of the network              *)
(* (SyncMsgEngine::onPeerTransactions) import what arrives, clients submit *)
(* and commits remove.  The pool remembers for each transaction which      *)
(* nodes know it (m_transactionKnownBy), this node included once it has    *)
(* sent it.  The marks are set by the sync thread and by the handlers,     *)
(* each under its own short lock, and erased by the commits.               *)
(***************************************************************************)
EXTENDS Integers, FiniteSets

CONSTANTS
    Node,
    Tx,
    PoolLimit,     \* m_limit of each node
    SendLimit,     \* c_maxSendTransactions
    MayDownload,   \* the nodes that may fall behind and download blocks
    MayCommit,     \* the nodes that commit blocks while the transactions travel
    MaxTroubles    \* bound: downloads, lost and new sessions

VARIABLES
    pool,          \* m_txsQueue of each node
    done,          \* the transactions in the chain of each node
    knownBy,       \* m_transactionKnownBy
    newTxs,        \* m_newTransactions
    downloading,   \* the nodes whose sync state is Downloading
    peers,         \* m_peersStatus, the peers a node has sessions with
    thread,        \* the sync thread of each node
    net,           \* packets sent and the handlers that work on them
    missed,        \* history: <<node, transaction>> that arrived and was not taken in
    troubles

poolVars == <<pool, done, newTxs>>
vars == <<pool, done, knownBy, newTxs, downloading, peers, thread, net, missed, troubles>>

\* todo: transactions without a choice of peers, tx: the one in hand, percent: how many
\* peers it goes to, out: what each peer will be sent.
Idle == [pc |-> "idle", todo |-> {}, tx |-> {}, percent |-> 0, out |-> [p \in Node |-> {}]]

Init ==
    /\ pool = [n \in Node |-> {}]
    /\ done = [n \in Node |-> {}]
    /\ knownBy = [n \in Node |-> [t \in Tx |-> {}]]
    /\ newTxs = [n \in Node |-> FALSE]
    /\ downloading = {}
    /\ peers = [n \in Node |-> Node \ {n}]
    /\ thread = [n \in Node |-> Idle]
    /\ net = {}
    /\ missed = {}
    /\ troubles = 0

-----------------------------------------------------------------------------
(* The pool *)

transactionIsKnownBy(n, t, p) == knownBy' = [knownBy EXCEPT ![n][t] = @ \cup {p}]

isTransactionKnownBy(n, t, p) == p \in knownBy[n][t]

isTransactionKnownBySomeone(n, t) == knownBy[n][t] # {}

Importable(n, t) == Cardinality(pool[n]) < PoolLimit[n] /\ t \notin pool[n] \cup done[n]

\* TxPool::import: a transaction that is taken in wakes the sync thread (m_onReady).
Import(n, t) ==
    IF Importable(n, t)
    THEN pool' = [pool EXCEPT ![n] = @ \cup {t}] /\ newTxs' = [newTxs EXCEPT ![n] = TRUE]
    ELSE UNCHANGED <<pool, newTxs>>

Submit(n, t) ==
    /\ \A m \in Node : t \notin pool[m] \cup done[m]
    /\ \A p \in net : t \notin p.txs
    /\ Importable(n, t)
    /\ Import(n, t)
    /\ UNCHANGED <<done, knownBy, downloading, peers, thread, net, missed, troubles>>

\* removeTrans: only a transaction of the pool has its marks erased.
Removed(n, t) == [knownBy EXCEPT ![n][t] = IF t \in pool[n] THEN {} ELSE @]

\* dropBlockTrans after a block with t was committed on n.
Commit(n, t) ==
    /\ n \in MayCommit /\ t \notin done[n]
    /\ \E m \in Node : t \in pool[m] \cup done[m]
    /\ done' = [done EXCEPT ![n] = @ \cup {t}]
    /\ pool' = [pool EXCEPT ![n] = @ \ {t}]
    /\ knownBy' = Removed(n, t)
    /\ UNCHANGED <<newTxs, downloading, peers, thread, net, missed, troubles>>

-----------------------------------------------------------------------------
(* maintainTransactions on the sync thread *)

\* Up to SendLimit transactions of the pool that this node has not sent.
topTransactionsCondition(n) ==
    LET unsent == {t \in pool[n] : ~isTransactionKnownBy(n, t, n)}
        size == IF Cardinality(unsent) < SendLimit THEN Cardinality(unsent) ELSE SendLimit
    IN  {ts \in SUBSET unsent : Cardinality(ts) = size}

Collect(n) ==
    /\ thread[n].pc = "idle" /\ newTxs[n] /\ n \notin downloading
    /\ newTxs' = [newTxs EXCEPT ![n] = FALSE]
    /\ \E ts \in topTransactionsCondition(n) :
          thread' = [thread EXCEPT ![n] = [Idle EXCEPT !.pc = "percent", !.todo = ts]]
    /\ UNCHANGED <<pool, done, knownBy, downloading, peers, net, missed, troubles>>

Percent_Quarter(n, t) == 25

Percent(n, t) == IF isTransactionKnownBySomeone(n, t) THEN 25 ELSE 100

ReadPercent(n) ==
    /\ thread[n].pc = "percent"
    /\ \E t \in thread[n].todo :
          thread' = [thread EXCEPT ![n].pc = "select", ![n].percent = Percent(n, t),
                                   ![n].tx = {t}, ![n].todo = @ \ {t}]
    /\ UNCHANGED <<poolVars, knownBy, downloading, peers, net, missed, troubles>>

\* SyncMasterStatus::randomSelection over the peers that do not know t.
Allowed(n, t) == {p \in peers[n] : ~isTransactionKnownBy(n, t, n) /\ ~isTransactionKnownBy(n, t, p)}

Selections(n, t) ==
    LET chosenSize == (Cardinality(peers[n]) * thread[n].percent + 99) \div 100
    IN  {s \in SUBSET Allowed(n, t) :
            \/ Cardinality(s) = chosenSize
            \/ Cardinality(s) < chosenSize /\ s = Allowed(n, t)}

Out_Last(n, t, chosen) == [p \in Node |-> IF p \in chosen THEN {t} ELSE {}]

\* peerTransactions with t added for the chosen peers.
Out(n, t, chosen) ==
    [p \in Node |-> thread[n].out[p] \cup (IF p \in chosen THEN {t} ELSE {})]

\* The chosen peers are marked, and this node when there is one.
Marked(n, t, chosen) == [knownBy EXCEPT ![n][t] = @ \cup chosen \cup (IF chosen = {} THEN {} ELSE {n})]

Select(n) ==
    /\ thread[n].pc = "select"
    /\ \E t \in thread[n].tx, chosen \in SUBSET Node :
          /\ chosen \in Selections(n, t)
          /\ thread' = [thread EXCEPT ![n].pc = "percent", ![n].tx = {}, ![n].percent = 0,
                                   ![n].out = Out(n, t, chosen)]
          /\ knownBy' = Marked(n, t, chosen)
    /\ UNCHANGED <<poolVars, downloading, peers, net, missed, troubles>>

\* One packet for each peer that gets something.  A peer that was lost meanwhile
\* is skipped by foreachPeer.
Send(n) ==
    LET to == {p \in Node : thread[n].out[p] # {}}
        packet(p) == [from |-> n, to |-> p, txs |-> thread[n].out[p], taken |-> FALSE, mark |-> {}]
    IN  /\ thread[n].pc = "percent" /\ thread[n].todo = {}
        /\ net' = net \cup {packet(p) : p \in to \cap peers[n]}
        /\ missed' = missed \cup UNION {{p} \X thread[n].out[p] : p \in to \ peers[n]}
        /\ thread' = [thread EXCEPT ![n] = Idle]
        /\ UNCHANGED <<poolVars, knownBy, downloading, peers, troubles>>

-----------------------------------------------------------------------------
(* onPeerTransactions on a thread of the network *)

Replace(p, q) == net' = (net \ {p}) \cup (IF q.txs = {} /\ q.mark = {} THEN {} ELSE {q})

\* A node that downloads drops the packet; the sender has marked it as knowing all of it.
Receive(p) ==
    /\ ~p.taken
    /\ IF p.to \in downloading
       THEN net' = net \ {p} /\ missed' = missed \cup ({p.to} \X p.txs)
       ELSE Replace(p, [p EXCEPT !.taken = TRUE]) /\ UNCHANGED missed
    /\ UNCHANGED <<poolVars, knownBy, downloading, peers, thread, troubles>>

ImportNext(p) ==
    /\ p.taken /\ p.mark = {}
    /\ \E t \in p.txs :
          /\ Import(p.to, t)
          /\ missed' = IF Importable(p.to, t) \/ t \in pool[p.to] \cup done[p.to]
                       THEN missed ELSE missed \cup {<<p.to, t>>}
          /\ Replace(p, [p EXCEPT !.txs = @ \ {t}, !.mark = {t}])
    /\ UNCHANGED <<done, knownBy, downloading, peers, thread, troubles>>

\* Whatever import said, the sender is marked as knowing the transaction.
MarkSender(p) ==
    /\ \E t \in p.mark : transactionIsKnownBy(p.to, t, p.from)
    /\ Replace(p, [p EXCEPT !.mark = {}])
    /\ UNCHANGED <<poolVars, downloading, peers, thread, missed, troubles>>

-----------------------------------------------------------------------------
(* Sessions and downloads *)

Trouble == troubles < MaxTroubles /\ troubles' = troubles + 1

StartDownload(n) ==
    /\ n \in MayDownload \ downloading /\ thread[n].pc = "idle" /\ Trouble
    /\ downloading' = downloading \cup {n}
    /\ UNCHANGED <<poolVars, knownBy, peers, thread, net, missed>>

FinishDownload(n) ==
    /\ n \in downloading
    /\ downloading' = downloading \ {n}
    /\ UNCHANGED <<poolVars, knownBy, peers, thread, net, missed, troubles>>

hasPeer(n, m) == m \in peers[n]
deletePeer(ps, m) == ps \ {m}
newSyncPeerStatus(ps, m) == ps \cup {m}

\* maintainPeersConnection follows the sessions of the service; a packet on the way is lost.
LosePeer(n, m) ==
    LET gone == {p \in net : {p.from, p.to} = {n, m} /\ ~p.taken}
    IN  /\ hasPeer(n, m) /\ thread[n].pc = "idle" /\ thread[m].pc = "idle" /\ Trouble
        /\ peers' = [peers EXCEPT ![n] = deletePeer(@, m), ![m] = deletePeer(@, n)]
        /\ net' = net \ gone
        /\ missed' = missed \cup UNION {{p.to} \X p.txs : p \in gone}
        /\ UNCHANGED <<poolVars, knownBy, downloading, thread>>

NewPeer(n, m) ==
    /\ m # n /\ ~hasPeer(n, m) /\ thread[n].pc = "idle" /\ thread[m].pc = "idle"
    /\ peers' = [peers EXCEPT ![n] = newSyncPeerStatus(@, m), ![m] = newSyncPeerStatus(@, n)]
    /\ UNCHANGED <<poolVars, knownBy, downloading, thread, net, missed, troubles>>

-----------------------------------------------------------------------------

SyncStep(n) == Collect(n) \/ ReadPercent(n) \/ Select(n) \/ Send(n)

Handle(p) == Receive(p) \/ ImportNext(p) \/ MarkSender(p)

Next ==
    \/ \E n \in Node, t \in Tx : Submit(n, t) \/ Commit(n, t)
    \/ \E n \in Node : SyncStep(n) \/ StartDownload(n) \/ FinishDownload(n)
    \/ \E p \in net : Handle(p)
    \/ \E n, m \in Node : LosePeer(n, m) \/ NewPeer(n, m)

Spec == Init /\ [][Next]_vars

HandleOne == \E p \in net : Handle(p)

\* The sync thread is a loop, and the handlers run to their end.
Fairness ==
    /\ \A n \in Node : WF_vars(SyncStep(n))
    /\ WF_vars(HandleOne)

FairSpec == Spec /\ Fairness

-----------------------------------------------------------------------------
(* Properties *)

\* A node takes a peer to know a transaction only when the peer has had it, is about
\* to be sent it, has it on the way, or was sent it and did not take it in.  A mark that
\* is set for a peer that maintainTransactions did not choose would keep the
\* transaction from that peer for good.
MarksMeanSent ==
    \A n \in Node, t \in Tx : \A p \in knownBy[n][t] \ {n} :
        \/ t \in pool[p] \cup done[p]
        \/ <<p, t>> \in missed
        \/ t \in thread[n].out[p]
        \/ \E k \in net : k.to = p /\ t \in k.txs

\* doWork has cleared m_newTransactions although the pool had more than SendLimit
\* transactions to send: t waits until another transaction comes in.
LeftOver(n, t) ==
    /\ t \in pool[n] /\ ~isTransactionKnownBy(n, t, n)
    /\ thread[n].pc = "idle" /\ ~newTxs[n] /\ Cardinality(pool[n]) > SendLimit

Reached(t) ==
    \/ \A n \in Node : t \notin pool[n]
    \/ \A n \in Node : t \in pool[n] \cup done[n]
    \/ \E n \in Node : LeftOver(n, t)
    \/ troubles > 0 \/ missed # {} \/ \E n \in Node : t \in done[n]

\* In a group where every node is connected with every other and none downloads blocks,
\* a transaction that one pool has taken in comes to every pool or chain, although the nodes
\* that did not receive it from a client pass it on to a quarter of their peers only.  The
\* exception is a transaction that a pool with more than SendLimit of them holds back.
ReachesEveryone == \A t \in Tx : []<>Reached(t)
=============================================================================
