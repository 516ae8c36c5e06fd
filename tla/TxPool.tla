------------------------------- MODULE TxPool -------------------------------
(***************************************************************************)
(* The transaction pool of a node with its two nonce checks, between the   *)
(* threads that use it: RPC and peers import transactions, the sealer      *)
(* loads them into the block it prepares, and the consensus engine and     *)
(* block sync commit blocks and then drop their transactions.              *)
(*                                                                         *)
(* Nothing but the pool keeps a transaction out of a second block: neither *)
(* the checks of a proposal nor its execution look at nonces.  The module  *)
(* therefore holds the chain, the pool and the part of the sealer loop     *)
(* that decides when transactions are loaded.                              *)
(*                                                                         *)
(* dropBlockTrans takes three locks one after the other, so its steps are  *)
(* separate actions; import holds m_lock, but the chain nonces it reads    *)
(* have a lock of their own.                                               *)
(*                                                                         *)
(* The queue is sorted by import time and a block keeps the order of the   *)
(* queue.  No property depends on that order, so the queue and the blocks  *)
(* are sets, and topTransactions may find their members in any order.      *)
(***************************************************************************)
EXTENDS Integers, Sequences, FiniteSets

CONSTANTS
    Tx,             \* transactions
    NonceKey,       \* NonceKey[t]: sender and nonce of t, generateKey
    BlockLimit,     \* BlockLimit[t]: the block limit that t carries
    Limit,          \* m_limit, the size of the pool
    MaxBlockLimit,  \* m_maxBlockLimit
    MaxTxs,         \* m_maxBlockTransactions, transactions in a block
    MaxNumber,      \* bound: the length of the chain
    None            \* no transaction

ASSUME LimitAssumption ==
    Limit \in Nat /\ MaxBlockLimit \in Nat /\ MaxTxs \in Nat /\ MaxNumber \in Nat
ASSUME TxAssumption == None \notin Tx /\ \A t \in Tx : BlockLimit[t] \in Nat

VARIABLES
    chain,        \* chain[i]: the transactions of block i
    queue,        \* m_txsQueue; m_txsHash and m_known hold the same transactions
    dropped,      \* m_dropped
    poolNonces,   \* m_commonNonceCheck: the nonces of the pooled transactions
    chainNonces,  \* m_txNonceCheck: the nonces of the blocks startblk..endblk
    startblk,
    endblk,
    importing,    \* the transaction that import has checked against the chain, or None
    committer,    \* committer[w]: the block that thread w commits, and its next step
    syncing,      \* the state of block sync is not Idle
    syncBlock,    \* m_syncBlock: a new block waits to be reported to the engine
    sealer,       \* where the sealer thread is in doWork
    sealing,      \* m_sealing: the block in preparation
    proposal,     \* the block last given to the engine
    reported,     \* the number of the block that the sealer reports to the engine
    consNum,      \* m_consensusBlockNumber of the engine
    lockHeight    \* the height of the engine's committedPrepareCache

pool == <<queue, dropped, poolNonces>>
window == <<chainNonces, startblk, endblk>>
seal == <<syncBlock, sealer, sealing, proposal, reported>>
engine == <<consNum, lockHeight>>
vars == <<chain, pool, window, importing, committer, syncing, seal, engine>>

number == Len(chain)
Keys(txs) == {NonceKey[t] : t \in txs}
Worker == {"engine", "sync"}
Done == [pc |-> "done", txs |-> {}]

-----------------------------------------------------------------------------
(* TransactionNonceCheck *)

isBlockLimitOk(t) == number < BlockLimit[t] /\ BlockLimit[t] <= number + MaxBlockLimit

isBlockLimitOrNonceOk(t) == isBlockLimitOk(t) /\ NonceKey[t] \notin chainNonces

\* The keys of the blocks a..b that exist; block 0 has no transactions.
KeysOf(a, b) == UNION {Keys(chain[i]) : i \in (a..b) \cap (1..number)}

FirstBlock(last) == IF last > MaxBlockLimit THEN last - MaxBlockLimit ELSE 0

UpdateCache_EraseThroughStart(rebuild) ==
    LET first == FirstBlock(number)
        kept == chainNonces \ KeysOf(startblk, first)
    IN  /\ startblk' = first
        /\ endblk' = number
        /\ chainNonces' = kept \cup KeysOf(endblk + 1, number)

UpdateCache(rebuild) ==
    LET first == FirstBlock(number)
        kept == IF rebuild THEN {} ELSE chainNonces \ KeysOf(startblk, first - 1)
        from == IF rebuild THEN 1 ELSE endblk + 1
    IN  /\ startblk' = first
        /\ endblk' = number
        /\ chainNonces' = kept \cup KeysOf(IF from > first THEN from ELSE first, number)

-----------------------------------------------------------------------------
(* import *)

\* verify: the checks that come before the nonces of the pool.
Verify(t, policy) ==
    IF t \in queue THEN "AlreadyKnown"
    ELSE IF t \in dropped /\ policy = "Ignore" THEN "AlreadyInChain"
    ELSE IF ~isBlockLimitOrNonceOk(t) THEN "TransactionNonceCheckFail"
    ELSE "Success"

\* import does not hand its policy on to verify.
ImportResult(t, policy) ==
    IF Cardinality(queue) >= Limit THEN "TransactionPoolIsFull" ELSE Verify(t, "Ignore")

\* A refused import changes nothing.
ImportVerify(t, policy) ==
    /\ importing = None
    /\ ImportResult(t, policy) = "Success"
    /\ importing' = t
    /\ UNCHANGED <<chain, pool, window, committer, syncing, seal, engine>>

\* txPoolNonceCheck, insert and insertCache, still under m_lock.
ImportInsert ==
    /\ importing # None
    /\ IF NonceKey[importing] \in poolNonces
       THEN UNCHANGED <<queue, poolNonces>>
       ELSE /\ queue' = queue \cup {importing}
            /\ poolNonces' = poolNonces \cup {NonceKey[importing]}
    /\ importing' = None
    /\ UNCHANGED <<chain, dropped, window, committer, syncing, seal, engine>>

\* drop takes a transaction out by its hash; the nonce stays in the pool.
Drop(t) ==
    /\ importing = None
    /\ t \in queue
    /\ dropped' = IF Cardinality(dropped) < Limit THEN dropped \cup {t} ELSE {}
    /\ queue' = queue \ {t}
    /\ UNCHANGED <<chain, poolNonces, window, importing, committer, syncing, seal, engine>>

\* topTransactions: the transactions for the block in preparation, with nonce and
\* block limit checked again.  The scan ends once it has found enough of them, so
\* it meets every invalid transaction of the queue only when it finds too few.
TopTransactions(limit, avoid) ==
    LET valid == {t \in queue : isBlockLimitOrNonceOk(t)}
    IN  {top \in [txs : SUBSET (valid \ avoid), invalid : SUBSET (queue \ valid)] :
            /\ Cardinality(top.txs) <= limit
            /\ Cardinality(top.txs) < limit => top.txs = valid \ avoid /\ top.invalid = queue \ valid
            /\ limit = 0 => top.invalid = {}}

-----------------------------------------------------------------------------
(* The sealer thread: reportNewBlock, then shouldSeal, then the block. *)

\* The engine holds its mutex while it commits a block and drops the transactions.
EngineFree == committer["engine"].pc = "done"

Sealing(n) == [number |-> n, txs |-> {}, sealed |-> FALSE]

\* shouldResetSealing and resetSealingBlock
ResetSealing ==
    sealing' = IF sealing.sealed \/ sealing.number <= number
               THEN Sealing(number + 1)
               ELSE sealing

\* reportNewBlock reads the newest block before it waits for the engine.
SealerTop ==
    /\ sealer = "top"
    /\ sealer' = IF syncBlock THEN "report" ELSE "seal"
    /\ reported' = IF syncBlock THEN number ELSE 0
    /\ syncBlock' = FALSE
    /\ UNCHANGED <<chain, pool, window, importing, committer, syncing, sealing, proposal, engine>>

\* reportBlock, under the mutex of the engine
SealerReport ==
    /\ sealer = "report"
    /\ EngineFree
    /\ consNum' = IF reported >= consNum THEN reported + 1 ELSE consNum
    /\ sealer' = "reset"
    /\ reported' = 0
    /\ UNCHANGED <<chain, pool, window, importing, committer, syncing, syncBlock, sealing,
                   proposal, lockHeight>>

SealerReset ==
    /\ sealer = "reset"
    /\ ResetSealing
    /\ sealer' = "seal"
    /\ UNCHANGED <<chain, pool, window, importing, committer, syncing, syncBlock, proposal,
                   reported, engine>>

SealerGoesOn(may) ==
    /\ sealer = "seal"
    /\ sealer' \in IF may THEN {"top", "load"} ELSE {"top"}
    /\ UNCHANGED <<chain, pool, window, importing, committer, syncing, syncBlock, sealing,
                   proposal, reported, engine>>

ShouldSeal_WhileSyncing == SealerGoesOn(~sealing.sealed /\ lockHeight # consNum)

\* Sealer::shouldSeal and PBFTEngine::shouldSeal; the engine also refuses when this
\* node is not the leader.
ShouldSeal == SealerGoesOn(~sealing.sealed /\ ~syncing /\ lockHeight # consNum)

\* doWork takes x_sealing and loads transactions; with too few of them it returns.
LoadTransactions ==
    \E top \in TopTransactions(MaxTxs - Cardinality(sealing.txs), sealing.txs) :
        /\ sealer = "load"
        /\ importing = None
        /\ sealing' = [sealing EXCEPT !.txs = @ \cup top.txs]
        /\ queue' = queue \ top.invalid
        /\ dropped' = dropped \cup top.invalid
        /\ poolNonces' = poolNonces \ Keys(top.invalid)
        /\ sealer' \in IF Cardinality(sealing'.txs) >= MaxTxs THEN {"handle"} ELSE {"top", "handle"}
        /\ UNCHANGED <<chain, window, importing, committer, syncing, syncBlock, proposal,
                       reported, engine>>

\* The interval of a block has passed: the block is taken as it is.
PackAtInterval ==
    /\ sealer = "load"
    /\ sealer' = "handle"
    /\ UNCHANGED <<chain, pool, window, importing, committer, syncing, syncBlock, sealing,
                   proposal, reported, engine>>

\* handleBlock: generatePrepare needs the mutex of the engine; the block is reset
\* when the proposal was not sent or is empty.
HandleBlock ==
    /\ sealer = "handle"
    /\ EngineFree
    /\ \/ /\ sealing.txs # {}
          /\ proposal' = sealing
          /\ sealing' = [sealing EXCEPT !.sealed = TRUE]
          /\ sealer' = "top"
       \/ /\ sealer' = "retry"
          /\ UNCHANGED <<sealing, proposal>>
    /\ UNCHANGED <<chain, pool, window, importing, committer, syncing, syncBlock, reported,
                   engine>>

\* resetSealingBlock after the mutex has been released.
ResetAfterHandle ==
    /\ sealer = "retry"
    /\ sealing' = Sealing(number + 1)
    /\ sealer' = "top"
    /\ UNCHANGED <<chain, pool, window, importing, committer, syncing, syncBlock, proposal,
                   reported, engine>>

\* The callback of a view change runs in the engine thread, under x_sealing.
OnViewChange ==
    /\ EngineFree
    /\ sealer \in {"top", "seal", "load"}
    /\ ResetSealing
    /\ sealing' # sealing
    /\ UNCHANGED <<chain, pool, window, importing, committer, syncing, syncBlock, sealer,
                   proposal, reported, engine>>

-----------------------------------------------------------------------------
(* Commits, by the engine or by block sync, and dropBlockTrans after them. *)

Commit(w, txs) ==
    /\ committer[w].pc = "done"
    /\ number < MaxNumber
    /\ chain' = Append(chain, txs)
    /\ committer' = [committer EXCEPT ![w] = [pc |-> "ready", txs |-> txs]]
    /\ lockHeight' = IF w = "engine" THEN number + 1 ELSE lockHeight
    /\ UNCHANGED <<pool, window, importing, syncing, seal, consNum>>

\* checkAndSave: the engine works on the block m_consensusBlockNumber and has it in
\* its committedPrepareCache since checkAndCommit.
CommitOwn ==
    /\ consNum = number + 1
    /\ proposal.number = consNum
    /\ Commit("engine", proposal.txs)

\* Blocks another node can have proposed on this chain: it has a pool of its own.
OthersBlocks ==
    {{}} \cup {{t} : t \in {u \in Tx : /\ isBlockLimitOk(u)
                                       /\ NonceKey[u] \notin KeysOf(FirstBlock(number), number)}}

CommitOther(txs) == consNum = number + 1 /\ txs \in OthersBlocks /\ Commit("engine", txs)

CommitDownloaded(txs) == syncing /\ txs \in OthersBlocks /\ Commit("sync", txs)

\* m_onReady of the block chain
OnReady(w) ==
    /\ committer[w].pc = "ready"
    /\ syncBlock' = TRUE
    /\ committer' = [committer EXCEPT ![w].pc = "update"]
    /\ UNCHANGED <<chain, pool, window, importing, syncing, sealer, sealing, proposal,
                   reported, engine>>

UpdateChainNonces(w) ==
    /\ committer[w].pc = "update"
    /\ UpdateCache(FALSE)
    /\ committer' = [committer EXCEPT ![w].pc = "drop"]
    /\ UNCHANGED <<chain, pool, importing, syncing, seal, engine>>

DropTransactions(w) ==
    /\ committer[w].pc = "drop"
    /\ importing = None \/ committer[w].txs = {}
    /\ queue' = queue \ committer[w].txs
    /\ committer' = [committer EXCEPT ![w].pc = "delete"]
    /\ UNCHANGED <<chain, dropped, poolNonces, window, importing, syncing, seal, engine>>

DelPoolNonces(w) ==
    /\ committer[w].pc = "delete"
    /\ poolNonces' = poolNonces \ Keys(committer[w].txs)
    /\ committer' = [committer EXCEPT ![w] = Done]
    /\ UNCHANGED <<chain, queue, dropped, window, importing, syncing, seal, engine>>

\* noteDownloadingBegin and noteDownloadingFinish, in the thread of block sync
SyncState ==
    /\ committer["sync"].pc = "done"
    /\ syncing' = ~syncing
    /\ UNCHANGED <<chain, pool, window, importing, committer, seal, engine>>

\* A node that starts again has an empty pool and rebuilds the chain nonces.
Restart ==
    /\ queue' = {} /\ dropped' = {} /\ poolNonces' = {}
    /\ UpdateCache(TRUE)
    /\ importing' = None
    /\ committer' = [w \in Worker |-> Done]
    /\ syncing' = FALSE
    /\ syncBlock' = FALSE
    /\ sealer' = "top"
    /\ sealing' = Sealing(number + 1)
    /\ proposal' = Sealing(0) /\ reported' = 0
    /\ consNum' = number + 1
    /\ UNCHANGED <<chain, lockHeight>>

-----------------------------------------------------------------------------
Init ==
    /\ chain = <<>>
    /\ queue = {} /\ dropped = {} /\ poolNonces = {}
    /\ chainNonces = {} /\ startblk = 0 /\ endblk = 0
    /\ importing = None
    /\ committer = [w \in Worker |-> Done]
    /\ syncing = FALSE
    /\ syncBlock = FALSE
    /\ sealer = "top" /\ sealing = Sealing(1) /\ proposal = Sealing(0) /\ reported = 0
    /\ consNum = 1 /\ lockHeight = 0

Import == ImportInsert \/ \E t \in Tx, policy \in {"Ignore", "Retry"} : ImportVerify(t, policy)

SealerStep ==
    \/ SealerTop \/ SealerReport \/ SealerReset \/ ShouldSeal
    \/ LoadTransactions \/ PackAtInterval \/ HandleBlock \/ ResetAfterHandle

EngineStep ==
    \/ CommitOwn
    \/ \E txs \in OthersBlocks : CommitOther(txs)
    \/ OnViewChange

DropBlockTrans(w) ==
    OnReady(w) \/ UpdateChainNonces(w) \/ DropTransactions(w) \/ DelPoolNonces(w)

SyncStep == SyncState \/ \E txs \in OthersBlocks : CommitDownloaded(txs)

Next ==
    \/ Import
    \/ \E t \in Tx : Drop(t)
    \/ SealerStep
    \/ EngineStep
    \/ SyncStep
    \/ \E w \in Worker : DropBlockTrans(w)
    \/ Restart

Spec == Init /\ [][Next]_vars

-----------------------------------------------------------------------------
(* No view change falls between shouldSeal and the lock that doWork takes    *)
(* after it.                                                                 *)
NoViewChangeBeforeLoad == sealer = "load" /\ sealer' = "load" => sealing' = sealing

(* The pool and the chain hold what their types say. *)
TypeOK ==
    /\ chain \in Seq(SUBSET Tx) /\ number <= MaxNumber
    /\ queue \subseteq Tx /\ Cardinality(queue) <= Limit
    /\ dropped \subseteq Tx
    /\ poolNonces \cup chainNonces \subseteq {NonceKey[t] : t \in Tx}
    /\ {startblk, endblk, reported, consNum, lockHeight} \subseteq 0..MaxNumber + 1
    /\ importing \in Tx \cup {None}
    /\ committer \in [Worker -> [pc : {"done", "ready", "update", "drop", "delete"}, txs : SUBSET Tx]]
    /\ {syncing, syncBlock} \subseteq BOOLEAN
    /\ sealer \in {"top", "report", "reset", "seal", "load", "handle", "retry"}
    /\ {sealing, proposal} \subseteq [number : Nat, txs : SUBSET Tx, sealed : BOOLEAN]

(* No nonce of a sender is spent twice in MaxBlockLimit + 2 consecutive      *)
(* blocks, and no transaction ever is: topTransactions checks the nonce and  *)
(* the block limit again, and the sealer loads nothing between a commit and  *)
(* updateCache.  Only a nonce that the chain has already forgotten can be    *)
(* found twice in one block: a dropBlockTrans that is that many blocks late  *)
(* deletes it from the pool while a new transaction holds it.                *)
NoReplay ==
    \A i, j \in 1..number : \A t \in chain[i], u \in chain[j] :
        NonceKey[t] = NonceKey[u] /\ i <= j =>
            \/ i = j /\ (t = u \/ NonceKey[t] \in KeysOf(1, i - MaxBlockLimit - 2))
            \/ i + MaxBlockLimit + 1 < j /\ t # u

(* updateCache keeps exactly the nonces of the blocks m_startblk..m_endblk, *)
(* whatever the number of blocks committed since its last call.             *)
WindowIsExact == chainNonces = KeysOf(startblk, endblk)

(* A pooled transaction whose nonce no block has spent is covered by the    *)
(* nonces of the pool, and no other pooled transaction has its nonce:       *)
(* import checks, inserts and records under one lock.                       *)
PoolNoncesUnique ==
    \A t \in queue :
        NonceKey[t] \notin KeysOf(1, number) =>
            /\ NonceKey[t] \in poolNonces
            /\ \A u \in queue : NonceKey[u] = NonceKey[t] => u = t

(* The nonces of the pool are let go: one that belongs to no pooled or      *)
(* dropped transaction is on its way out in dropBlockTrans.  A nonce left   *)
(* behind would refuse every later transaction of the sender that has it.   *)
NoncesReleased ==
    \A key \in poolNonces :
        \/ key \in Keys(queue)
        \/ \E t \in dropped : NonceKey[t] = key
        \/ \E w \in Worker : key \in Keys(committer[w].txs)

(* The pool, the nonces it keeps and the window of the chain's nonces agree *)
(* with each other and with the chain, however imports, commits, drops and  *)
(* updateCache are interleaved.                                             *)
NoncesAgree == TypeOK /\ WindowIsExact /\ PoolNoncesUnique /\ NoncesReleased

=============================================================================
