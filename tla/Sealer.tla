------------------------------- MODULE Sealer -------------------------------
(***************************************************************************)
(* The sealing loop of a PBFT node (libconsensus/Sealer, PBFTSealer)       *)
(* against the three threads that move the chain under it: block sync,     *)
(* the engine's own commits and the view-change callback.  Transactions    *)
(* are counted, not named: pool is the number of pending transactions that *)
(* the sealing block does not hold.                                        *)
(*                                                                         *)
(* x_sealing is held by the sealer in the steps "reset", "config", "load"  *)
(* and "handle"; the engine's m_mutex is held from its lock on a block to  *)
(* the notification of the commit.                                         *)
(***************************************************************************)
EXTENDS Integers

CONSTANTS Limit,      \* values tx_count_limit takes in the configuration table
          Word,       \* 2^64, the width of transToFetch
          MaxPool,    \* bound on pending transactions
          MaxNumber   \* bound on the chain

VARIABLES chain,      \* BlockChain::number()
          limit,      \* tx_count_limit as of that block
          commit,     \* who is committing a block, and how far
          syncBlock,  \* m_syncBlock
          callback,   \* a view change whose callback has not run yet
          engine,     \* m_highestBlock.number()
          locked,     \* committedPrepareCache().height = m_consensusBlockNumber
          leader,     \* getLeader() is this node, which is a miner
          started,    \* m_startConsensus
          interval,   \* reachBlockIntervalTime()
          pool,
          sealing,    \* m_sealing: block number, number of transactions, isSealed()
          maxTx,      \* m_maxBlockTransactions
          step,       \* where doWork is
          proposed    \* the last block given to generatePrepare

vars == <<chain, limit, commit, syncBlock, callback, engine, locked, leader,
          interval, pool, sealing, maxTx, step, proposed, started>>

Holding == step \in {"reset", "config", "load", "handle"}

EngineFree == commit \notin {"locked", "engine wrote"}

Syncing == commit \in {"download", "sync wrote"}

Least(a, b) == IF a < b THEN a ELSE b

(***************************************************************************)
(* The other threads.                                                      *)
(***************************************************************************)

ImportTransaction ==
    /\ pool < MaxPool
    /\ pool' = pool + 1
    /\ UNCHANGED <<chain, limit, commit, syncBlock, callback, engine, locked, leader,
                   interval, sealing, maxTx, step, proposed, started>>

IntervalPasses ==
    /\ ~interval
    /\ interval' = TRUE
    /\ UNCHANGED <<chain, limit, commit, syncBlock, callback, engine, locked, leader,
                   pool, sealing, maxTx, step, proposed, started>>

\* Sync leaves Idle and is to commit a block; or checkAndCommit locks the block of the round.
BeginCommit ==
    /\ commit = "none" /\ chain < MaxNumber
    /\ \/ commit' = "download" /\ locked' = locked
       \/ engine = chain /\ commit' = "locked" /\ locked' = TRUE
    /\ UNCHANGED <<chain, limit, syncBlock, callback, engine, leader, interval, pool,
                   sealing, maxTx, step, proposed, started>>

\* commitBlock writes the block; it may carry a new tx_count_limit.
WriteBlock ==
    /\ commit \in {"download", "locked"}
    /\ commit' = IF commit = "download" THEN "sync wrote" ELSE "engine wrote"
    /\ chain' = chain + 1
    /\ limit' \in Limit
    /\ UNCHANGED <<syncBlock, callback, engine, locked, leader, interval, pool, sealing,
                   maxTx, step, proposed, started>>

\* m_onReady calls Sealer::onBlockChanged, the pool drops the transactions of the block.
onBlockChanged ==
    /\ commit \in {"sync wrote", "engine wrote"}
    /\ syncBlock' = TRUE
    /\ commit' = "none"
    /\ pool' \in 0 .. pool
    /\ UNCHANGED <<chain, limit, callback, engine, locked, leader, interval, sealing,
                   maxTx, step, proposed, started>>

\* checkTimeout enters another view; its callback is left to run without m_mutex.
ChangeView ==
    /\ EngineFree /\ ~callback
    /\ callback' = TRUE
    /\ leader' \in BOOLEAN
    /\ interval' = FALSE
    /\ UNCHANGED <<chain, limit, commit, syncBlock, engine, locked, pool, sealing, maxTx,
                   step, proposed, started>>

ShouldResetSealing == sealing.sealed \/ sealing.number <= chain

\* resetSealingBlock: the transactions it held are pending again unless a block took them.
ResetSealingBlock ==
    /\ sealing' = [number |-> chain + 1, txs |-> 0, sealed |-> FALSE]
    /\ pool' \in pool .. Least(pool + sealing.txs, MaxPool)

onViewChange ==
    /\ callback /\ ~Holding
    /\ callback' = FALSE
    /\ IF ShouldResetSealing THEN ResetSealingBlock ELSE UNCHANGED <<sealing, pool>>
    /\ UNCHANGED <<chain, limit, commit, syncBlock, engine, locked, leader, interval,
                   maxTx, step, proposed, started>>

\* Sealer::start starts the thread before it sets m_startConsensus.
StartConsensus ==
    /\ ~started
    /\ started' = TRUE
    /\ UNCHANGED <<chain, limit, commit, syncBlock, callback, engine, locked, leader,
                   interval, pool, sealing, maxTx, step, proposed>>

(***************************************************************************)
(* doWork.                                                                 *)
(***************************************************************************)

\* reportNewBlock takes the flag down before it looks at the chain.
TakeFlag ==
    /\ step = "report"
    /\ syncBlock' = FALSE
    /\ step' = IF syncBlock THEN "reset" ELSE "should"
    /\ UNCHANGED <<chain, limit, commit, callback, engine, locked, leader, interval, pool,
                   sealing, maxTx, proposed, started>>

\* The engine's reportBlock, then the reset of the sealing block.
ReportBlock ==
    /\ step = "reset" /\ EngineFree
    /\ step' = "config"
    /\ IF engine < chain
       THEN /\ engine' = chain
            /\ locked' = FALSE
            /\ leader' \in BOOLEAN
            /\ interval' = FALSE
       ELSE UNCHANGED <<engine, locked, leader, interval>>
    /\ IF ShouldResetSealing THEN ResetSealingBlock ELSE UNCHANGED <<sealing, pool>>
    /\ UNCHANGED <<chain, limit, commit, syncBlock, callback, maxTx, proposed, started>>

SetMaxBlockTransactions ==
    /\ step = "config"
    /\ maxTx' = limit
    /\ step' = "should"
    /\ UNCHANGED <<chain, limit, commit, syncBlock, callback, engine, locked, leader,
                   interval, pool, sealing, proposed, started>>

\* PBFTSealer::shouldSeal and Sealer::shouldSeal, before x_sealing is taken.
ShouldSeal ==
    /\ step = "should"
    /\ step' = IF ~sealing.sealed /\ started /\ ~Syncing /\ leader /\ ~locked
                THEN "load"
                ELSE "report"
    /\ UNCHANGED <<chain, limit, commit, syncBlock, callback, engine, locked, leader,
                   interval, pool, sealing, maxTx, proposed, started>>

\* uint64_t arithmetic.
TransToFetch == (maxTx - sealing.txs) % Word

LoadTransactions ==
    LET fetched == IF pool > 0 /\ ~interval THEN Least(TransToFetch, pool) ELSE 0
    IN  /\ step = "load"
        /\ sealing' = [sealing EXCEPT !.txs = @ + fetched]
        /\ pool' = pool - fetched
        /\ step' = "handle"
        /\ UNCHANGED <<chain, limit, commit, syncBlock, callback, engine, locked, leader,
                       interval, maxTx, proposed, started>>

CheckTxsEnough == sealing.txs >= maxTx \/ interval

\* generatePrepare returns what broadcastMsg does, true on every path.
GeneratePrepare == TRUE

\* handleBlock: setBlock writes the sealer into the header, so that the block is sealed;
\* generatePrepare needs m_mutex; a block that was not sent, or is empty, is not kept.
HandleBlock ==
    /\ step = "handle"
    /\ step' = "report"
    /\ IF CheckTxsEnough
       THEN /\ EngineFree
            /\ proposed' = [number |-> sealing.number, txs |-> sealing.txs, max |-> maxTx]
            /\ IF ~GeneratePrepare \/ sealing.txs = 0
               THEN ResetSealingBlock
               ELSE sealing' = [sealing EXCEPT !.sealed = TRUE] /\ UNCHANGED pool
       ELSE UNCHANGED <<proposed, sealing, pool>>
    /\ UNCHANGED <<chain, limit, commit, syncBlock, callback, engine, locked, leader,
                   interval, maxTx, started>>

Init ==
    /\ chain = 0 /\ engine = 0
    /\ limit \in Limit /\ maxTx = limit
    /\ commit = "none" /\ syncBlock = FALSE /\ callback = FALSE
    /\ locked = FALSE /\ leader \in BOOLEAN /\ interval = FALSE
    /\ pool = 0
    /\ sealing = [number |-> 1, txs |-> 0, sealed |-> FALSE]
    /\ started = FALSE
    /\ step = "report"
    /\ proposed = [number |-> 0, txs |-> 0, max |-> 0]

Next ==
    \/ ImportTransaction \/ IntervalPasses
    \/ BeginCommit \/ WriteBlock \/ onBlockChanged
    \/ ChangeView \/ onViewChange \/ StartConsensus
    \/ TakeFlag \/ ReportBlock \/ SetMaxBlockTransactions
    \/ ShouldSeal \/ LoadTransactions \/ HandleBlock

Spec == Init /\ [][Next]_vars

(***************************************************************************)
(* Properties.                                                             *)
(***************************************************************************)

\* Whenever the sealer is about to decide whether to seal and no notification is under
\* way, the sealing block follows the newest block and the limit is that block's: no
\* block committed during reportNewBlock is missed.
SealingFollowsChain ==
    step = "should" /\ ~syncBlock /\ commit \notin {"sync wrote", "engine wrote"}
        => sealing.number = chain + 1 /\ maxTx = limit

\* m_maxBlockTransactions is "the max number of transactions in a block": no block given
\* to the engine holds more.
WithinLimit == proposed.txs <= proposed.max
=============================================================================
