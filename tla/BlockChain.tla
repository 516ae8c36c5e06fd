----------------------------- MODULE BlockChain -----------------------------
(***************************************************************************)
(* BlockChainImp: the ledger of one group.  Several threads commit blocks  *)
(* (the consensus engine, block sync) while others look up transactions,   *)
(* blocks, the system configuration and the node lists, through three      *)
(* caches.                                                                 *)
(*                                                                         *)
(* A block is executed before commitBlock is called, and commitBlock tests *)
(* the number and the parent hash of the block before it tries the commit  *)
(* mutex, so these steps are separate actions.  Everything                 *)
(* it writes goes into the tables of the block's execution context and     *)
(* reaches the database as one LevelDB batch.  MemoryTable::insert appends *)
(* to the entries of a key and every reader takes entry 0.                 *)
(*                                                                         *)
(* A block is a record: its hash, number and parent, its transactions, and *)
(* what its execution writes to the two system tables: a configuration     *)
(* value, and the new type of a node.                                      *)
(***************************************************************************)
EXTENDS Integers, Sequences, FiniteSets

\* The members of a sequence.
Elements(s) == {s[k] : k \in 1..Len(s)}

CONSTANTS
    Committer,     \* threads that call commitBlock
    Reader,        \* threads that query the ledger
    Block,         \* the blocks that are offered to commitBlock
    Genesis,       \* block 0
    NodeID,        \* the nodes the consensus table can hold
    InitialType,   \* their types in the genesis block
    CacheSize,     \* c_blockCacheSize
    MaxFailures,   \* bound: number of writes the database refuses
    Nothing        \* no block, no holder, no change, the empty string

ASSUME BoundAssumption == CacheSize \in Nat /\ MaxFailures \in Nat
ASSUME ThreadAssumption == Nothing \notin Committer
ASSUME BlockAssumption ==
    \A b \in Block \cup {Genesis} :
        /\ b.number \in Nat
        /\ b.number = 0 <=> b = Genesis
        /\ b.hash # Nothing
        /\ b.txs \in Seq(Elements(b.txs))
        /\ \A c \in Block \cup {Genesis} : b.hash = c.hash => b = c
ASSUME HighestAssumption ==
    \E b \in Block \cup {Genesis} : \A c \in Block \cup {Genesis} : c.number <= b.number

\* What consensus offers: a block comes after its parent, and no other block does.
ASSUME ForkAssumption ==
    /\ \A b \in Block, c \in Block \cup {Genesis} : b.parent = c.hash => b.number = c.number + 1
    /\ \A b, c \in Block : b.parent = c.parent => b = c
ASSUME NodeAssumption ==
    /\ InitialType \in [NodeID -> {"miner", "observer"}]
    /\ \A b \in Block : b.change # Nothing =>
          b.change.node \in NodeID /\ b.change.type \in {"miner", "observer", "removed"}

VARIABLES
    db,            \* the database: what a new MemoryTableFactory reads
    commitMutex,   \* the committer that holds the commit mutex, or Nothing
    committer,     \* committer[c]: the call of commitBlock of thread c
    reader,        \* reader[r]: the query of thread r
    blockCache,    \* BlockCache: the cached hashes and the FIFO of their insertion
    nodeListCache, \* m_cacheNumByMiner and m_minerList; the same for observers
    configCache,   \* m_systemConfigRecord of one key
    failures       \* number of writes that threw an exception

caches == <<blockCache, nodeListCache, configCache>>
vars == <<db, commitMutex, committer, reader, caches, failures>>

-----------------------------------------------------------------------------
(* The tables *)

AllBlocks == Block \cup {Genesis}
MaxNumber == CHOOSE n \in {b.number : b \in AllBlocks} : \A b \in AllBlocks : b.number <= n
Tx == UNION {Elements(b.txs) : b \in AllBlocks}
Type == {"miner", "observer"}

BlockOf(hash) == CHOOSE b \in AllBlocks : b.hash = hash

number == db.number
numberHash(i) == IF db.number2hash[i] = <<>> THEN Nothing ELSE db.number2hash[i][1]

\* getNodeListByType: the rows of the type that are enabled at blockNumber.
getNodeListByType(blockNumber, type) ==
    {n \in NodeID : db.nodes[n].type = type /\ db.nodes[n].enable <= blockNumber}

\* The value of the configuration row, if it is enabled at blockNumber.
ConfigValue(blockNumber) ==
    IF db.config.enable <= blockNumber THEN db.config.value ELSE Nothing

\* The rows that the execution of b writes over the tables it has read: a
\* precompiled contract enables them from the number of its context plus one, and
\* the context carries the number of the block it is executed on.
ExecuteBlock(b) ==
    [config |-> IF b.config = Nothing THEN Nothing
                ELSE [value |-> b.config, enable |-> number + 1],
     nodes  |-> IF b.change = Nothing THEN Nothing
                ELSE [db.nodes EXCEPT ![b.change.node] =
                          [type |-> b.change.type, enable |-> number + 1]]]

checkAndBuildGenesisBlock ==
    [number      |-> 0,
     total       |-> 0,
     number2hash |-> [i \in 0..MaxNumber |-> IF i = 0 THEN <<Genesis.hash>> ELSE <<>>],
     hash2block  |-> {Genesis.hash},
     tx2block    |-> [t \in Tx |-> <<>>],
     nodes       |-> [n \in NodeID |-> [type |-> InitialType[n], enable |-> 0]],
     config      |-> [value |-> Genesis.config, enable |-> 0]]

\* writeTxToBlock: one more entry under the hash of each transaction.
Rows(b, index) ==
    [t \in Tx |-> IF t \in Elements(b.txs) THEN Append(db.tx2block[t], <<b.number, index[t]>>)
                  ELSE db.tx2block[t]]

IndexIn(b) == [t \in Elements(b.txs) |-> CHOOSE k \in 1..Len(b.txs) : b.txs[k] = t]

\* writeNumber2Hash and writeHash2Block, and the commit of the tables of the
\* execution context with what the other writes have put in them.
WriteTables(context, num, total, tx2block, b) ==
    [number      |-> num,
     total       |-> total,
     tx2block    |-> tx2block,
     number2hash |-> [db.number2hash EXCEPT ![b.number] = Append(@, b.hash)],
     hash2block  |-> db.hash2block \cup {b.hash},
     config      |-> IF context.config = Nothing THEN db.config ELSE context.config,
     nodes       |-> IF context.nodes = Nothing THEN db.nodes ELSE context.nodes]

WriteBlock_FirstIndex(b, context) ==
    WriteTables(context, b.number, db.total + Len(b.txs), Rows(b, [t \in Tx |-> 1]), b)

WriteBlock(b, context) ==
    WriteTables(context, b.number, db.total + Len(b.txs), Rows(b, IndexIn(b)), b)

-----------------------------------------------------------------------------
(* BlockCache *)

\* The cache is the set of cached hashes and the queue of their insertions.
AddToCache(c, hash) ==
    LET full    == Cardinality(c.hashes) > CacheSize
        evicted == IF ~full THEN c
                   ELSE [hashes |-> c.hashes \ {Head(c.fifo)}, fifo |-> Tail(c.fifo)]
        synced  == IF Cardinality(evicted.hashes) > CacheSize
                   THEN [hashes |-> {}, fifo |-> <<>>]
                   ELSE evicted
    IN  [hashes |-> synced.hashes \cup {hash}, fifo |-> Append(synced.fifo, hash)]

-----------------------------------------------------------------------------
Idle == [pc |-> "idle", block |-> Genesis, context |-> Nothing]
NoQuery == [pc |-> "idle", op |-> "none", asked |-> Nothing, number |-> 0, index |-> 0,
            hash |-> Nothing, got |-> Nothing]

Init ==
    /\ db = checkAndBuildGenesisBlock
    /\ commitMutex = Nothing
    /\ committer = [c \in Committer |-> Idle]
    /\ reader = [r \in Reader |-> NoQuery]
    /\ blockCache = [hashes |-> {}, fifo |-> <<>>]
    /\ nodeListCache = [t \in Type |-> [number |-> -1, list |-> {}]]
    /\ configCache = [number |-> -1, value |-> Nothing]
    /\ failures = 0

-----------------------------------------------------------------------------
(* commitBlock *)

Return(c) == committer' = [committer EXCEPT ![c] = Idle]
Goto(c, pc) == committer' = [committer EXCEPT ![c].pc = pc]

\* The caller, checkAndSave or maintainDownloadingQueue, has executed b over the
\* tables of the newest block; neither of them executes a block whose parent is
\* not on the chain yet.
Execute(c, b) ==
    /\ committer[c].pc = "idle"
    /\ b.number <= number + 1
    /\ committer' = [committer EXCEPT ![c] =
           [pc |-> "number", block |-> b, context |-> ExecuteBlock(b)]]
    /\ UNCHANGED <<db, commitMutex, reader, caches, failures>>

\* commitBlock returns ERROR_NUMBER if b is not the next block, older or newer.
CheckNumber(c) ==
    /\ committer[c].pc = "number"
    /\ IF committer[c].block.number # number + 1
       THEN Return(c)
       ELSE Goto(c, "parent")
    /\ UNCHANGED <<db, commitMutex, reader, caches, failures>>

\* ERROR_PARENT_HASH
CheckParentHash(c) ==
    /\ committer[c].pc = "parent"
    /\ IF committer[c].block.parent # numberHash(number)
       THEN Return(c)
       ELSE Goto(c, "lock")
    /\ UNCHANGED <<db, commitMutex, reader, caches, failures>>

\* ERROR_COMMITTING if another thread holds the mutex.
TryLock(c) ==
    /\ committer[c].pc = "lock"
    /\ IF commitMutex = Nothing
       THEN Goto(c, "write") /\ commitMutex' = c
       ELSE Return(c) /\ UNCHANGED commitMutex
    /\ UNCHANGED <<db, reader, caches, failures>>

Write(c) ==
    /\ committer[c].pc = "write"
    /\ db' = WriteBlock(committer[c].block, committer[c].context)
    /\ Goto(c, "unlock")
    /\ UNCHANGED <<commitMutex, reader, caches, failures>>

\* A system table cannot be opened: commitBlock catches OpenSysTableFailed, unlocks
\* and throws it again.
OpenSysTableFails(c) ==
    /\ committer[c].pc = "write"
    /\ commitMutex' = Nothing
    /\ Return(c)
    /\ UNCHANGED <<db, reader, caches, failures>>

\* LevelDB refuses the batch.  commitBlock catches OpenSysTableFailed only, so
\* the exception leaves it with the mutex locked.
WriteThrows_Unlocks(c) ==
    /\ committer[c].pc = "write"
    /\ failures < MaxFailures
    /\ failures' = failures + 1
    /\ commitMutex' = Nothing
    /\ Return(c)
    /\ UNCHANGED <<db, reader, caches>>

WriteThrows(c) ==
    /\ committer[c].pc = "write"
    /\ failures < MaxFailures
    /\ failures' = failures + 1
    /\ Return(c)
    /\ UNCHANGED <<db, commitMutex, reader, caches>>

Unlock(c) ==
    /\ committer[c].pc = "unlock"
    /\ commitMutex' = Nothing
    /\ Return(c)
    /\ UNCHANGED <<db, reader, caches, failures>>

-----------------------------------------------------------------------------
(* Queries *)

Query(r, op, pc, asked, n, k) ==
    reader' = [reader EXCEPT ![r] = [NoQuery EXCEPT
                 !.op = op, !.pc = pc, !.asked = asked, !.number = n, !.index = k]]

Answer(r, got) ==
    reader' = [reader EXCEPT ![r] = [NoQuery EXCEPT
                 !.op = reader[r].op, !.asked = reader[r].asked, !.got = got]]

\* getTxByHash, getLocalisedTxByHash and the two receipt queries.
GetTxByHash(r, t) ==
    /\ reader[r].pc = "idle"
    /\ db.tx2block[t] # <<>>
    /\ LET entry == db.tx2block[t][1] IN Query(r, "tx", "number", t, entry[1], entry[2])
    /\ UNCHANGED <<db, commitMutex, committer, caches, failures>>

\* getCode reads the latest block; index 0 asks for the block itself.
GetCode(r) ==
    /\ reader[r].pc = "idle"
    /\ Query(r, "block", "number", number, number, 0)
    /\ UNCHANGED <<db, commitMutex, committer, caches, failures>>

GetBlockByNumber(r) ==
    /\ reader[r].pc = "number"
    /\ LET hash == numberHash(reader[r].number) IN
       IF hash = Nothing
       THEN Answer(r, Nothing)
       ELSE reader' = [reader EXCEPT ![r].pc = "hash", ![r].hash = hash]
    /\ UNCHANGED <<db, commitMutex, committer, caches, failures>>

Found(r) ==
    LET b == BlockOf(reader[r].hash) IN
    IF reader[r].index = 0 THEN b.number ELSE b.txs[reader[r].index]

ReadBlockCache(r) ==
    /\ reader[r].pc = "hash"
    /\ IF reader[r].hash \in blockCache.hashes
       THEN Answer(r, Found(r))
       ELSE reader' = [reader EXCEPT ![r].pc = "storage"]
    /\ UNCHANGED <<db, commitMutex, committer, caches, failures>>

ReadBlockStorage(r) ==
    /\ reader[r].pc = "storage"
    /\ IF reader[r].hash \in db.hash2block
       THEN Answer(r, Found(r)) /\ blockCache' = AddToCache(blockCache, reader[r].hash)
       ELSE Answer(r, Nothing) /\ UNCHANGED blockCache
    /\ UNCHANGED <<db, commitMutex, committer, nodeListCache, configCache, failures>>

\* getSystemConfigByKey without a number reads number() before it takes
\* m_systemConfigMutex.
GetSystemConfigByKey(r) ==
    /\ reader[r].pc = "idle"
    /\ Query(r, "config", "config", Nothing, number + 1, 0)
    /\ UNCHANGED <<db, commitMutex, committer, caches, failures>>

ReadSystemConfig(r) ==
    LET n == reader[r].number
        value == IF configCache.number = n THEN configCache.value ELSE ConfigValue(n)
    IN  /\ reader[r].pc = "config"
        /\ Answer(r, value)
        /\ configCache' = [number |-> n, value |-> value]
        /\ UNCHANGED <<db, commitMutex, committer, blockCache, nodeListCache, failures>>

\* minerList and observerList read number() before they take m_nodeListMutex.
NodeList(r, type) ==
    /\ reader[r].pc = "idle"
    /\ Query(r, type, "nodes", Nothing, number, 0)
    /\ UNCHANGED <<db, commitMutex, committer, caches, failures>>

ReadNodeList_NoNumber(r) ==
    LET n == reader[r].number
        type == reader[r].op
        cached == nodeListCache[type]
        list == IF cached.number # -1 THEN cached.list ELSE getNodeListByType(n, type)
    IN  /\ reader[r].pc = "nodes"
        /\ Answer(r, list)
        /\ nodeListCache' = [nodeListCache EXCEPT ![type] = [number |-> n, list |-> list]]
        /\ UNCHANGED <<db, commitMutex, committer, blockCache, configCache, failures>>

ReadNodeList(r) ==
    LET n == reader[r].number
        type == reader[r].op
        cached == nodeListCache[type]
        list == IF cached.number = n THEN cached.list ELSE getNodeListByType(n, type)
    IN  /\ reader[r].pc = "nodes"
        /\ Answer(r, list)
        /\ nodeListCache' = [nodeListCache EXCEPT ![type] = [number |-> n, list |-> list]]
        /\ UNCHANGED <<db, commitMutex, committer, blockCache, configCache, failures>>

-----------------------------------------------------------------------------
CommitBlock(c) ==
    \/ \E b \in Block : Execute(c, b)
    \/ CheckNumber(c)
    \/ CheckParentHash(c)
    \/ TryLock(c)
    \/ Write(c)
    \/ OpenSysTableFails(c)
    \/ WriteThrows(c)
    \/ Unlock(c)

GetBlock(r) ==
    \/ \E t \in Tx : GetTxByHash(r, t)
    \/ GetCode(r)
    \/ GetBlockByNumber(r)
    \/ ReadBlockCache(r)
    \/ ReadBlockStorage(r)

GetSystemTables(r) ==
    \/ GetSystemConfigByKey(r)
    \/ ReadSystemConfig(r)
    \/ \E type \in Type : NodeList(r, type)
    \/ ReadNodeList(r)

Next ==
    \/ \E c \in Committer : CommitBlock(c)
    \/ \E r \in Reader : GetBlock(r) \/ GetSystemTables(r)

Spec == Init /\ [][Next]_vars

-----------------------------------------------------------------------------
(* Properties *)

Row == [type : Type \cup {"removed"}, enable : 0..(MaxNumber + 1)]

\* The tables, the commit mutex and the caches hold values of the code's types.
TypeOK ==
    /\ db.number \in 0..MaxNumber
    /\ db.hash2block \subseteq {b.hash : b \in AllBlocks}
    /\ db.nodes \in [NodeID -> Row]
    /\ commitMutex \in Committer \cup {Nothing}
    /\ blockCache.hashes \subseteq {b.hash : b \in AllBlocks}
    /\ \A t \in Type : nodeListCache[t].list \subseteq NodeID

\* commitBlock changes the database only to add the next block: the number
\* test refuses a block that is already there, in whatever order the threads
\* that commit are interleaved.
CommitAdvances == [][db' # db => db'.number = db.number + 1]_vars

\* A lookup that found the number of its block, from the transaction index or
\* from number(), finds the block in the cache or in storage and finds what it
\* asked for in it: the assertion pblock != nullptr of getTxByHash, while blocks
\* are committed, some of them twice, and the cache evicts.
LookupsFind ==
    \A r \in Reader : LET q == reader[r] IN
        q.op \in {"tx", "block"} /\ q.pc = "idle" => q.got = q.asked

\* The block cache holds at most one block more than c_blockCacheSize, and
\* each of them can still be evicted: concurrent misses of one hash put it in
\* the FIFO twice, which BlockCache::add survives by clearing both.
CacheBounded ==
    /\ Cardinality(blockCache.hashes) <= CacheSize + 1
    /\ blockCache.hashes \subseteq Elements(blockCache.fifo)

\* No number of the chain has been written twice.  Two threads that commit can pass
\* the tests of commitBlock for one block; the second write sets the number back.
WrittenOnce == \A i \in 0..MaxNumber : Len(db.number2hash[i]) <= 1

\* A query that starts now and hits a cache gets what the tables say now: a
\* list or value cached for the current number is not out of date.
CachesFresh ==
    /\ configCache.number = number + 1 => configCache.value = ConfigValue(number + 1)
    /\ \A t \in Type : nodeListCache[t].number = number =>
          nodeListCache[t].list = getNodeListByType(number, t)

\* The caches never mislead, whoever commits: what they hold has its type and its
\* bound and, although number() is read before the lock of a cache is taken, is not
\* out of date until a block has been written twice.
CachesSound == TypeOK /\ CacheBounded /\ (WrittenOnce => CachesFresh)

\* After a batch that LevelDB refused, no block is committed any more: the mutex
\* stays locked and every later commitBlock returns ERROR_COMMITTING.
FailureStopsCommits == [][failures > 0 => UNCHANGED db]_vars

=============================================================================
