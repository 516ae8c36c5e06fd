# A verification development for FISCO BCOS (lab-bcos)

TLA+ modules that model the parts of a node that are hardest to test, TLC
configurations that check them on small instances, and theorems checked by TLAPS.
Every definition is translated from the code under `src/`; `PROJECT.json` maps them to
their lines (about three quarters of them; a small helper or state variable whose lines lie
within those of an operation that is mapped is not listed again), lists the runs, and gives
for every property a deliberately wrong variant of the code (the definitions with an underscore in their name, such as
`Rollback_OldestFirst`) under which TLC finds the property violated. These variants are
not used by the specifications.

## The system

A node belongs to a group. Its threads and their shared state:

| Part | State | Operations | Talks to |
|---|---|---|---|
| PBFT engine (`libconsensus/pbft`) | view, highest block, caches of prepare, sign, commit and view-change requests, persisted committed-prepare | handlers of four messages, timeout, fast view change, garbage collection, future block, report of a block | other miners, sealer, BlockChain, sync, pool |
| Sealer (`libconsensus/Sealer.cpp`) | block in preparation, sync flag | `doWork`, `reportNewBlock`, reset after a view change | engine, pool |
| Raft engine (`libconsensus/raft`) | term, vote, role, uncommitted block | elections, heart beats, commit hand-over | other nodes, sealer |
| BlockChainImp (`libblockchain`) | tables, commit mutex, block cache, node-list and configuration caches | `commitBlock`, look-ups | engine, sync, RPC |
| Transaction pool (`libtxpool`) | queue, dropped set, pool nonces, window of chain nonces | import, drop, top, `dropBlockTrans` | RPC, peers, sealer, engine, sync |
| Block sync (`libsync`) | sync state, known highest number, download queue, peers' statuses and requests | the sync thread's turn, packet handlers | peers, BlockChain, engine |
| Tables (`libstorage`) | rows cached per key, change log, opened tables with their authority lists, LevelDB | select, insert, update, remove, rollback, commit | precompiled contracts, Executive, BlockChain |
| Execution (`libexecutive`, `libblockverifier`) | savepoints of nested calls, context of a block | execute, call, revert, finalize | tables, contract state |
| Contract state (`libstoragestate`, `libmptstate`) | accounts, storage, change log; account cache, trie | read, write, savepoint, rollback, commit | Executive, tables, trie |
| Virtual machine (`libinterpreter`, `libevm`) | gas, memory, stack, program counter of a frame | instructions, calls into the host | Executive |
| Network (`libnetwork`, `libp2p`) | sessions, write queues, callbacks, topics | connect, send, request with timeout, heart beat | everything above |
| Channel server (`libchannelserver`) | clients, their topics and buffers | accept, request, push, disconnect | SDK clients, p2p, RPC |
| JSON-RPC (`librpc`) | one call, one HTTP request | reads of the chain while it grows | clients, BlockChain, pool |
| Set-up (`libledger`, `libinitializer`), databases (`libsecurity`, `libdevcore`) | configuration, genesis block, databases and their keys | start, edit, restart; open, read, write | everything |
| Objects and encodings (`libethcore`, `libdevcore`) | memoised hashes; bytes | encode, decode, hash | everything |

What is hard about it: messages arrive late, twice, in any order or never; a node crashes
between the backup of its commit lock and the commit of a block; the engine and block
sync commit blocks at the same time; the sealer loads transactions while the chain moves
under it; calls of contracts revert in the middle of a block; statuses and requests of
block sync are stale when they are used; sessions are replaced, dropped and timed out
while callbacks are on their way; two nodes that encode one thing in two ways no longer
agree. `PROJECT.json` lists these hazards at the line
where they bite, with the properties that would catch them.

## Modules

| Module | Models | Role |
|---|---|---|
| `PBFTLock` | the promise of the PBFT engine | abstract specification |
| `PBFTLockProofs` | | theorems about `PBFTLock` |
| `PBFTEngine` | `PBFTEngine.cpp`, `PBFTReqCache`, the sealer's part in a round | implements `PBFTLock` |
| `PBFTRefinement` | | the refinement mapping to `PBFTLock`; the scenarios of the PBFT runs |
| `PBFTNodeProofs` | | lemmas about what each handler does to one node |
| `PBFTEngineProofs` | | theorems about `PBFTEngine`, the refinement of `PBFTLock` among them |
| `BlockChain` | `BlockChainImp.cpp` | component |
| `BlockChainProofs` | | theorems about `BlockChain` |
| `TxPool` | `TxPool.cpp`, both nonce checks, the sealer loop, commits of engine and sync | composition of pool, sealer, chain |
| `TxPoolProofs` | | theorems about `TxPool` |
| `MemoryTableFactory` | tables, rollback, commit, five precompiled contracts, savepoints of Executive | component |
| `SyncMaster` | `SyncMaster.cpp`, `SyncMsgEngine.cpp`, download and request queues | component with its peers |
| `TxGossip` | `maintainTransactions`, `onPeerTransactions`, what peers know | pools and sync threads of several nodes |
| `Sealer` | the sealing loop and its callbacks | sealer beside sync, engine and view change |
| `Raft`, `RaftCommit` | `RaftEngine.cpp`: elections and heartbeats; the hand-over of a block to the engine thread | protocol, with its theorems; two threads of a node |
| `ConsensusTimers` | election timer of Raft, `TimeManager` of PBFT | clocks |
| `PBFTBroadcast` | `broadcastMsg`, `forwardMsg`, the broadcast cache | nodes that are not all connected |
| `Session` | `Session.cpp`, `Host::asyncSendMessage` | threads of one connection |
| `SessionProofs` | | theorems about `Session` |
| `P2PService` | `Host`, `Service`: connections and their sessions | two nodes, with a theorem |
| `Dispatch` | `Service::onMessage`, group ids, blocking requests | service, pool and peers |
| `Topics` | topic exchange, messages to a topic, push to a client | AMOP from end to end in three machines |
| `ChannelServer` | listening socket; client sessions with their locks | threads of the channel server |
| `Rpc` | methods of `Rpc.cpp` as sequences of reads; `SafeHttpServer` | calls beside a chain that grows |
| `Ledger` | `Initializer`, `LedgerManager`, `Ledger` | start, edits and restarts of a node |
| `Databases` | `EncryptedLevelDB`, `KeyCenter`, `DBInitializer`; `OverlayDB` | disk and failures |
| `Executive` | `Executive.cpp`, `BlockVerifier`, `StorageState` | nested executions over accounts in tables |
| `EVMCHost` | `ExtVM`, `EVMC`, `Executive::go` | how a frame ends, four times translated |
| `State`, `AccountState` | `libmptstate`; what `StateFace` promises | refinement and its abstract specification |
| `VM` | one frame of the interpreter; its way through the code | metering, control flow |
| `SystemContracts` | system configuration, name service, table objects | precompiled contracts of a block |
| `Block` | blocks, headers, transactions with memoised parts | objects |
| `RLP`, `RLPItems` | the RLP format; `RLP` objects and `RLPStream` | pure operators, then machines over them |
| `Messages` | PBFT, Raft and sync packets; frames on a byte stream | encodings and read loops |
| `TrieDB` | hex-prefix keys; `GenericTrieDB` over `MemoryDB` | data structure |
| `DevCore`, `EthCodec` | text conversions, `RangeMask`; ABI, blooms, word arithmetic, modexp | pure operators against reference definitions |
| `Workers` | `Worker`, `concurrent_queue` | threads |
| `MC...` | | constants and scenarios of the runs |

Some modules hold two or three state machines of one library that do not share
variables; their `Init`, `Next` and `Spec` then carry a prefix (`ReadNext` and
`WriteNext` of `RLPItems`, `ViewNext`, `SendNext` and `PushNext` of `Topics`).

### PBFTLock and PBFTEngine

`PBFTLock` keeps what safety rests on: each node's commit lock (the prepare request that
`PBFTEngine` backs up under the key "committed" before it broadcasts a CommitReq), the
commit votes, and the chains. A node votes above its lock, or for its lock again; a block
is saved when N - (N-1)/3 nodes have voted for it; block sync copies a block from another
chain.

`PBFTEngine` has the whole state of a node in `node[i]`; a handler of the code is an
operator from a node state to the next one, and each handler that runs under `m_mutex` is
one action: `HandlePrepareMsg`, `HandleSignMsg`, `HandleCommitMsg`,
`HandleViewChangeMsg`, `HandleBlock` (the sealer hands a block over), `HandleFutureBlock`,
`CheckTimeout`, `CollectGarbage`, `ReportNewBlock`, `Rehandle`; with them the sealer
(`ShouldSeal`, `WaitForTransactions`, its callback `OnViewChange`), block sync
(`SyncBlock`) and a crash (`Restart`). Sent messages stay available for ever, so
they are delivered late, repeatedly, out of order or not at all. A crash loses everything
but the chain and the backed-up lock. The refinement mapping reads the lock from the
committed-prepare, the votes from the CommitReqs sent, the chain from the chain.

Assumed: the nodes follow the code; execution is deterministic; the list of miners does
not change; signatures and hashes are ideal (a block is the sequence of its seals, so a
hash determines the whole prefix; execution changes the hash, which the model keeps);
timers fire at any time; a node does not get its own messages back. `minView` of
`canTriggerViewChange` depends on the iteration order of an `unordered_map`: the model
takes every order (`ViewOrder`).

### BlockChain

`commitBlock` tests number and parent before it tries the mutex, so it is a sequence of actions:
`Execute` (the block is executed on the chain of that moment), `CheckNumber`,
`CheckParentHash`, `TryLock`, then `Write`, `WriteThrows` (a batch that LevelDB refuses) or
`OpenSysTableFails` (caught, and the mutex released; `MemoryTableFactory` always opens a
system table, so only another factory gets there), and `Unlock`. A look-up reads the number or the position of a transaction, then the block cache, then the
storage, and adds to the cache; what another thread can come between is an action of its
own. The node lists and the system
configuration are cached per block number. A precompiled contract enables a row from the
number of its context plus one; the context carries the number of the parent block, so
the row is in force when the block that wrote it is committed.

### TxPool

Only the pool keeps a transaction out of a second block, so the module holds the chain,
the pool and the sealer loop (`SealerStep`) together: `shouldSeal`, the load under
`x_sealing`, the reset of the block, the report of a new block, and the three steps of
`dropBlockTrans` after a commit by the engine or by block sync. `Restart` loses the pool
and rebuilds the nonce window. Abstractions: the queue, a block and the block in
preparation are sets (the code orders the queue by import time, which no property depends
on, so `topTransactions` may return any transactions that pass its checks, up to the
limit); a block sealed by others has at most one transaction, within its block limit and
with a nonce that the window does not hold.

### SyncMaster

One node that downloads, in detail, and peers of which the answering part is modelled.
The turn of the sync thread is split at the points where it reads shared state
(`MaintainPeersConnection`, `MaintainDownloadingQueueBuffer`, `MaintainPeersStatus`,
`StartDownload`, `AlreadyFinished`, `CheckTop`, `CommitTop`, `TurnEnds`); packet handlers
run between any two of its steps; `RequestTimeout`, `Disconnect`, `Connect` and the
engine (`ExecBlock`, `NoteSealingBlockNumber`, `EngineCommits`) interfere. All chains are
prefixes of one chain, so a block is its number. A shard is asked of any peer that has
it; an answering turn sends at least one block. A peer keeps its requests in a priority
queue, a bag here: `topAndPop` merges those that overlap, and what one turn does not
serve goes back (`RestOf`). A peer that downloads itself does not answer. A block that
`isNewBlock` refuses or whose execution throws is taken out of the queue all the same
(`RefuseTop`).

### MemoryTableFactory

A factory (`m_name2Table` with authority lists, `m_cache` of each table, `m_changeLog`)
is created for each executed block and dropped or committed after it. `Execute` and
`NestedCall` push a savepoint, `Return` pops it, `Revert` rolls back to it. The calls are
those of the consensus, authority, table factory, table and entry contracts. A row has
the field conditions speak of, a value, a block number from which it holds and a status.
`SetField` is `Entry.set` on a row that `CRUDPrecompiled` selected: any of its fields, in a
user table or, as nothing there is checked, in a system table (`touched` remembers the
latter). The limit of a `Condition` is not in the calls of this module.
Beside each savepoint the model keeps what a reader saw then, and whether every change
since is one the log describes in full. The erase past the last element in
`Entries::removeEntry` is modelled by what libstdc++ does (the last row goes). A null
pointer in the cache ends the process (`Crash`). Dirty flags are left out: a key that was
only read is written back as it was read.

### Raft, RaftCommit, Sealer, ConsensusTimers, PBFTBroadcast

`Raft` has one action per message handler and timeout of `RaftEngine`; the timeouts fire
at any time here, and `ConsensusTimers` looks at when they do. Term, vote and the stored
block are lost in `Restart`, as in the code. `RaftCommit` takes one node apart into the
sealer thread in `shouldSeal` and `commit` and the engine thread, at every point where
`m_commitMutex` is released. `Sealer` is the loop of `Sealer::doWork` step by step from the
start of the engine on, beside `onBlockChanged`, the engine's commits and the view-change
callback, with transactions counted and the limit an unsigned number that wraps at `Word`;
`isSealed` is set before the engine gets the block and keeps it from being proposed twice.
The reset after a `generatePrepare` that fails is modelled although `broadcastMsg` never
fails. In `ConsensusTimers` a view change is asked for by setting back the two times that
`isTimeout` compares: under the lock when enough other nodes ask for it (`FastViewChange`,
in `handleViewChangeMsg`) or a block is empty, and in two writes without it when the sealer
thread finds that it is not connected to the leader (`ShouldSealConsensusTime`,
`ShouldSealSignTime`). `PBFTBroadcast` spreads one packet over a graph of miners and an
observer.

### Session, P2PService, Dispatch, Topics, ChannelServer

`Session` interleaves senders, the io thread, timers, the pool, `drop` and the stop of the
host at every lock and post. Each node numbers its requests itself and answers under the
number it was asked with, so both may use one number: `addSeqCallback` then keeps the entry
it finds, and the handler of the second is `ignored`. A timer starts after its handler was
registered; the code starts it some statements earlier, and a timer of that length is not
modelled. `P2PService` has both ends of each connection and the tasks of the pool;
handshakes fail and sessions break up to `MaxTroubles` times. A connection that nobody
accepts stays in the backlog until `ConnectTimeout`; after a handshake that fails at the
server nobody accepts any more (`Deaf`). `Dispatch` has the callers
that block on an answer and a pool with fewer threads than tasks. `Topics` follows an
AMOP message: the view of a peer's topics, the send with its retries over nodes, the push
with its retries over clients. `ChannelServer` has the locks of the channel server as
variables. Boost asio is external: a posted handler runs in the end, a started operation
ends with or without an error.

### Executive, EVMCHost, VM, State, SystemContracts

What a contract does is arbitrary: `Executive` chooses the next call, creation, suicide,
return or failure of the running frame; `VM` the next instruction with operands at the
edges of the 63-bit range (scaled to `Int63Max`); `EVMCHost` the way a frame ends, which
crosses the C interface as exception, status code, exception and status code. A call of a
precompiled contract runs no frame. A sender without the right to deploy is refused in the
middle of `create`, before the savepoint is taken, which rolls back to the start of the block
(`Refused` in `MCNode` is that instance, `denied` remembers it). `EVMCHost` counts
refunds of storage and of suicides, with the bound of `finalize` computed in unsigned words
from the gas that the transaction names. `State`
keeps the account cache, its eviction, the change log and the trie, and is compared by a
refinement mapping with `AccountState`, in which accounts are a function, a savepoint
remembers it and a rollback brings it back. `SystemContracts` shares rows between tables,
selections and row objects as the code does by pointers, so that `Entry.set` on a row that
`CRUDPrecompiled` selected from a system table writes that table (`asked.touched`); the gas
limit of the genesis block is not checked and may be below the minimum (`GenesisGas`).

### Encodings and objects

Byte values, word sizes and header thresholds are constants, so that every form of the
format occurs in strings of a few bytes. `RLPItems`, `Messages`, `EthCodec`, `DevCore`
and the keys of `TrieDB` enumerate all small inputs and compare what the code
computes with a reference definition. `Block` and `TrieDB` are machines: every sequence of
setters, copies, encodings and decodings, of insertions and removals. A hash is what it
is computed from. `appendExtraDataItem` is the one setter that keeps the hash it makes
stale, while `setExtraData` drops it; `patched` marks a header in which it did. The ABI
decoder reads words with `cropped`, which gives nothing of a range that exceeds the data,
and a bool always from the first word.

### Rpc, Ledger, Databases

A method of `Rpc` is a sequence of reads (`ReadsOf`) between which blocks are committed.
With the state in a trie, `call` reads accounts at the height it began with; with the state
in tables it reads them at the latest height. The tables of precompiled contracts, which the
code reads at the latest height in both cases, are no part of this model.
`Ledger` is the start of a node with edits of its files and stops at any point between;
block sync, engine and sealer start one after the other (`StartSync`, `StartEngine`,
`StartSealer`) while blocks are already committed (`Commit`), and the sealer reports a block
in a step of its own (`ReportNewBlock`). A block changes the limit, the miners and the
observers; each engine keeps its own list of miners.
`Databases` opens, writes and reopens databases with other keys and a key centre that may
be down; `OverlayDB` meets failing writes. A fatal log line ends the process only when fatal
logging is enabled (`FatalEnabled`), which the run assumes.

## Runs

Twelve runs. Every passing run explores all states of its scenarios. `protocol`,
`threads` and `node` check many components in one run: a variable `part` says which
component a behaviour runs and never changes, and the variables `v1`, `v2` ... stand for
those of the component; the module instantiates each component with constants of its
own, and its properties are conjunctions with one conjunct for each component they
concern. A behaviour never mixes two parts, so such a run is the union of the
separate ones.

| Run | What it shows |
|---|---|
| `protocol` | `PBFTLock` with four nodes, two seals, two heights: agreement, one vote per height. Raft: order of terms, votes of old terms refused, election window (`RaftOrder`); view-change and sealing are never left behind (`EngineTimely`), waits grow (`WaitsGrow`); a broadcast reaches every miner in its hops (`GossipReaches`). Encodings are inverted by their decoders (`CodecsInvert`) and unique (`EncodingsUnique`); the trie is a map with one root per contents (`TrieIsMap`); memoised hashes are fresh (`HashesFresh`), `appendExtraDataItem` apart in both; word arithmetic (`ArithmeticRight`) |
| `pbft_two_nodes` | two miners: the engine implements `PBFTLock` (`ImplementsLock`), and the prepare cache is of the current view and height. Scenarios: two heights, or one height with a crash, or one height with blocks without transactions, each with a view change |
| `pbft_four_nodes` | four miners: a quorum of signatures means a lock although the code tests for equality of the count; a view is entered only when a quorum asked for it. Scenarios: the sign phase of a view, or view changes of three nodes |
| `blockchain` | look-ups beside commits, the total (`LookupsAnswer`); the caches, whose answers are those of the tables until a block is written twice (`CachesSound`); a write that throws stops all later commits. Scenarios: two readers beside one committer; or one reader, who asks the tables for miners only, beside two committers, a block written twice and a failure |
| `txpool` | no nonce is in the chain twice, unless a view change falls between `shouldSeal` and the load (`NoReplay`); the nonce window is exact at all times, pool nonces are unique and released (`NoncesAgree`) |
| `tables` | the log undoes what it describes (`LogRestores`); authority is fixed within a block, a miner remains in force, a node is listed once, as long as only the contracts that own the system tables write them (`SystemTablesSound`); a commit changes nothing that is seen |
| `threads` | under fairness: who waits is woken (`NoLostWakeup`), hand-overs between threads (`HandOverSound`), what is believed of peers (`PeersKnown`); every asker is answered unless a live peer keeps silent (`AskersAnswered`), every blocking call returns (`ThreadsReturn`), connections, topics and transactions spread again unless a server is deaf, a static node is taken for this one or a packet was full (`NetworkHeals`), block sync catches up and ends (`SyncCompletes`) |
| `node` | block sync asks what can be served and forgets nothing (`SyncAsksRight`); packets and transactions go where they are meant (`DeliveredWhereMeant`); ledgers follow the genesis block, and sealer and engine the chain, apart from a block that comes while the sealer starts (`LedgerFollowsGenesis`); RPC answers are of one height (`AnswersConsistent`); databases keep what was committed (`DataKept`); a frame stays in its code, memory and gas (`FrameContained`), a transaction keeps its accounts (`TransactionAccounts`) and a failure is undone (`FailureUndone`), unless a deployment was denied; `State` implements `AccountState` (`StateRefines`); the system contracts, as long as no field of a system row is set through CRUD (`ContractsRight`) |
| `blockchain_commit_race`, `txpool_replay`, `tables_revert`, `sealer_limit` | violations: see below |

Bounds. Two heights let a lock of one height meet the next; two views let a vote of an
old view arrive in a new one; four nodes is the first size with a faulty node, two the
smallest with a quorum larger than one. Three blocks make the block cache (of size one)
overflow and the second block's rows meet readers of the first. Three transactions with one nonce and different
block limits meet a nonce window of one block and its successor that slides over a chain
of four, so that a nonce is forgotten and may be spent again. Two blocks to download make two shards, of which one can be
late, lost or answered in part; one disturbance at a time (`MaxTroubles`) keeps the sum of
the cases rather than their product. Three calls of contracts over two blocks and two
levels of calls reach grant, revoke and use; insert, remove and revert; add, demote and
remove. Three nodes and two terms let a vote of an old term arrive in a new one. Two
connection slots let connections of both directions overlap. Two items and two lists
make RLP nest; four keys with shared prefixes split, graft and merge trie nodes. Two
nested savepoints and three changes reach a rollback across a cached and an evicted
account. Two transactions let a denied deployment meet the rows of an earlier one; one seq
for a request and for the peer's makes the numbers of both ends collide; a limit of one
transaction in a packet leaves a second one waiting; equal listen ports make `heartBeat` take
a static node for this one. Three instructions are enough for memory to grow, be paid and be reused, as
operands are chosen at the edges. The constants of each part stand in the `INSTANCE`s of
`MCProtocol`, `MCThreads` and `MCNode`. Scenario constraints (in the other `MC` modules
and in `PBFTRefinement`) restrict a run to the union of the scenarios named above; in `txpool`, `drop` (which only
tests call) comes on an empty chain and once. Symmetry is used where nothing tells the
values apart: threads in `blockchain`, accounts and items in `tables`.

Deadlock is not checked where the modelled part may stop: a bounded number of heights,
messages, calls or inputs is used up.

Fairness (run `threads`; no other run assumes any). Weak fairness of the steps of threads
that loop, of tasks of a pool, of handlers posted to the io service and of timers that
were started: the code has no condition that can hold these for ever once they are
enabled. Not assumed: that a peer answers, that a connection stays, that anyone calls or
stops anything. In one conjunct more is assumed, and stated in the property: topics
are learnt for good if an answer that is sent again and again is received at some time,
and `RaftEngine::commit` returns if the node becomes a follower again and again. In
block sync, packets of a live session are delivered, the request timer fires, the heart
beat reconnects, and the engine or the sealer goes on to set the sealing number. PBFT does
the last after a failed commit (`PBFTEngine.cpp:777`), at each view change (1048, 1081) and,
through the sealer, after each block (`Sealer.h:138`); `RaftEngine` has the call after a failed
commit commented out (`RaftEngine.cpp:1479`), so `SyncCompletes` is about a group that runs
PBFT. As no peer has to answer, `sendMessageByNodeID` and `sendMessageByTopic`, whose
`Options()` have timeout 0, wait as long as a live peer keeps silent.

### Disagreements found

With a run:

* `blockchain_commit_race`: `commitBlock` tests the number before it takes the mutex and
  not again, so two threads write the same block twice, where the unit test expects
  `ERROR_NUMBER` for a block that is not next.
* `txpool_replay`: `doWork` tests `shouldSeal` before it locks `x_sealing`; a view change
  in between lets transactions that were just committed by block sync be loaded into the
  next block, although `topTransactions` says it checks nonces again. In the run one
  transaction fills a block, which is handed over before `reportNewBlock` runs; a block that
  is not full is kept by it, as its number is already right.
* `tables_revert`: "Revert all recent changes up to the given savepoint": a call that
  updates a key without rows, inserts its first row and is reverted leaves a null pointer
  in the cache.
* `sealer_limit`: a block lowers `tx_count_limit`, and the view-change callback resets the
  sealing block on top of it before `reportNewBlock` reads the limit again. The sealer fills
  the new block under the old limit, `reportNewBlock` lowers the limit and keeps the block,
  and it is proposed with more transactions than `m_maxBlockTransactions`, "the max number of
  transactions in a block".

Stated in the modules, without a run of their own; TLC finds each of them violated when
it is checked on the instances of `MCNode`, `MCThreads` and `MCProtocol` or, for
`MemoryTableFactory`, on the constants of `Tables.cfg`. The properties of the runs name them
as exceptions.

Chain, execution and contracts:

* `CachesFresh` without `WrittenOnce` (`BlockChain`, two committers): the second write of a
  block makes a cached node list or configuration older than the tables at the same number.
* `AuthorityFixedInBlock`, `MinerRemains` and `NodeListedOnce` without `touched`
  (`MemoryTableFactory`), and `GasLimitInForce`, `GasLimitAtLeastMin` and, with `MaxCalls` of 5,
  `NameBoundOnce` (`SystemContracts`): `CRUDPrecompiled` selects from system tables too, and
  `Entry.set` writes the row it was given without the tests of the contract that owns the
  table. A gas limit below the minimum also comes from the genesis block, where nobody tests
  it (`Ledger.cpp:225`).
* `OnlyThisExecution` (`Executive`, "Revert all changes made to the state by this execution",
  `Executive.h`): a deployment that is denied reverts to savepoint 0, which takes back what
  its callers and the earlier transactions of the block wrote. The later revert of a caller
  then undoes half a transfer, and balance appears.
* `CodeDeposited` (`Executive`, with `MaxTxs` of 2): a creation that succeeds at the
  address of one reverted earlier in the block is left without code, because the table of
  the account stayed open without rows.
* `UsesNoLessThanNothing` (`EVMCHost`): `finalize` bounds the refund by half of
  `m_t.gas() - m_gas` (`Executive.cpp:374-380`), where `m_gas` began as the gas limit of the
  block's transactions; when the transaction names less than is left, the difference wraps
  around and bounds nothing.
* `GetReachesRows` (`SystemContracts`): `EntriesPrecompiled.h:36` lists the selector of
  `get(int256)`; the code registers the name `" get(int256)"` with a leading blank
  (`EntriesPrecompiled.cpp:30`), whose selector is another one.
* `AlwaysDecodes` (`Block`): after `appendExtraDataItem` on a header that has its hash, the
  encoded hash is the old one and `Block::decode` refuses the block.
* `AbiReturnsAll` (`EthCodec`): a bool is decoded from the first word wherever it stands
  (`ABI.h:163-168`).

Set-up and databases:

* `NoBlockMissed` (`Ledger`): a block that sync commits before `Sealer::start` takes the flag
  down is never reported, and the sealer keeps the old limit until the next block.
* `MarkHasSevenFields` (`Ledger`): `checkAndBuildGenesisBlock` asserts seven fields, but the
  split joins the separators around an empty node list.
* `OnlyValidSections` (`Ledger`): a group number of `config.ini` is converted to a signed
  8-bit number before `LedgerManager.h:65` tests that it is at least 1 and at most 127.
* `RetriesWrite` (`Databases`): `OverlayDB::commit` announces a retry after a failed
  write, but has moved the batch away in the first attempt (`OverlayDB.cpp:77`); each retry
  fails, and the process ends although the disk may work again.
* `ReadsLast` and `StampTells` with `FatalEnabled` of `FALSE` (`Databases`): after a fatal log
  line that does not end the process, `EncryptedLevelDB.cpp:123-149` opens the database with
  another key than it was made with.

Network:

* `Reconnects` (`P2PService`, "reconnect all nodes recorded in m_staticNodes periodically",
  `Host.cpp`): after a handshake that fails at the server (`Host.cpp:217-225`) `startAccept` is
  not called again; and a static node that listens on the same port number as this node is
  taken for it (`Service.cpp:111-112`).
* That every request has its callback called (`ignored` of `Session` stays empty): both ends
  count their requests from 1 (`P2PMessage.h:127-133`), an answer is sent, and an empty
  callback registered, under the number it answers (`P2PSession.cpp:208-211`), the map is keyed
  by the number alone, and `addSeqCallback` ignores a second entry (`Session.h:93`). The
  callback of the request is lost; if it has a timer, the timer calls an empty function and
  the process ends.
* That every transaction reaches every pool without help (`Reached` of `TxGossip` excepts it):
  transactions beyond the limit of one packet wait until another one is imported
  (`SyncMaster.cpp:133-136`).
* `DisconnectCloses` (`ChannelServer`): `ChannelSession::disconnect` holds the mutex of the
  session while `ChannelRPCServer::onDisconnect` waits for `_seqMutex`; `SendResponse` holds `_seqMutex`
  while it waits for the mutex of the session. Neither goes on, and the socket is not
  closed after 30 seconds (`ChannelSession.cpp:575`).

## Proofs

Eight modules hold theorems or the lemmas under them; each theorem is proved for every
value of the constants that the named `ASSUME`s of its component admit, under the
hypotheses it states. TLC checked each inductive invariant on the instances of the runs
before it was proved.

| Theorem | States | Hypotheses beside `Spec` |
|---|---|---|
| `PBFTLockProofs!TypeInvariant`, `OneVoteInvariant`, `AgreementInvariant` | types; one vote per height; one block per height | |
| `PBFTEngineProofs!EngineImplementsLock` | the engine refines `PBFTLock` | |
| `EngineAgreement`, `EngineNoDoubleCommit` | chains agree; one CommitReq block per height | |
| `EnginePrepareIsCurrent`, `EngineSignQuorumLocks`, `EngineViewHasQuorum` | the invariants of the PBFT runs | |
| `BlockChainProofs!FailureStops`, `LookupsSucceed`, `CachesKeepBounds` | commits after a failure; look-ups; bounds of the cache | |
| `BlockChainProofs!CachesNeverMislead` | cached answers are those of the tables until a block is written twice | |
| `TxPoolProofs!NonceSpentOnce`, `PoolSound` | no replay; window exact, pool nonces unique | no view change between `shouldSeal` and the load |
| `TxPoolProofs!PoolAgrees` | the above and that nonces are let go | the same, and fewer than `Limit` dropped transactions |
| `Raft!TermsOrdered`, `LeaderKeepsOffice` | order of a node's terms; old vote requests refused | |
| `SessionProofs!NoMessageStuck` | a queued message has a writer | |
| `SessionProofs!DropForgetsNothing` | `drop` leaves no request without its callback, unless the peer has asked under the same seq | |
| `P2PService!SessionsInSight` | no running session outside `m_sessions` | |

### PBFTLockProofs

For every number of miners `N`, every set of seals and every bound on the block number:

* `TypeInvariant`: `Spec => []TypeOK`;
* `OneVoteInvariant`: a node votes for at most one block at each height;
* `AgreementInvariant`: two nodes that have saved a block at one height have saved the
  same block.

The argument. Votes are never withdrawn, and a node moves its lock only upwards.
`OneVotePerHeight` is not inductive alone: that the new vote does not meet an older one
at its height needs `VotesUnderLock` (every vote of a node is for its lock or for a block
below the height of its lock). Agreement needs `ChainChosen`: every block of a chain has
a quorum of votes. Two quorums of N - (N-1)/3 nodes intersect (a counting lemma on
cardinalities), a node in the intersection has voted for both blocks, and one vote per
height makes them equal. The proof has one step per action (vote, save, sync).

### PBFTEngineProofs

For any number of miners, any set of them down, any payloads and any bounds on views,
heights and restarts:

* `EnginePrepareIsCurrent`, `EngineSignQuorumLocks`, `EngineViewHasQuorum`: the invariants
  of the two PBFT runs;
* `EngineImplementsLock`: `Spec => ImplementsLock`, every step of the engine is a step of
  `PBFTLock` under the refinement mapping or leaves its variables alone;
* `EngineAgreement` and `EngineNoDoubleCommit`: the theorems of `PBFTLockProofs` carried
  over to the engine's own chains and CommitReqs (`ChainsAgree`, `NoDoubleCommit`).

The inductive invariant `EngineInv` has four parts. `NodeInv` is about one node: the types
of its caches; the height it works on follows the highest block it was told of, and its
lock is not above that height (`Heights`); a prepare that is not empty is of this view and
height, is the execution of the raw prepare, and agrees with a lock of the same height
(`PrepareCurrent`); the commit cache has one entry per node and block, the view-change cache
one per node and view (`OneCommitEach`, `OneViewChangeEach`); a quorum of signs means a lock
(`QuorumLocks`). `QuorumLocks` speaks of every block, not only of the one in the prepare
cache, because a prepare that is displaced and comes back finds its signs still there. The
other parts relate nodes: what is in a cache was sent by the node it names (`Authentic`),
and `ViewHasQuorum`. A handler is an operator on node states, so the proof has a lemma for
each operator of the code (what `checkAndCommit`, `checkAndSave`, `reportBlock`,
`checkAndChangeView` ... keep of `NodeInv`, and which of lock, votes and chain they move),
and then one step per action that puts them together. Between adding a sign and
`checkAndCommit` the invariant is broken; `QuorumReady` says how.

The refinement needs `EngineInv` twice: a CommitReq is sent for the execution of the block
just locked, which is above the old lock or the same, and a block is saved from cached
requests of a quorum of different nodes, all of them really sent.

### BlockChainProofs

For any number of committing and reading threads, any blocks and any size of the cache.
Assumed of the blocks (`BlockAssumption`, `ForkAssumption`): a hash names one block, a block
has the number after its parent's, and no two blocks have one parent. The last is what
PBFT provides (`EngineAgreement`).

* `FailureStops`: `Spec => FailureStopsCommits`. `CommitInv` says that the thread that writes
  holds the mutex and that after a failure the mutex is held by no thread that will release it.
* `LookupsSucceed`: every look-up of a block or transaction of the chain finds it, also
  while two threads write one block twice (the race that `blockchain_commit_race` shows).
  `LookupInv` relates the tables to the chain and every query in progress to what it has
  read so far.
* `CachesKeepBounds`: the block cache never exceeds its size, and holds no hash that its
  FIFO does not.
* `CachesNeverMislead`: `Spec => []CachesSound`, for any number of committing threads.
  `CachesSound` promises fresh answers as long as no block has been written twice
  (`WrittenOnce`): the second write makes a cached list or configuration older than the
  tables at the same number. `FreshInv` adds, while `WrittenOnce`, that the numbers of the
  chain have no gap and that no query and no cache is ahead of it.

`TotalIsSum` (the total of transactions is the sum over the blocks, the rest of
`LookupsAnswer`) is defined by a fold, so its proof is an induction over data: it stays with
TLC.

### TxPoolProofs

For any transactions, nonces and block limits, any limit of the pool, any width of the
nonce window and any length of the chain:

* `NonceSpentOnce`: `Spec /\ [][NoViewChangeBeforeLoad]_vars => []NoReplay`;
* `PoolSound`: under the same condition `[](TypeOK /\ WindowIsExact /\ PoolNoncesUnique)`.

The condition is the one that `txpool_replay` shows to be necessary. `NoReplay` says that one
transaction is in one block only, and that two transactions of one nonce are more than
`MaxBlockLimit + 1` blocks apart. The proof found the exception that the statement now
names: a `dropBlockTrans` that is late by more blocks than the window covers deletes a
nonce from the pool's nonces while a new transaction holds it, so that a second one with
this nonce is imported and one block may hold both.

The argument. A transaction may be in a block only within its block limit, which is
narrower than the window; so a block of which every nonce is outside the window (`Fresh`)
never repeats a transaction (`AppendFresh`). `PoolInv` says when the sealer's transactions
are fresh: `WindowOK` (the window is that of the chain, or of the chain some blocks ago
while a thread is between `commitBlock` and `updateCache`), `CommitsOK` (which blocks these
threads still have to report), `HeightsOK` and `SealerOK` (in which states of the sealer its
block is on top of the chain, and the engine can commit it), and `HeldOK` (every transaction
in queue or sealer has its nonce in the pool's nonces, once).

`PoolAgrees` adds `NoncesReleased`, the rest of `NoncesAgree`: a nonce of the pool is that of
a queued or a dropped transaction, or of one that `dropBlockTrans` of some thread is about to
delete. Its invariant adds `IdleIsEmpty` (a thread that has nothing to drop holds no
transactions) to `PoolInv`. The hypothesis `[]DroppedFits`, fewer than `Limit` dropped
transactions, is needed: `drop` clears the set of dropped hashes when it is full, and with
it the reason why their nonces are kept. The run stays within it by `FewDrops`.

### Raft

For any set of nodes and any bound on terms, blocks and messages, with messages delivered
late, repeatedly or never and nodes that restart without their term:

* `TermsOrdered`: `Spec => []TermOrder`;
* `LeaderKeepsOffice`: `Spec => []OldVoteReqRefused`.

`TermOrder` alone is not inductive. `CandidateTimeout` and the answer FIRST_VOTE take a term
back by one, which keeps the order only because a candidate's last leader is strictly
older; a granted vote takes over the term of the request, which is above the voter's last
leader only because the sender was a candidate when it sent it. So `RaftInv` adds what the
terms of each message say of its sender (`MessageOK`), and that LEADER_REJECT is never sent:
a later test of `handleVoteRequest` always replaces it. `LeaderKeepsOffice` follows: a
leader's last leader term is its own, so the test of the last leader's term refuses each
request that is not newer, although the test meant for it (`LEADER_REJECT`) lets it pass.

### SessionProofs

For any number of requests, of answers to the peer and of timeouts:

* `NoMessageStuck`: `Spec => []WriterExists`;
* `DropForgetsNothing`: `Spec => [](DropSettles /\ IgnoredCollide)`, also when the sequence
  numbers of both ends collide. `DropSettles` is about the requests that were not `ignored`,
  and `IgnoredCollide` says that a handler is ignored only when the peer has asked under the
  same number.

`WriterInv` adds to `WriterExists` that a closed socket or a `drop` under way means a session
that is not active (`ClosedByDrop`): otherwise `write` could leave `m_writing` set with
nobody writing. `SettleInv` follows each request from its registration on (`Tracked`): its
callback was called, a task of the pool will call it, or its handler is in the map and the
timer of a timed request runs. `DropSettles` alone says nothing of the steps before `drop`
has ended, in which an answer, the timer and `drop` take the handler from each other.

### P2PService

For any set of nodes and of static nodes and any number of connections that overlap:
`SessionsInSight`, `Spec => []NoOrphanSession`. `onConnect` overwrites an entry of `m_sessions`
whose session does not run. `SessionInv` says for each end of each connection that a
running session is that of its node's table and that its two nodes differ (`Held`):
without the last, the end that `onConnect` looks at need not be the end of the entry. The
proof shows of each step that it only ends sessions (`Shrinks`) or puts the new one in the
table.

### What stays with TLC

* Liveness under fairness and everything about `ENABLED`: run `threads`.
* What a recursive definition or a fold computes for every input: the codecs, the trie, the
  word arithmetic, `TotalIsSum` of the chain. The modules that use `RECURSIVE` operators
  (`RLP`, `RLPItems`, `TrieDB`, `DevCore` and those built on them) carry no theorem.
* `LogRestores`, `SystemTablesSound` and `CommitKeepsRows` of the tables: undoing a change log
  is a fold over it, rows are selected with `SelectSeq`, and what either returns for every
  input is an induction over data. For the same reason `SyncAsksRight` (the flush of downloaded
  shards is a fold, the size of the queue a sum over a set) and `StateRefines` (a rollback
  is a recursive function over the change log).
* The hand-overs of two threads without a set of processes, `CommitAssertion` of `RaftCommit`
  and `StopIsQuiet` of `Workers`: their only constants are bounds, and the run explores every
  state of their control.
* The other components of `protocol`, `node` and `threads`, for which no inductive invariant
  has been worked out. The invariants proved of `Raft`, `Session` and `P2PService` are conjuncts
  of `RaftOrder`, `NoLostWakeup`, `PeersKnown` and `DeliveredWhereMeant` in these runs.

## Not modelled

* The algorithms of cryptography and hashing: ideal in the modules.
* The logger, JSON library, file access, printing and the demo programs.
* Byzantine nodes: the nodes follow the code.
* In PBFT, a change of the miner list while a round runs; a group of a single miner.
* The contents of memory and stack of the interpreter, the layout of JSON answers, the
  hash of the tables, certificates beyond a name and a revocation list.
* `FatGenericTrieDB` and `SpecificTrieDB`, thin wrappers of the trie that is modelled.
* Two storage slots of one account: each account has one.
* A timeout of a request that is so short that it ends before its handler is registered
  (`Host.cpp` starts the timer some statements earlier).
* The node with fatal logging disabled, except as the instance of `Databases` named above.
* The progress of PBFT beyond its timers: that a round commits in the end needs a synchrony
  the code does not state.

`PROJECT.json` gives the reason for each part that is not modelled in full.
