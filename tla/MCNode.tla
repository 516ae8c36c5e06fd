------------------------------- MODULE MCNode -------------------------------
(* What one node does around its consensus, each part on an instance of its own:
   block sync and the gossip of transactions, the network and its clients, the set-up
   of ledgers, the databases, and the execution of transactions.                  *)
EXTENDS Integers, Sequences, FiniteSets

\* part is the component of a behaviour and never changes; v1 and the others stand for
\* the variables of the component, in the order of its INSTANCE, and are 0 when it has
\* no use for them.
VARIABLES
    part, v1, v2, v3, v4, v5, v6, v7, v8, v9, v10, v11, v12, v13, v14, v15, v16,
    v17, v18, v19

\* Block sync of a node that joins two peers of different heights and asks both at
\* once, without interference.
Sync == INSTANCE SyncMaster WITH
    number <- v1, sealingNumber <- v2, state <- v3, knownHighest <- v4,
    maxRequest <- v5, waiting <- v6, peerStatus <- v7, buffer <- v8, blocks <- v9,
    thread <- v10, sessions <- v11, peerNumber <- v12, knownBy <- v13,
    reqQueue <- v14, answering <- v15, peerSyncing <- v16, net <- v17, dropped <- v18,
    troubles <- v19,
    Peer <- {"a", "b"}, InitPeerNumber <- [a |-> 1, b |-> 2], RequestBlocks <- 1,
    RequestShards <- 2, QueueSize <- 4, BufferSize <- 3, RequestQueueSize <- 2,
    MaxNumber <- 2, MaxTroubles <- 0

\* The same with one request in a turn; a session, a timer, a refused block, a download
\* of a peer or the engine interferes once.
Shaken == INSTANCE SyncMaster WITH
    number <- v1, sealingNumber <- v2, state <- v3, knownHighest <- v4,
    maxRequest <- v5, waiting <- v6, peerStatus <- v7, buffer <- v8, blocks <- v9,
    thread <- v10, sessions <- v11, peerNumber <- v12, knownBy <- v13,
    reqQueue <- v14, answering <- v15, peerSyncing <- v16, net <- v17, dropped <- v18,
    troubles <- v19,
    Peer <- {"a", "b"}, InitPeerNumber <- [a |-> 1, b |-> 2], RequestBlocks <- 1,
    RequestShards <- 1, QueueSize <- 4, BufferSize <- 3, RequestQueueSize <- 2,
    MaxNumber <- 2, MaxTroubles <- 1

\* Two transactions between two nodes, of which b has room for one, may download and
\* commits blocks.
Gossip == INSTANCE TxGossip WITH
    pool <- v1, done <- v2, knownBy <- v3, newTxs <- v4, downloading <- v5,
    peers <- v6, thread <- v7, net <- v8, missed <- v9, troubles <- v10,
    Node <- {"a", "b"}, Tx <- {"t", "u"}, PoolLimit <- [a |-> 2, b |-> 1],
    SendLimit <- 2, MayDownload <- {"b"}, MayCommit <- {"b"}, MaxTroubles <- 1

\* Two nodes that have each other as static nodes; connections break during the
\* handshake or later.
Net == INSTANCE P2PService WITH
    run <- v1, accepting <- v2, staticNodes <- v3, pendingConns <- v4,
    tcpClient <- v5, sessions <- v6, conn <- v7, troubles <- v8,
    Node <- {"a", "b"}, Conn <- {1, 2}, Static <- [a |-> {"b"}, b |-> {"a"}],
    ListenPort <- [a |-> 1, b |-> 2], Crl <- [a |-> {}, b |-> {}],
    Breaks <- {"handshake", "session"}, MaxTroubles <- 1, MayStop <- {}

\* Packets of two groups with one peer.
Route == INSTANCE Dispatch WITH
    actived <- v1, nodeList <- v2, registered <- v3, tasks <- v4, busy <- v5,
    caller <- v6, packets <- v7, handled <- v8, sent <- v9,
    Peer <- {"p"}, Group <- {1, 2}, Module <- {1}, ModuleBits <- 2, GroupBits <- 2,
    NodeLists <- {{"p"}}, Topics <- {}, Worker <- {"w1"}, MaxPackets <- 1

\* Two configuration sections, an edit of the files and a restart.
Ledgers == INSTANCE Ledger WITH
    ini <- v1, file <- v2, disk <- v3, stage <- v4, todo <- v5, ledgers <- v6,
    nodeList <- v7, failure <- v8, edits <- v9, blocks <- v10,
    GroupBits <- 3, Sections <- {1, 4, 10}, ConsensusType <- {"pbft", "raft"},
    StateType <- {"mpt", "storage"}, StorageType <- {"LevelDB", "External"}, Limit <- {1, 2},
    NodeList <- {{}, {"x"}, {"x", "y"}}, MaxSections <- 2, MaxEdits <- 1, MaxBlocks <- 1

\* Two blocks and restarts with the files as they are.
Reports == INSTANCE Ledger WITH
    ini <- v1, file <- v2, disk <- v3, stage <- v4, todo <- v5, ledgers <- v6,
    nodeList <- v7, failure <- v8, edits <- v9, blocks <- v10,
    GroupBits <- 3, Sections <- {1}, ConsensusType <- {"pbft", "raft"},
    StateType <- {"mpt"}, StorageType <- {"LevelDB"}, Limit <- {1, 2},
    NodeList <- {{"x"}, {"x", "y"}}, MaxSections <- 1, MaxEdits <- 0, MaxBlocks <- 3

\* rpc: JSON-RPC calls beside a chain of two blocks that grows.
\* http: Two connections with two requests in up to two pieces.
Json == INSTANCE Rpc WITH
    chain <- v1, pool <- v2, peers <- v3, call <- v4,
    running <- v1, handler <- v2, req <- v3, con <- v4, leaked <- v5, reply <- v6,
    served <- v7,
    Group <- {1}, GroupId <- {2, 9}, GroupBits <- 3, Tx <- {"t", "d"},
    Deploy <- "d", Text <- {"1", "-1", "latest"},
    Parses <- [t \in {"1", "-1"} |-> IF t = "1" THEN 1 ELSE -1], StateType <- "mpt",
    MaxBlock <- 2, Conn <- {"c1", "c2"}, Interfaces <- <<{"getBlockNumber"}>>,
    Call <- {"getBlockNumber"}, MaxPieces <- 2, MaxRequests <- 2, MaxLeaked <- 1

\* The same calls when the state is that of the tables.
Tabled == INSTANCE Rpc WITH
    chain <- v1, pool <- v2, peers <- v3, call <- v4,
    running <- v1, handler <- v2, req <- v3, con <- v4, leaked <- v5, reply <- v6,
    served <- v7,
    Group <- {1}, GroupId <- {2, 9}, GroupBits <- 3, Tx <- {"t", "d"},
    Deploy <- "d", Text <- {"1", "-1", "latest"},
    Parses <- [t \in {"1", "-1"} |-> IF t = "1" THEN 1 ELSE -1], StateType <- "storage",
    MaxBlock <- 2, Conn <- {"c1", "c2"}, Interfaces <- <<{"getBlockNumber"}>>,
    Call <- {"getBlockNumber"}, MaxPieces <- 2, MaxRequests <- 2, MaxLeaked <- 1

\* encrypted: An encrypted database that is closed, reconfigured twice and opened
\* again, with a key centre that may be down.
\* overlay: Two trie nodes, and two failed writes of LevelDB.
Disk == INSTANCE Databases WITH
    config <- v1, keyFile <- v2, centre <- v3, cache <- v4, stage <- v5, db <- v6,
    handle <- v7, written <- v8, edits <- v9, writes <- v10,
    main <- v1, aux <- v2, disk <- v3, pc <- v4, batch <- v5, attempt <- v6,
    faults <- v7, held <- v8,
    Cipher <- {"c1", "c2"}, DataKey <- [c1 |-> "d1", c2 |-> "d2"],
    CentreState <- {"up", "down", "error"}, FatalEnabled <- TRUE, Key <- {"k"},
    Value <- {"v"}, MaxEdits <- 2, MaxWrites <- 2, Node <- {"m", "n"}, MaxRefs <- 2,
    Attempts <- 3, MaxFaults <- 2

\* vm: Three instructions with operands at the edges of the gas and memory range.
\* code: All codes of up to five bytes with jumps, pushes and other instructions.
Interp == INSTANCE VM WITH
    gas <- v1, given <- v2, static <- v3, mem <- v4, touched <- v5, height <- v6,
    ret <- v7, effects <- v8, status <- v9, steps <- v10,
    code <- v1, jumpDests <- v2, pc <- v3, stack <- v4, bounce <- v5,
    Int63Max <- 100000, Word <- {0, 64, 99990, 150000}, InitialGas <- {800, 60000},
    StackLimit <- 8, MaxSteps <- 3, MaxCode <- 5, MaxPush <- 2, CodeStackLimit <- 2

\* One transaction with nested calls, creations, suicides and reverts between four
\* accounts.
Exec == INSTANCE Executive WITH
    state <- v1, stack <- v2, result <- v3, txs <- v4, logged <- v5, failed <- v6,
    receipt <- v7, denied <- v8,
    Address <- {"u", "c", "d", "e"}, User <- "u", Contract <- "c", Precompiled <- {},
    Derived <- [u |-> <<"d">>, c |-> <<"e">>, d |-> <<>>, e |-> <<>>],
    MayDeploy <- TRUE, TxGas <- 3, MaxCodeSize <- 1, MaxDepth <- 2, MaxTxs <- 1

\* Two transactions of a sender without the right to deploy, with calls of a precompiled
\* contract.
Refused == INSTANCE Executive WITH
    state <- v1, stack <- v2, result <- v3, txs <- v4, logged <- v5, failed <- v6,
    receipt <- v7, denied <- v8,
    Address <- {"u", "c", "p"}, User <- "u", Contract <- "c", Precompiled <- {"p"},
    Derived <- [u |-> <<>>, c |-> <<>>, p |-> <<>>],
    MayDeploy <- FALSE, TxGas <- 2, MaxCodeSize <- 1, MaxDepth <- 2, MaxTxs <- 2

\* Two calls of a contract and its callees that write storage, fail or throw.
Host == INSTANCE EVMCHost WITH
    store <- v1, frames <- v2, charged <- v3, burnt <- v4, deletions <- v5,
    destroyed <- v6, failed <- v7, receipt <- v8,
    Address <- {"c", "d"}, MayStore <- {"c"}, InitialGas <- 2, TransactionGas <- {0, 2},
    Word <- 64, SetGas <- 2, ResetGas <- 1, RefundGas <- 3, SuicideRefundGas <- 10,
    Throws <- {"BadInstruction", "VMException", "bad_alloc"},
    MaxDepth <- 3, CallGas <- {1}, MaxCalls <- <<2, 1>>

\* The account cache of two accounts with nested savepoints, three changes and a
\* cache without room.
Cached == INSTANCE State WITH
    trie <- v1, cache <- v2, missing <- v3, unchanged <- v4, changeLog <- v5,
    saves <- v6, changes <- v7,
    Address <- {"a", "b"}, Value <- {0, 1}, Code <- {1}, CacheLimit <- 0,
    MaxSaves <- 2, MaxChanges <- 3, MaxNonce <- 1, MaxBalance <- 1

\* Four calls of the precompiled contracts over two blocks.
System == INSTANCE SystemContracts WITH
    db <- v1, ctx <- v2, answer <- v3, asked <- v4, calls <- v5,
    Gas <- {3, 5, -1, 16}, Word64 <- 16, MinGas <- 4, DefaultGas <- 8, GenesisGas <- {3, 4},
    Name <- {"n"}, Version <- {"v", "w"}, Address <- {"a", "b"},
    Field <- {"x", "y"}, TableField <- {"x"}, Num <- {1, -1},
    Stored <- {<<>>, <<[fields |-> [x |-> {1}], status |-> 0], [fields |-> [x |-> {2}], status |-> 0]>>},
    Word256 <- 8, IntMax <- 2, MaxHandles <- 3, MaxCalls <- 4, MaxNumber <- 2

-----------------------------------------------------------------------------
\* The variables that a component with this many of them leaves alone.
Zero10 ==
    v11 = 0 /\ v12 = 0 /\ v13 = 0 /\ v14 = 0 /\ v15 = 0 /\ v16 = 0 /\ v17 = 0
    /\ v18 = 0 /\ v19 = 0
Zero9 == v10 = 0 /\ Zero10
Zero8 == v9 = 0 /\ Zero9
Zero7 == v8 = 0 /\ Zero8
Zero5 == v6 = 0 /\ v7 = 0 /\ Zero7
Zero4 == v5 = 0 /\ Zero5
Same10 == UNCHANGED <<v11, v12, v13, v14, v15, v16, v17, v18, v19>>
Same9 == UNCHANGED <<v10>> /\ Same10
Same8 == UNCHANGED <<v9>> /\ Same9
Same7 == UNCHANGED <<v8>> /\ Same8
Same5 == UNCHANGED <<v6, v7>> /\ Same7
Same4 == UNCHANGED <<v5>> /\ Same5

all ==
    <<part, v1, v2, v3, v4, v5, v6, v7, v8, v9, v10, v11, v12, v13, v14, v15, v16, v17, v18,
      v19>>

PartInit ==
    \/ part = "sync" /\ Sync!Init
    \/ part = "shaken" /\ Shaken!Init
    \/ part = "gossip" /\ Gossip!Init /\ Zero10
    \/ part = "p2p" /\ Net!Init /\ Zero8
    \/ part = "dispatch" /\ Route!Init /\ Zero9
    \/ part = "ledger" /\ Ledgers!Init /\ Zero10
    \/ part = "reports" /\ Reports!Init /\ Zero10
    \/ part = "rpc" /\ Json!RpcInit /\ Zero4
    \/ part = "tabled" /\ Tabled!RpcInit /\ Zero4
    \/ part = "http" /\ Json!HttpInit /\ Zero7
    \/ part = "encrypted" /\ Disk!DiskInit /\ Zero10
    \/ part = "overlay" /\ Disk!OverlayInit /\ Zero8
    \/ part = "vm" /\ Interp!FrameInit /\ Zero10
    \/ part = "code" /\ Interp!CodeInit /\ Zero5
    \/ part = "executive" /\ Exec!Init /\ Zero8
    \/ part = "refused" /\ Refused!Init /\ Zero8
    \/ part = "host" /\ Host!Init /\ Zero8
    \/ part = "state" /\ Cached!Init /\ Zero7
    \/ part = "contracts" /\ System!Init /\ Zero5

PartNext ==
    /\ UNCHANGED part
    /\ \/ part = "sync" /\ Sync!Next
       \/ part = "shaken" /\ Shaken!Next
       \/ part = "gossip" /\ Gossip!Next /\ Same10
       \/ part = "p2p" /\ Net!Next /\ Same8
       \/ part = "dispatch" /\ Route!Next /\ Same9
       \/ part = "ledger" /\ Ledgers!Next /\ Same10
       \/ part = "reports" /\ Reports!Next /\ Same10
       \/ part = "rpc" /\ Json!RpcNext /\ Same4
       \/ part = "tabled" /\ Tabled!RpcNext /\ Same4
       \/ part = "http" /\ Json!HttpNext /\ Same7
       \/ part = "encrypted" /\ Disk!DiskNext /\ Same10
       \/ part = "overlay" /\ Disk!OverlayNext /\ Same8
       \/ part = "vm" /\ Interp!FrameNext /\ Same10
       \/ part = "code" /\ Interp!CodeNext /\ Same5
       \/ part = "executive" /\ Exec!Next /\ Same8
       \/ part = "refused" /\ Refused!Next /\ Same8
       \/ part = "host" /\ Host!Next /\ Same8
       \/ part = "state" /\ Cached!Next /\ Same7
       \/ part = "contracts" /\ System!Next /\ Same5

PartSpec == PartInit /\ [][PartNext]_all

-----------------------------------------------------------------------------
(* Properties *)

\* SyncMaster and DownloadingBlockQueue: the numbers of sync stay within the chain
\* and no queue outgrows its limit by more than the shard the limit lets in; a peer
\* is asked only for blocks it has; and while the node waits for a download every
\* block up to the highest requested one is on its way, queued or committed.
SyncAsksRight ==
    /\ part = "sync" => Sync!TypeOK /\ Sync!RequestsServable /\ Sync!NothingForgotten
    /\ part = "shaken" => Shaken!TypeOK /\ Shaken!RequestsServable /\ Shaken!NothingForgotten

\* A peer is marked as knowing a transaction only when it has had it, is about to be
\* sent it, has it on the way, or did not take it in (maintainTransactions); with
\* connections of both directions at once, a session started and not stopped is the
\* one m_sessions has for its node; a packet is handled by the handler of its group
\* and module only (Service::onMessage); and what a group sends goes to the nodes of
\* the group.
DeliveredWhereMeant ==
    /\ part = "gossip" => Gossip!MarksMeanSent
    /\ part = "p2p" => Net!NoOrphanSession
    /\ part = "dispatch" => Route!HandledByItsModule /\ Route!StaysInGroup

\* Ledger::initBlockChain: after an edit of its file a group runs the consensus and the
\* state of its genesis block, if that has a node list. Across commits and restarts, a
\* sealer that has reported the blocks it was told of has the limit of the chain
\* (createPBFTSealer, reportNewBlock), its engine the miners of the chain, and the p2p
\* service the same nodes (updateConsensusNodeList, updateMinerList); a block that comes
\* while the sealer starts is the exception.
LedgerFollowsGenesis ==
    /\ part = "ledger" => Ledgers!TypeOK /\ Ledgers!GenesisDecides /\ Ledgers!LimitOfChain
    /\ part = "ledger" => Ledgers!MinersOfChain
    /\ part = "reports" => Reports!LimitOfChain /\ Reports!MinersOfChain

\* Rpc: an answer is that of one height of the chain, at which the call ran or that
\* it asked for, and a transaction in it is at the block and index the answer gives.
\* When the state is kept in tables, the output of call may be that of a later height
\* than the block number beside it.
\* SafeHttpServer::callback: the answer of a connection is that of the whole body of
\* its last request.
AnswersConsistent ==
    /\ part = "rpc" => Json!AnswersOneHeight /\ Json!TransactionsWhereSaid
    /\ part = "tabled" => Tabled!AnswersOneHeight /\ Tabled!TransactionsWhereSaid
    /\ part = "http" => Json!AnswersWholeRequest

\* EncryptedLevelDB: an open database reads what was written last, before any
\* restart too, and is never opened with another key than it was made with.
\* OverlayDB::commit: a node that was committed is found, on disk or still in
\* memory.
DataKept ==
    /\ part = "encrypted" => Disk!TypeOK /\ Disk!ReadsLast /\ Disk!StampTells
    /\ part = "overlay" => Disk!CommittedFound

\* VM: no operand, however large, gets memory that is not paid for (updateMem,
\* updateGas); a static frame asks the host for no change, not even through a call;
\* the program counter never stands on the data of a PUSH (analyzeJumpDests); and no
\* fetch, of an instruction or of push data, goes past the padded code (copyCode).
FrameContained ==
    /\ part = "vm" => Interp!MemoryPaid /\ Interp!StaticIsQuiet
    /\ part = "code" => Interp!PcAtInstruction /\ Interp!FetchInCode

\* No interleaving of transfers, creations, suicides and reverts creates balance, as
\* long as no deployment was refused (Executive); the refunds of a transaction are
\* those of the storage writes and suicides that were not taken back (set_storage,
\* selfdestruct, ExtVM); its gas is charged, burnt or still in
\* its frames, with nothing lost or doubled (ExtVM::call); and the status of the
\* receipt tells how the outermost execution ended (Executive::go).
TransactionAccounts ==
    /\ part = "executive" => Exec!SupplyNeverGrows
    /\ part = "refused" => Refused!SupplyNeverGrows
    /\ part = "host" => Host!RefundsOfSurvivors /\ Host!GasConserved /\ Host!ReceiptTells

\* What a step of an execution may never do. A failing execution takes back
\* everything it and its callees wrote, and nothing else, unless it is a deployment
\* refused for want of authority, and a receipt has the logs of the executions that
\* did not fail and were not called by one that failed (Executive::revert,
\* accrueSubState); the gas of a frame never grows, although a call with value hands
\* over a stipend (VM::caseCall).
FailureUndone ==
    [][ /\ part = "executive" => Exec!FailureRestores /\ Exec!ReceiptHasLogs
        /\ part = "refused" => Refused!FailureRestores /\ Refused!ReceiptHasLogs
        /\ part = "vm" => Interp!NoMoreGas ]_all

\* mptstate::State implements AccountState: its cache, its change log and its
\* commits are not seen by those who read accounts, roll back and commit.
StateRefines ==
    /\ part = "state" => Cached!AbstractInit
    /\ [][part = "state" => Cached!AbstractStep]_all

\* As long as no contract sets fields of system rows through CRUD: a block runs with
\* the gas limit of its height, never below the minimum unless the genesis block says
\* so (SystemConfigPrecompiled, BlockVerifier), and a name and version are bound once
\* (CNSPrecompiled::insert). The rows a call is answered meet the condition it built
\* (ConditionPrecompiled, MemoryTable::processCondition).
ContractsRight ==
    /\ part = "contracts" => System!GasLimitInForce /\ System!GasLimitAtLeastMin
    /\ part = "contracts" => System!NameBoundOnce /\ System!SelectionIsRight
=============================================================================
