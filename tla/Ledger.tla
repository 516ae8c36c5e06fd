------------------------------- MODULE Ledger -------------------------------
(***************************************************************************)
(* The start of a node: Initializer::init, LedgerInitializer, the          *)
(* LedgerManager, and Ledger, which assembles the modules of one group from *)
(* the group's configuration file and from what the group's database       *)
(* already holds.                                                          *)
(*                                                                         *)
(* Between two runs an operator edits the files; a run can end at any      *)
(* point.  The genesis block keeps the configuration the chain began with, *)
(* as a string of seven fields joined with "-" (the group mark); the chain *)
(* keeps the block limit and the node list that transactions changed.  The *)
(* sealer and the engine have copies of these, which follow the chain some *)
(* steps after it.                                                         *)
(***************************************************************************)
EXTENDS Integers, Sequences, FiniteSets, SequencesExt, TLC

CONSTANTS
    GroupBits,       \* width of GROUP_ID: 8
    Sections,        \* the numbers a section group_config.N of config.ini can have
    ConsensusType,   \* values of consensus.consensusType
    StateType,       \* values of state.type
    StorageType,     \* values of storage.type
    Limit,           \* values of consensus.maxTransNum and of tx_count_limit
    NodeList,        \* the lists of miners a group can have
    MaxSections,     \* bound: number of sections
    MaxEdits,        \* bound: number of edits
    MaxBlocks        \* bound: number of blocks that change the configuration

VARIABLES
    ini,       \* config.ini: the sections group_config.N, in their order
    file,      \* file[g]: the configuration file of group g
    disk,      \* disk[g]: what the databases of group g hold
    stage,     \* "down", "groups", "rpc", "start", "running"
    todo,      \* the sections that are still to be initialized
    ledgers,   \* m_ledgerMap: the ledgers by group
    nodeList,  \* m_groupID2NodeList of the p2p service
    failure,   \* why the last run ended: "none", "stopped", or the failed step
    edits, blocks

process == <<stage, todo, ledgers, nodeList>>
vars == <<ini, file, disk, process, failure, edits, blocks>>

-----------------------------------------------------------------------------
maxGroupID == 2 ^ (GroupBits - 1) - 1

\* The conversion of an int to GROUP_ID, a signed type.
ToGroupID(n) ==
    LET m == n % 2 ^ GroupBits IN IF m > maxGroupID THEN m - 2 ^ GroupBits ELSE m

Group == 1..maxGroupID
NoChain == [mark |-> <<>>, limit |-> 0, nodes |-> {}, observers |-> {}, wrote |-> {}]
Nobody == [g \in Group |-> {}]
NoLedger == [g \in {} |-> 0]

\* What initConfig takes from the configuration file of a group: the sections consensus,
\* storage and state.  The limits of the pool and of the sync are left out.
File == [consensusType : ConsensusType, storageType : StorageType, stateType : StateType,
         maxTransNum : Limit, nodes : NodeList]

TypeOK ==
    /\ file \in [Group -> File]
    /\ stage \in {"down", "groups", "rpc", "start", "running"}
    /\ DOMAIN ledgers \subseteq Group
    /\ \A g \in Group : disk[g].wrote \subseteq {"mpt", "storage"}

Init ==
    /\ ini \in {<<n>> : n \in Sections}
    /\ \E f \in File : file = [g \in Group |-> f]
    /\ disk = [g \in Group |-> NoChain]
    /\ stage = "down" /\ todo = <<>> /\ ledgers = NoLedger /\ nodeList = Nobody
    /\ failure = "none" /\ edits = 0 /\ blocks = 0

-----------------------------------------------------------------------------
(* Ledger: the modules of one group *)

\* initMark: the group mark; a field is the set of what it names, and an empty node
\* list an empty field.
initMark(g) ==
    <<{g}, file[g].nodes, {file[g].consensusType}, {file[g].storageType}, {file[g].stateType},
      {ToString(file[g].maxTransNum)}, {"gas"}>>
FieldOf(mark, k) == CHOOSE x \in mark[k] : TRUE

\* The split of the mark joins adjacent separators: an empty field is no field.
Split(mark) == SelectSeq(mark, LAMBDA f : f /= {})

\* checkAndBuildGenesisBlock: a chain without block 0 gets it from the file.
Genesis(g) == [mark |-> initMark(g), limit |-> file[g].maxTransNum, nodes |-> file[g].nodes,
               observers |-> {}, wrote |-> {}]
Chain(g) == IF disk[g] = NoChain THEN Genesis(g) ELSE disk[g]

\* assert(s.size() == 7), in a build that keeps assertions.
Asserts(g) == Chain(g).mark /= initMark(g) /\ Len(Split(Chain(g).mark)) /= 7

\* initBlockChain: when the mark of the file differs from the one of block 0,
\* the types are those of block 0.  Every storage type opens LevelDB.
Param_File(g) == [consensusType |-> file[g].consensusType, stateType |-> file[g].stateType]
Param(g) ==
    IF Chain(g).mark = initMark(g)
    THEN [consensusType |-> file[g].consensusType, stateType |-> file[g].stateType]
    ELSE [consensusType |-> FieldOf(Split(Chain(g).mark), 3),
          stateType |-> FieldOf(Split(Chain(g).mark), 5)]

\* consensusInitFactory and createStateFactory fall back on PBFT and on the
\* storage state.  Only the PBFT sealer reads the block limit of the chain; the
\* Raft sealer begins with the constant 1000.
Engine(type) == IF type = "raft" THEN "raft" ELSE "pbft"
createStateFactory(type) == IF type = "mpt" THEN "mpt" ELSE "storage"
PBFTSealer(g) == [engine |-> "pbft", maxTxs |-> Chain(g).limit, miners |-> file[g].nodes]
RaftSealer(g) == [engine |-> "raft", maxTxs |-> 1000, miners |-> file[g].nodes]

\* The init functions return false when a module they use is not built yet.
initBlockChain(built) == "storage" \in built
createExecutiveContext(built) == {"storage", "state"} \subseteq built
initBlockVerifier(built) == {"blockChain", "context"} \subseteq built
initTxPool(built) == "blockChain" \in built
initSync(built) == {"txPool", "blockChain", "verifier"} \subseteq built
createSealer(built) == {"txPool", "blockChain", "sync", "verifier"} \subseteq built

\* The order in which initLedger builds the modules.
InitOrder == <<"storage", "blockChain", "state", "context", "verifier", "txPool", "sync", "sealer">>
Builds(m, built) ==
    CASE m = "storage" -> TRUE
      [] m = "blockChain" -> initBlockChain(built)
      [] m = "state" -> "blockChain" \in built
      [] m = "context" -> createExecutiveContext(built)
      [] m = "verifier" -> initBlockVerifier(built)
      [] m = "txPool" -> initTxPool(built)
      [] m = "sync" -> initSync(built)
      [] m = "sealer" -> createSealer(built)
initLedger == \A k \in DOMAIN InitOrder : Builds(InitOrder[k], {InitOrder[j] : j \in 1..(k - 1)})

TheLedger(g) ==
    LET p == Param(g)
        sealer == IF Engine(p.consensusType) = "raft" THEN RaftSealer(g) ELSE PBFTSealer(g)
    IN  [state |-> createStateFactory(p.stateType), sealer |-> sealer, started |-> "no",
         syncBlock |-> FALSE, step |-> "idle", missed |-> FALSE]

-----------------------------------------------------------------------------
(* The start-up *)

Put(f, k, v) == [x \in DOMAIN f \cup {k} |-> IF x = k THEN v ELSE f[x]]

\* The process ends; an exception in a start-up step is its reason.
End(why) ==
    /\ stage' = "down" /\ todo' = <<>> /\ ledgers' = NoLedger /\ nodeList' = Nobody
    /\ failure' = why

\* Initializer::init up to the p2p service, which starts before the ledgers.
Begin ==
    /\ stage = "down"
    /\ stage' = "groups" /\ todo' = ini /\ failure' = "none"
    /\ UNCHANGED <<ini, file, disk, ledgers, nodeList, edits, blocks>>

\* LedgerManager::initSingleLedger for the next section of config.ini.
initSingleGroup ==
    /\ stage = "groups" /\ todo /= <<>>
    /\ LET g == ToGroupID(Head(todo))
       IN  IF g <= 0 \/ g > maxGroupID THEN End("invalid") /\ UNCHANGED disk
           ELSE IF g \in DOMAIN ledgers THEN End("duplicate") /\ UNCHANGED disk
           ELSE \/ Asserts(g) /\ End("assertion") /\ UNCHANGED disk
                \/ /\ disk' = [disk EXCEPT ![g] = Chain(g)]
                   /\ IF initLedger
                      THEN /\ ledgers' = Put(ledgers, g, TheLedger(g))
                           /\ todo' = Tail(todo)
                           /\ UNCHANGED <<stage, nodeList, failure>>
                      ELSE End("modules")
    /\ UNCHANGED <<ini, file, edits, blocks>>

\* LedgerInitializer::initConfig ends: the node lists of the files go to the
\* p2p service, and a node without a group does not start.
SetGroupID2NodeList ==
    /\ stage = "groups" /\ todo = <<>>
    /\ IF ledgers = NoLedger THEN End("no group")
       ELSE /\ nodeList' = [g \in Group |-> IF g \in DOMAIN ledgers THEN file[g].nodes ELSE {}]
            /\ stage' = "rpc"
            /\ UNCHANGED <<todo, ledgers, failure>>
    /\ UNCHANGED <<ini, file, disk, edits, blocks>>

\* RPCInitializer::initConfig: the channel and the HTTP server listen.
RpcListen ==
    /\ stage = "rpc"
    /\ stage' = "start"
    /\ UNCHANGED <<ini, file, disk, todo, ledgers, nodeList, failure, edits, blocks>>

\* updateConsensusNodeList of the PBFT engine takes the miners of the chain;
\* updateMinerList of the Raft engine adds them to its own, takes the observers out,
\* and reads nothing before block 1.
Miners(g, l) ==
    IF l.sealer.engine = "pbft" THEN disk[g].nodes
    ELSE IF disk[g].wrote = {} THEN l.sealer.miners
    ELSE (l.sealer.miners \cup disk[g].nodes) \ disk[g].observers

\* The engine's reportBlock on the newest block; only the PBFT engine hands the miners
\* and observers to the p2p service.
ReportBlock(g, after) ==
    /\ ledgers' = [ledgers EXCEPT ![g] = [after EXCEPT !.sealer.miners = Miners(g, ledgers[g])]]
    /\ nodeList' = IF ledgers[g].sealer.engine = "pbft"
                   THEN [nodeList EXCEPT ![g] = disk[g].nodes \cup disk[g].observers]
                   ELSE nodeList
    /\ UNCHANGED <<ini, file, disk, stage, todo, failure, edits, blocks>>

\* LedgerManager::startAll starts every ledger, one after the other, while the RPC
\* servers already answer: first the thread of the sync, which may commit at once.
StartSync ==
    /\ stage = "start"
    /\ \A g \in DOMAIN ledgers : ledgers[g].started \in {"no", "yes"}
    /\ \E g \in DOMAIN ledgers :
        /\ ledgers[g].started = "no"
        /\ ledgers' = [ledgers EXCEPT ![g].started = "sync"]
    /\ UNCHANGED <<ini, file, disk, stage, todo, nodeList, failure, edits, blocks>>

\* PBFTSealer::start, RaftSealer::start: the engine, whose thread commits as well, and
\* Sealer::start up to the report of the newest block.
StartEngine ==
    \E g \in DOMAIN ledgers :
        /\ ledgers[g].started = "sync"
        /\ ReportBlock(g, [ledgers[g] EXCEPT !.started = "engine"])

\* The rest of Sealer::start; it takes the flag of a new block down.
StartSealer ==
    /\ \E g \in DOMAIN ledgers :
        /\ ledgers[g].started = "engine"
        /\ ledgers' = [ledgers EXCEPT ![g].started = "yes", ![g].syncBlock = FALSE,
                                      ![g].missed = ledgers[g].syncBlock]
        /\ stage' = IF \A h \in DOMAIN ledgers \ {g} : ledgers[h].started = "yes"
                    THEN "running"
                    ELSE stage
    /\ UNCHANGED <<ini, file, disk, todo, nodeList, failure, edits, blocks>>

\* A block of a group with miners is committed, by the sync or by the engine.  Its
\* transactions write accounts, and they can change the block limit and make miners
\* observers or remove them; onBlockChanged tells the sealer.
Commit ==
    /\ blocks < MaxBlocks
    /\ \E g \in DOMAIN ledgers, l \in Limit, n \in NodeList \ {{}} :
        /\ ledgers[g].started /= "no" /\ disk[g].nodes /= {}
        /\ \E o \in SUBSET (disk[g].nodes \ n) :
            disk' = [disk EXCEPT ![g].limit = l, ![g].nodes = n,
                                 ![g].observers = (@ \ n) \cup o,
                                 ![g].wrote = @ \cup {ledgers[g].state}]
        /\ ledgers' = [ledgers EXCEPT ![g].syncBlock = TRUE]
    /\ blocks' = blocks + 1
    /\ UNCHANGED <<ini, file, stage, todo, nodeList, failure, edits>>

\* Sealer::reportNewBlock takes the flag down and reports the newest block,
ReportNewBlock ==
    \E g \in DOMAIN ledgers :
        /\ ledgers[g].started = "yes" /\ ledgers[g].step = "idle" /\ ledgers[g].syncBlock
        /\ ReportBlock(g, [ledgers[g] EXCEPT !.syncBlock = FALSE, !.step = "limit"])

\* then it reads the block limit.
SetMaxBlockTransactions ==
    /\ \E g \in DOMAIN ledgers :
        /\ ledgers[g].step = "limit"
        /\ ledgers' = [ledgers EXCEPT ![g].step = "idle", ![g].missed = FALSE,
                                      ![g].sealer.maxTxs = disk[g].limit]
    /\ UNCHANGED <<ini, file, disk, stage, todo, nodeList, failure, edits, blocks>>

-----------------------------------------------------------------------------
(* The environment *)

Stop ==
    /\ stage /= "down"
    /\ End("stopped")
    /\ UNCHANGED <<ini, file, disk, edits, blocks>>

EditGroups ==
    /\ stage = "down" /\ edits < MaxEdits
    /\ \E s \in UNION {[1..n -> Sections] : n \in 0..MaxSections} : ini' = s
    /\ edits' = edits + 1 /\ failure' = "none"
    /\ UNCHANGED <<file, disk, process, blocks>>

\* The file of a group that config.ini names.
EditFile ==
    /\ stage = "down" /\ edits < MaxEdits
    /\ \E g \in Group \cap {ToGroupID(ini[k]) : k \in DOMAIN ini}, f \in File :
        file' = [file EXCEPT ![g] = f]
    /\ edits' = edits + 1
    /\ UNCHANGED <<ini, disk, process, failure, blocks>>

Next ==
    \/ Begin \/ initSingleGroup \/ SetGroupID2NodeList \/ RpcListen
    \/ StartSync \/ StartEngine \/ StartSealer
    \/ Commit \/ ReportNewBlock \/ SetMaxBlockTransactions
    \/ Stop \/ EditGroups \/ EditFile

Spec == Init /\ [][Next]_vars

-----------------------------------------------------------------------------
(* Properties *)

\* The configuration block 0 was built from decides for the life of the chain,
\* whatever is edited later: the ledger runs its consensus, and its accounts
\* were only ever written by its kind of state.  A chain that began without a node
\* list is left out: its mark is not read back (MarkHasSevenFields).
GenesisDecides ==
    \A g \in Group :
        LET mark == disk[g].mark
        IN  mark /= <<>> /\ mark[2] /= {} =>
                /\ \A s \in disk[g].wrote : s = createStateFactory(FieldOf(mark, 5))
                /\ g \in DOMAIN ledgers => ledgers[g].sealer.engine = Engine(FieldOf(mark, 3))

\* A sealer that has read what it was told of, and that has missed nothing while it
\* started.
Settled(g) ==
    /\ ledgers[g].started = "yes" /\ ledgers[g].step = "idle"
    /\ ~ledgers[g].syncBlock /\ ~ledgers[g].missed

\* A settled PBFT sealer packs as many transactions as the chain's tx_count_limit says,
\* from the first block after a restart on; a Raft sealer does once it has seen a block.
LimitOfChain ==
    \A g \in DOMAIN ledgers :
        Settled(g) /\ (ledgers[g].sealer.engine = "pbft" \/ ledgers[g].sealer.maxTxs /= 1000) =>
            ledgers[g].sealer.maxTxs = disk[g].limit

\* A settled PBFT engine works with the miners of the chain, not of the file it
\* was configured with, and the p2p service gossips to them and to the observers; a Raft
\* engine counts every miner of the chain and no observer.
MinersOfChain ==
    \A g \in DOMAIN ledgers :
        LET sealer == ledgers[g].sealer
        IN  /\ Settled(g) /\ sealer.engine = "pbft" =>
                   /\ sealer.miners = disk[g].nodes
                   /\ nodeList[g] = disk[g].nodes \cup disk[g].observers
            /\ Settled(g) /\ sealer.engine = "raft" /\ disk[g].wrote /= {} =>
                   disk[g].nodes \subseteq sealer.miners \ disk[g].observers

\* Sealer.h: "a new block has been submitted to the blockchain" is what m_syncBlock says
\* until the sealer has reported it.  The code does not keep this: a block that the sync
\* commits before Sealer::start takes the flag down is never reported, and the sealer
\* keeps the old limit until the block after it.
NoBlockMissed == \A g \in DOMAIN ledgers : ~ledgers[g].missed

\* assert(s.size() == 7) in checkAndBuildGenesisBlock: the mark of block 0 splits into its
\* seven fields.  The code does not keep this: the split joins the separators around an
\* empty node list.  With assertions the node does not start after an edit; without
\* them it takes the storage type for the consensus and the limit for the state.
MarkHasSevenFields == \A g \in Group : disk[g].mark /= <<>> => Len(Split(disk[g].mark)) = 7

\* "invalid GroupId: ... must between [1, 127]": a section of config.ini whose
\* number is no group id is refused.  The code does not keep this: the number is an
\* int and is converted to the 8-bit GROUP_ID before it is tested.
OnlyValidSections ==
    \A k \in DOMAIN ini : DOMAIN ledgers /= {} /\ k <= Len(ini) - Len(todo) => ini[k] \in Group
=============================================================================
