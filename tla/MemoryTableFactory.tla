------------------------ MODULE MemoryTableFactory ------------------------
(***************************************************************************)
(* The tables of a node while it executes blocks (libstorage): the rows    *)
(* cached by MemoryTable, the change log by which Executive::revert undoes *)
(* the calls of a contract, the authority lists read when a table is       *)
(* opened, commitDB and the database below.  The calls are those of the    *)
(* precompiled contracts: consensus nodes, authority, table creation and   *)
(* the rows of a user table.                                               *)
(*                                                                         *)
(* A table is a set of keys, a key has a sequence of rows.  A row has the  *)
(* field conditions speak of (id), a value, the block from which it holds  *)
(* and a status.  Dirty flags and the hash are left out: a key that was    *)
(* only read is written back as it was read.                               *)
(***************************************************************************)
EXTENDS Integers, Sequences, FiniteSets, SequencesExt, TLC

CONSTANTS Node,          \* nodes the consensus table may list
          GenesisMiners, \* the miners of the genesis block
          Account,       \* origins of transactions
          Granted,       \* tables the authority contract is called for
          Item, Value,   \* the ids and the values of the rows of the user table
          MaxNumber,     \* bound: blocks committed
          MaxCalls,      \* bound: calls of precompiled contracts
          MaxDepth       \* bound: nested calls of a transaction

ASSUME TablesAssumption ==
    /\ GenesisMiners \subseteq Node /\ GenesisMiners # {}
    /\ MaxNumber \in Nat /\ MaxCalls \in Nat /\ MaxDepth \in Nat

VARIABLES db,       \* LevelDB: the rows of every key, deleted ones included
          number,   \* the height of the chain, the m_blockNum of the executed block
          factory,  \* the MemoryTableFactory of the executed block
          frames,   \* the savepoints of the running Executives, innermost last
          origin,   \* the sender of the running transaction
          calls,    \* calls made so far
          touched   \* has Entry.set been used on a row of a system table

vars == <<db, number, factory, frames, origin, calls, touched>>

TableName == {"miners", "access", "tables", "user"}

\* A key of a table: the miners under PRI_KEY, the access rows and the table
\* descriptions under the name of the table they are about, one key of the user table.
Slot == {<<"miners", "node">>, <<"tables", "user">>, <<"user", "key">>}
            \cup ({"access"} \X TableName)

Row(id, val, enable) == [id |-> id, val |-> val, enable |-> enable, status |-> "normal"]

\* m_cache.find(key): not there, a null pointer, or rows.
NotCached == [is |-> "absent", rows |-> <<>>]
NullEntries == [is |-> "null", rows |-> <<>>]
Cached(rows) == [is |-> "rows", rows |-> rows]

Closed == [open |-> FALSE, authorized |-> {}]

Fresh == [name2Table |-> [t \in TableName |-> Closed],
          cache |-> [s \in Slot |-> NotCached],
          changeLog |-> <<>>]

\* The miners of the genesis block, in the order of its list.
Genesis == SetToSeq(GenesisMiners)

\* The genesis block, and perhaps a block that has created the user table.
Init ==
    /\ \E created \in {<<>>, <<Row("user", "", 0)>>} :
          db = [s \in Slot |-> CASE s = <<"miners", "node">> ->
                                      [i \in DOMAIN Genesis |-> Row(Genesis[i], "miner", 0)]
                                [] s = <<"tables", "user">> -> created
                                [] OTHER -> <<>>]
    /\ number = 0
    /\ factory = Fresh
    /\ frames = <<>>
    /\ origin \in Account
    /\ calls = 0
    /\ touched = FALSE

-----------------------------------------------------------------------------
(* Reading. *)

IsNormal(row) == row.status = "normal"

\* LevelDBStorage::select skips the deleted rows.
DbSelect(s) == SelectSeq(db[s], IsNormal)

Load(f, s) == IF f.cache[s].is = "absent"
              THEN [f EXCEPT !.cache[s] = Cached(DbSelect(s))] ELSE f

\* A condition: none, or the ids it accepts.
AnyRow == [empty |-> TRUE, ids |-> {}]
EQ(id) == [empty |-> FALSE, ids |-> {id}]

\* A deleted row does not meet a condition, but without one every row is taken.
ProcessEntries(rows, cond) ==
    {i \in DOMAIN rows : cond.empty \/ (IsNormal(rows[i]) /\ rows[i].id \in cond.ids)}

Select(f, s, cond) == LET rows == f.cache[s].rows
                      IN  {rows[i] : i \in ProcessEntries(rows, cond)}

\* The addresses of an access key that may change the table: the rows enabled at
\* the parent block; when there are none, everyone may.
Authorized(rows) == {row.id : row \in {r \in rows : r.enable <= number}}

MayChange(f, t) ==
    LET list == f.name2Table[t].authorized IN list = {} \/ origin \in list

\* openTable: the access table is opened on the way, and _sys_tables_ for a user table.
OpenOne(f, t) ==
    IF f.name2Table[t].open THEN f
    ELSE LET g == Load(f, <<"access", t>>)
         IN  [g EXCEPT !.name2Table[t] =
                 [open |-> TRUE, authorized |-> Authorized(Select(g, <<"access", t>>, AnyRow))]]

OpenTable(f, t) ==
    LET sys == OpenOne(f, "access")
        described == Load(OpenOne(sys, "tables"), <<"tables", "user">>)
    IN  CASE f.name2Table[t].open -> f
          [] t # "user" /\ ~f.name2Table[t].open -> OpenOne(sys, t)
          [] t = "user" /\ ~f.name2Table[t].open ->
                IF Select(described, <<"tables", "user">>, AnyRow) = {} THEN described
                ELSE OpenOne(described, "user")

-----------------------------------------------------------------------------
(* MemoryTable::insert, update and remove: each records what it is about to undo. *)

Logged(f, kind, s, records) ==
    [f EXCEPT !.changeLog = Append(@, [kind |-> kind, slot |-> s, records |-> records])]

SetRows(f, s, rows) == [f EXCEPT !.cache[s] = Cached(rows)]

Insert(f, s, row) ==
    LET g == Load(f, s) IN
    IF ~MayChange(f, s[1]) THEN f
    ELSE SetRows(Logged(g, "insert", s, <<>>), s, Append(g.cache[s].rows, row))

\* A field the row does not have is recorded, and restored, as the empty string.
GetField(row, field) == IF field = "val" /\ row.val = "absent" THEN "" ELSE row[field]

Assigned(row, entry) == [field \in DOMAIN row |->
                            IF field \in DOMAIN entry THEN entry[field] ELSE row[field]]

\* Every entry carries a status of 0, which an update assigns with the other fields.
Update(f, s, fields, cond) ==
    LET g == Load(f, s)
        rows == g.cache[s].rows
        entry == [field \in DOMAIN fields \cup {"status"} |->
                     IF field = "status" THEN "normal" ELSE fields[field]]
        hits == ProcessEntries(rows, cond)
        old == [i \in hits |-> [field \in DOMAIN entry |-> GetField(rows[i], field)]]
    IN  IF ~MayChange(f, s[1]) THEN f
        ELSE SetRows(Logged(g, "update", s, old), s,
                     [i \in DOMAIN rows |-> IF i \in hits THEN Assigned(rows[i], entry) ELSE rows[i]])

RemoveEntries(f, s, cond) ==
    LET g == Load(f, s)
        rows == g.cache[s].rows
        hits == ProcessEntries(rows, cond)
    IN  IF ~MayChange(f, s[1]) THEN f
        ELSE SetRows(Logged(g, "remove", s, [i \in hits |-> <<>>]), s,
                     [i \in DOMAIN rows |-> IF i \in hits THEN [rows[i] EXCEPT !.status = "deleted"]
                                            ELSE rows[i]])

-----------------------------------------------------------------------------
(* MemoryTableFactory::rollback. *)

\* The recorded index is one past the row that was added, and erase at the end of
\* the vector drops its last element in the build (libstdc++).  A key without rows
\* leaves the cache.
UndoInsert(cache, s) ==
    LET rest == Front(cache[s].rows)
    IN  [cache EXCEPT ![s] = IF rest = <<>> THEN NotCached ELSE Cached(rest)]

\* An update gives the recorded values back, a removal makes the row normal again.
UndoRow(row, kind, record) ==
    IF kind = "update" THEN Assigned(row, record) ELSE [row EXCEPT !.status = "normal"]

\* (*data)[change.key] puts a null pointer under a key that has left the cache.
UndoRows(cache, change) ==
    LET s == change.slot
        records == change.records
    IN  IF cache[s].is # "rows" THEN [cache EXCEPT ![s] = NullEntries]
        ELSE [cache EXCEPT ![s].rows = [i \in DOMAIN @ |->
                 IF i \in DOMAIN records THEN UndoRow(@[i], change.kind, records[i]) ELSE @[i]]]

UndoChange(cache, change) ==
    IF change.kind = "insert" THEN UndoInsert(cache, change.slot) ELSE UndoRows(cache, change)

\* The changes after the savepoint, the last one first.
Rollback_OldestFirst(f, savepoint) ==
    [f EXCEPT !.cache = FoldLeft(UndoChange, @, SubSeq(f.changeLog, savepoint + 1, Len(f.changeLog))),
              !.changeLog = SubSeq(@, 1, savepoint)]

Rollback(f, savepoint) ==
    [f EXCEPT !.cache = FoldLeft(UndoChange, @,
                            Reverse(SubSeq(f.changeLog, savepoint + 1, Len(f.changeLog)))),
              !.changeLog = SubSeq(@, 1, savepoint)]

-----------------------------------------------------------------------------
(* Executive: transactions, nested calls, revert.                          *)

\* What a reader of the tables sees: the rows that are not deleted.
RowsSeen(f) == [s \in Slot |-> IF f.cache[s].is = "absent" THEN DbSelect(s)
                               ELSE SelectSeq(f.cache[s].rows, IsNormal)]

\* The state a savepoint stands for is kept beside it for the properties, and
\* whether each change made since then is one that the log describes in full.
Savepoint == [at |-> Len(factory.changeLog), seen |-> RowsSeen(factory), exact |-> TRUE]

HasNull(f) == \E s \in Slot : f.cache[s].is = "null"

\* A null pointer in the cache ends the process at the next hash() or insert.
Running == ~HasNull(factory)

Execute(account) ==
    /\ Running /\ frames = <<>>
    /\ origin' = account
    /\ frames' = <<Savepoint>>
    /\ UNCHANGED <<db, number, factory, calls, touched>>

NestedCall ==
    /\ Running /\ Len(frames) \in 1..(MaxDepth - 1)
    /\ frames' = Append(frames, Savepoint)
    /\ UNCHANGED <<db, number, factory, origin, calls, touched>>

Return ==
    /\ Running /\ frames # <<>>
    /\ frames' = Front(frames)
    /\ UNCHANGED <<db, number, factory, origin, calls, touched>>

Revert ==
    /\ Running /\ frames # <<>>
    /\ factory' = Rollback(factory, Last(frames).at)
    /\ frames' = Front(frames)
    /\ UNCHANGED <<db, number, origin, calls, touched>>

\* A call of a precompiled contract turns the factory into f; exact tells whether the
\* log describes all it did.
CallsThat(f, exact, touches) ==
    /\ Running /\ frames # <<>> /\ calls < MaxCalls
    /\ calls' = calls + 1
    /\ factory' = f
    /\ frames' = [i \in DOMAIN frames |-> [frames[i] EXCEPT !.exact = @ /\ exact]]
    /\ touched' = (touched \/ touches)
    /\ UNCHANGED <<db, number, origin>>

Calls(f, exact) == CallsThat(f, exact, FALSE)

-----------------------------------------------------------------------------
(* ConsensusPrecompiled. *)

Miners == <<"miners", "node">>

MinersOpened == Load(OpenTable(factory, "miners"), Miners)

\* enable_num: the number of the block that is executed.
EnableNum == number + 1

CheckIsLastMiner_AnyType(f, node) ==
    LET listed == {row \in Select(f, Miners, AnyRow) : IsNormal(row)}
    IN  Cardinality(listed) = 1 /\ \E row \in listed : row.id = node

CheckIsLastMiner(f, node) ==
    LET miners == {row \in Select(f, Miners, AnyRow) : IsNormal(row) /\ row.val = "miner"}
    IN  Cardinality(miners) = 1 /\ \E row \in miners : row.id = node

IsListed(f, node) == Select(f, Miners, EQ(node)) # {}

AddMiner(node) ==
    LET f == MinersOpened
    IN  Calls(IF IsListed(f, node)
              THEN Update(f, Miners, [val |-> "miner", enable |-> EnableNum], EQ(node))
              ELSE Insert(f, Miners, Row(node, "miner", EnableNum)), TRUE)

AddObserver(node) ==
    LET f == MinersOpened
    IN  Calls(CASE ~IsListed(f, node) -> Insert(f, Miners, Row(node, "observer", EnableNum))
                [] IsListed(f, node) /\ CheckIsLastMiner(f, node) -> f
                [] IsListed(f, node) /\ ~CheckIsLastMiner(f, node) ->
                      Update(f, Miners, [val |-> "observer", enable |-> EnableNum], EQ(node)), TRUE)

RemoveNode(node) ==
    LET f == MinersOpened
    IN  Calls(IF CheckIsLastMiner(f, node) THEN f ELSE RemoveEntries(f, Miners, EQ(node)), TRUE)

-----------------------------------------------------------------------------
(* AuthorityPrecompiled. *)

AccessOpened(t) == Load(OpenTable(factory, "access"), <<"access", t>>)

Grant(t, account) ==
    LET f == AccessOpened(t)
    IN  Calls(IF Select(f, <<"access", t>>, EQ(account)) # {} THEN f
              ELSE Insert(f, <<"access", t>>, Row(account, "", EnableNum)), TRUE)

Revoke(t, account) ==
    LET f == AccessOpened(t)
    IN  Calls(IF Select(f, <<"access", t>>, EQ(account)) = {} THEN f
              ELSE RemoveEntries(f, <<"access", t>>, EQ(account)), TRUE)

-----------------------------------------------------------------------------
(* TableFactoryPrecompiled, TablePrecompiled and EntryPrecompiled. *)

Key == <<"user", "key">>

\* createTable opens the table at once unless the caller may not create one.
CreateTable ==
    LET f == Load(OpenTable(factory, "tables"), <<"tables", "user">>)
    IN  Calls(IF Select(f, <<"tables", "user">>, AnyRow) # {} THEN f
              ELSE LET g == Insert(f, <<"tables", "user">>, Row("user", "", 0))
                   IN  IF g = f THEN f ELSE OpenTable(g, "user"), TRUE)

\* A contract that reaches the user table; without the table its calls do nothing.
UserOpened == OpenTable(factory, "user")

UserRows == Load(UserOpened, Key).cache[Key].rows

InsertRow(item, val) ==
    /\ UserOpened.name2Table["user"].open
    /\ Calls(Insert(UserOpened, Key, Row(item, val, 0)), TRUE)

\* The log of an update or a removal is not the whole story when it finds no row (a
\* key that an older insert may take from the cache), gives a row a field it did not
\* have, or removes a row that was removed before.
UpdateRows(val, cond) ==
    /\ UserOpened.name2Table["user"].open
    /\ Calls(Update(UserOpened, Key, [val |-> val], cond),
             /\ UserRows # <<>>
             /\ \A i \in ProcessEntries(UserRows, cond) : UserRows[i].val # "absent")

RemoveRows(cond) ==
    /\ UserOpened.name2Table["user"].open
    /\ Calls(RemoveEntries(UserOpened, Key, cond),
             /\ UserRows # <<>>
             /\ \A i \in ProcessEntries(UserRows, cond) : IsNormal(UserRows[i]))

\* The fields contracts set, one at a time, in the rows of a key.
Settable(s) ==
    CASE s = Key -> {<<"val", v>> : v \in Value}
      [] s = Miners -> {<<"val", type>> : type \in {"miner", "observer"}}
                           \cup {<<"id", node>> : node \in Node}
      [] s[1] = "access" -> {<<"id", account>> : account \in Account}

\* select hands out the cached rows themselves, and that of CRUDPrecompiled those of any
\* table, the deleted ones too: Entry.set writes to one without the authority of the
\* table and without the log.
SetField(s) ==
    LET f == OpenTable(factory, s[1])
        rows == Load(f, s).cache[s].rows
    IN  /\ f.name2Table[s[1]].open
        /\ \E i \in DOMAIN rows, set \in Settable(s) :
              CallsThat(SetRows(f, s, [rows EXCEPT ![i][set[1]] = set[2]]), FALSE, s # Key)

-----------------------------------------------------------------------------
(* The end of a block. *)

\* LevelDBStorage::commit passes over a key without rows.
Written_SkipDeleted(s) ==
    IF SelectSeq(factory.cache[s].rows, IsNormal) # <<>> THEN factory.cache[s].rows ELSE db[s]

Written(s) == IF factory.cache[s].rows # <<>> THEN factory.cache[s].rows ELSE db[s]

CommitDB ==
    /\ Running /\ frames = <<>> /\ number < MaxNumber
    /\ db' = [s \in Slot |-> Written(s)]
    /\ number' = number + 1
    /\ factory' = Fresh
    /\ UNCHANGED <<frames, origin, calls, touched>>

\* The executed block is not the one the nodes agree on: its context is dropped.
DropBlock ==
    /\ Running /\ frames = <<>> /\ factory # Fresh
    /\ factory' = Fresh
    /\ UNCHANGED <<db, number, frames, origin, calls, touched>>

\* The null pointer is followed; the node starts again from its database.
Crash ==
    /\ HasNull(factory)
    /\ factory' = Fresh
    /\ frames' = <<>>
    /\ UNCHANGED <<db, number, origin, calls, touched>>

Next ==
    \/ \E account \in Account : Execute(account)
    \/ NestedCall \/ Return \/ Revert
    \/ \E node \in Node : AddMiner(node) \/ AddObserver(node) \/ RemoveNode(node)
    \/ \E t \in Granted, account \in Account : Grant(t, account) \/ Revoke(t, account)
    \/ CreateTable
    \/ \E item \in Item, val \in Value \cup {"absent"} : InsertRow(item, val)
    \/ \E val \in Value, cond \in {AnyRow} \cup {EQ(item) : item \in Item} : UpdateRows(val, cond)
    \/ \E cond \in {AnyRow} \cup {EQ(item) : item \in Item} : RemoveRows(cond)
    \/ \E s \in {Key, Miners} \cup ({"access"} \X Granted) : SetField(s)
    \/ CommitDB \/ DropBlock \/ Crash

Spec == Init /\ [][Next]_vars

\* Nothing tells the accounts apart, nor the items.
Symmetry == Permutations(Account) \cup Permutations(Item)

-----------------------------------------------------------------------------
(* Properties. *)

Rows == [id : Node \cup Account \cup Item \cup {"user"},
         val : Value \cup {"absent", "", "miner", "observer"},
         enable : 0..(number + 1), status : {"normal", "deleted"}]

\* Rows, authority lists, log and savepoints have their types; no row is enabled after
\* the executed block, no savepoint lies beyond the log or below an older one.
TypeOK ==
    /\ \A s \in Slot : \A i \in DOMAIN db[s] : db[s][i] \in Rows
    /\ number \in 0..MaxNumber
    /\ \A t \in TableName : factory.name2Table[t].authorized \subseteq Account
    /\ \A s \in Slot : /\ factory.cache[s].is \in {"absent", "null", "rows"}
                       /\ \A i \in DOMAIN factory.cache[s].rows : factory.cache[s].rows[i] \in Rows
    /\ \A i \in DOMAIN frames : /\ frames[i].at <= Len(factory.changeLog)
                                /\ i > 1 => frames[i - 1].at <= frames[i].at
    /\ origin \in Account /\ calls \in 0..MaxCalls /\ touched \in BOOLEAN

\* At every moment of a transaction, a revert of any of its calls would bring back the
\* rows seen when the call began, provided that all that was done since is of the kinds
\* the change log describes (MemoryTableFactory::rollback, Executive::revert).
LogRestores ==
    /\ TypeOK
    /\ \A i \in DOMAIN frames :
          frames[i].exact => /\ RowsSeen(Rollback(factory, frames[i].at)) = frames[i].seen
                             /\ ~HasNull(Rollback(factory, frames[i].at))

\* "Revert all recent changes up to the given savepoint": after Executive::revert the
\* tables are as they were when the call began.
RevertRestores ==
    [][Revert => RowsSeen(factory)' = Last(frames).seen /\ ~HasNull(factory')]_vars

\* Who may change a table does not change while a block is executed, whenever the table
\* is opened and whatever the block has granted or revoked before (openTable,
\* setAuthorizedAddress).
AuthorityFixedInBlock ==
    \A t \in TableName :
        factory.name2Table[t].open =>
            factory.name2Table[t].authorized = Authorized(ToSet(DbSelect(<<"access", t>>)))

\* The list of miners at a height, as BlockChainImp::minerList reads it.
MinerList == {row \in ToSet(DbSelect(Miners)) : row.val = "miner" /\ row.enable <= number}

\* Whatever nodes are added, demoted and removed, in one block or over several, and
\* whatever is reverted, a committed block leaves a miner for the next one
\* (checkIsLastMiner counts rows, minerList the rows in force).
MinerRemains == MinerList # {}

\* No node is listed twice, as a reader of the table sees it.
NodeListedOnce ==
    LET seen == RowsSeen(factory)[Miners]
    IN  \A i, j \in DOMAIN seen : seen[i].id = seen[j].id => i = j

\* The system tables stay usable: who may write them is fixed for a block, and the list
\* of nodes keeps a miner and names nobody twice, as long as the contracts that own the
\* tables are the only ones to write them.  Each of the three is lost once a contract has
\* set a field of a row that CRUDPrecompiled selected from a system table.
SystemTablesSound == touched \/ (AuthorityFixedInBlock /\ MinerRemains /\ NodeListedOnce)

\* Committing a block changes nothing that a reader of the tables sees (commitDB,
\* LevelDBStorage::commit and the select that reads it back).
CommitKeepsRows == [][CommitDB => RowsSeen(factory)' = RowsSeen(factory)]_vars

=============================================================================
