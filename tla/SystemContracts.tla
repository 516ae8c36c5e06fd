-------------------------- MODULE SystemContracts --------------------------
(***************************************************************************)
(* The contracts the node itself provides while a block is executed        *)
(* (libblockverifier/ExecutiveContext, libstorage/*Precompiled): the       *)
(* system configuration, the name service, and the objects by which a      *)
(* contract reads and writes a user table: tables, conditions, entries and *)
(* rows, each registered under an address of its own.  Rows are shared: a  *)
(* table, a selection and a row object may all point to the same one, and  *)
(* CRUDPrecompiled hands out the rows of the system tables as well.        *)
(* Reverting is MemoryTableFactory's; here every call succeeds or changes  *)
(* nothing.  A contract passes addresses of objects of the right kind.     *)
(***************************************************************************)
EXTENDS Integers, Sequences, FiniteSets, SequencesExt

CONSTANTS Gas,         \* the numbers tx_gas_limit is set to, as written in the call
          Word64,      \* 2^64, the range of uint64_t
          MinGas, DefaultGas,
          GenesisGas,  \* the limits a genesis block may have
          Name, Version, Address,
          Field,       \* field names contracts use
          TableField,  \* the fields the user table was created with
          Num,         \* the int256 values contracts store and compare
          Word256,     \* 2^256
          IntMax,      \* the greatest int
          Stored,      \* the rows the user table may begin with
          MaxHandles, MaxCalls, MaxNumber

VARIABLES db,      \* committed: height, configuration, names, rows of the user table
          ctx,     \* the ExecutiveContext of the block being executed
          answer,  \* what the last call returned
          asked,   \* history: the limit of the genesis block, the one the last accepted
                   \* setValueByKey asked for (committed, pending), and whether a row of a
                   \* system table was set otherwise
          calls

vars == <<db, ctx, answer, asked, calls>>

None == [is |-> "none"]
Addr(h) == [is |-> "address", at |-> h]
Count(n) == [is |-> "count", n |-> n]
Error == [is |-> "error"]

\* boost::lexical_cast<uint64_t>: a leading minus wraps, too many digits do not parse.
ToUint64(n) == IF n < 0 THEN n + Word64 ELSE n
Parses(n) == n < Word64 /\ -n < Word64

\* A stored number is the decimal text of a u256; {} is an empty or absent field.
Text(n) == {n % Word256}

\* setTxGasLimitToContext: the row in force, otherwise the default stays.
GasLimit(config, number) ==
    IF config.enable <= number /\ Parses(config.value) THEN ToUint64(config.value) ELSE DefaultGas

\* The rows read from the database are those that are not deleted.
NewContext(d) ==
    LET normal == SelectSeq(d.rows, LAMBDA r : r.status = 0)
    IN  [gasLimit |-> GasLimit(d.config, d.number),
         config |-> d.config, names |-> d.names,
         heap |-> normal, table |-> [i \in DOMAIN normal |-> i],
         handles |-> <<>>]

Init ==
    /\ \E rows \in Stored, gas \in GenesisGas :
           /\ db = [number |-> 0, config |-> [value |-> gas, enable |-> 0],
                    names |-> <<>>, rows |-> rows]
           /\ asked = [genesis |-> gas, committed |-> gas, pending |-> gas, touched |-> FALSE]
    /\ ctx = NewContext(db)
    /\ answer = None
    /\ calls = 0

(***************************************************************************)
(* Objects.                                                                *)
(***************************************************************************)

Object(kind) == [kind |-> kind, conds |-> <<>>, row |-> 0, rows |-> <<>>]

\* ++m_addressCount is a new address, so that insert never meets an old one.
registerPrecompiled(c, obj) == [c EXCEPT !.handles = Append(@, obj)]

Handles(kind) == {h \in DOMAIN ctx.handles : ctx.handles[h].kind = kind}

Calling == calls < MaxCalls /\ calls' = calls + 1

\* A call that hands out an object answers its address.
Registers(obj) ==
    /\ Calling /\ Len(ctx.handles) < MaxHandles
    /\ ctx' = registerPrecompiled(ctx, obj)
    /\ answer' = Addr(Len(ctx'.handles))
    /\ UNCHANGED <<db, asked>>

Answers(a) == Calling /\ answer' = a /\ UNCHANGED <<db, ctx, asked>>

(***************************************************************************)
(* The system configuration and the name service.                          *)
(***************************************************************************)

checkValueValid(n) == ToUint64(n) >= MinGas

EnableNum_Later(number) == number + 2

EnableNum(number) == number + 1

\* may is the authority of the caller for the table, without which insert, update and
\* remove answer -1.
setValueByKey(n, may) ==
    /\ Calling
    /\ UNCHANGED db
    /\ IF ~Parses(n) THEN answer' = Error /\ UNCHANGED <<ctx, asked>>
       ELSE IF ~checkValueValid(n) THEN answer' = Count(0) /\ UNCHANGED <<ctx, asked>>
       ELSE IF ~may THEN answer' = Count(-1) /\ UNCHANGED <<ctx, asked>>
       ELSE /\ ctx' = [ctx EXCEPT !.config = [value |-> n, enable |-> EnableNum(db.number)]]
            /\ answer' = Count(1)
            /\ asked' = [asked EXCEPT !.pending = n]

Binding(n, v, a) == [name |-> n, version |-> v, address |-> a]

NameExists(n, v, a) == \E b \in ToSet(ctx.names) : b.name = n /\ b.version = v

insertName(n, v, a, may) ==
    /\ Calling
    /\ UNCHANGED <<db, asked>>
    /\ IF NameExists(n, v, a) THEN answer' = Count(0) /\ UNCHANGED ctx
       ELSE IF ~may THEN answer' = Count(-1) /\ UNCHANGED ctx
       ELSE /\ ctx' = [ctx EXCEPT !.names = Append(@, Binding(n, v, a))]
            /\ answer' = Count(1)

Names(s) == [is |-> "names", found |-> s]

selectByName(n) == Answers(Names(SelectSeq(ctx.names, LAMBDA b : b.name = n)))

\* Only one: the first with the version.
selectByNameAndVersion(n, v) ==
    LET found == SelectSeq(ctx.names, LAMBDA b : b.name = n /\ b.version = v)
    IN  Answers(Names(SubSeq(found, 1, IF found = <<>> THEN 0 ELSE 1)))

(***************************************************************************)
(* Conditions and rows.                                                    *)
(***************************************************************************)

Op == {"eq", "ne", "gt", "ge", "lt", "le"}

\* boost::lexical_cast<int>, "" counting as "0".
AsInt(text) == IF text = {} THEN 0 ELSE CHOOSE n \in text : TRUE
IsInt(text) == AsInt(text) <= IntMax

GetField(row, f) == IF f \in DOMAIN row.fields THEN row.fields[f] ELSE {}

\* A number that is not an int throws, and the row does not match.
Holds(op, l, r) ==
    CASE op = "eq" -> l = r
      [] op = "ne" -> l # r
      [] OTHER -> /\ IsInt(l) /\ IsInt(r)
                  /\ CASE op = "gt" -> AsInt(l) > AsInt(r)
                       [] op = "ge" -> AsInt(l) >= AsInt(r)
                       [] op = "lt" -> AsInt(l) < AsInt(r)
                       [] op = "le" -> AsInt(l) <= AsInt(r)

processCondition(row, conds) ==
    row.status = 0 /\ \A i \in DOMAIN conds : Holds(conds[i].op, GetField(row, conds[i].field), conds[i].value)

\* Without a condition every row is taken, the deleted ones too.
processEntries(conds) ==
    SelectSeq(ctx.table, LAMBDA r : conds = <<>> \/ processCondition(ctx.heap[r], conds))

\* m_conditions.insert: the first condition on a field stays.
Constrain(h, op, f, n) ==
    /\ Calling
    /\ ctx' = IF \E i \in DOMAIN ctx.handles[h].conds : ctx.handles[h].conds[i].field = f THEN ctx
              ELSE [ctx EXCEPT !.handles[h].conds =
                        Append(@, [field |-> f, op |-> op, value |-> Text(n)])]
    /\ answer' = None
    /\ UNCHANGED <<db, asked>>

\* limit() sets m_offset and m_count, which no select reads.
Limit(h) == Answers(None)

setField(h, f, n) ==
    /\ Calling
    /\ ctx' = [ctx EXCEPT !.heap[ctx.handles[h].row].fields =
                   [g \in DOMAIN @ \cup {f} |-> IF g = f THEN Text(n) ELSE @[g]]]
    /\ answer' = None
    /\ UNCHANGED <<db, asked>>

getInt(h, f) ==
    LET text == GetField(ctx.heap[ctx.handles[h].row], f)
    IN  Answers(IF text = {} THEN Error ELSE Count(AsInt(text)))

(***************************************************************************)
(* The user table.                                                         *)
(***************************************************************************)

openTable == Registers(Object("table"))

newCondition == Registers(Object("condition"))

newEntry ==
    /\ Calling /\ Len(ctx.handles) < MaxHandles
    /\ LET c == [ctx EXCEPT !.heap = Append(@, [fields |-> <<>>, status |-> 0])]
       IN  ctx' = registerPrecompiled(c, [Object("entry") EXCEPT !.row = Len(c.heap)])
    /\ answer' = Addr(Len(ctx'.handles))
    /\ UNCHANGED <<db, asked>>

select(ch) ==
    LET conds == ctx.handles[ch].conds
    IN  Registers([Object("entries") EXCEPT !.conds = conds, !.rows = processEntries(conds)])

\* CRUDPrecompiled: select without a condition, from a table of any name.  The selection
\* of a system table has the places of its rows in the configuration or among the names.
crudSelect(t) ==
    Registers([Object(t) EXCEPT !.rows = CASE t = "entries" -> processEntries(<<>>)
                                           [] t = "config" -> <<1>>
                                           [] t = "names" -> [i \in DOMAIN ctx.names |-> i]])

checkField(row) == DOMAIN row.fields \subseteq TableField

\* An unknown field throws inside insert, which answers 1 all the same.
insert(eh) ==
    /\ Calling
    /\ LET r == ctx.handles[eh].row
       IN  ctx' = IF checkField(ctx.heap[r]) THEN [ctx EXCEPT !.table = Append(@, r)] ELSE ctx
    /\ answer' = Count(1)
    /\ UNCHANGED <<db, asked>>

remove(ch) ==
    LET hit == processEntries(ctx.handles[ch].conds)
    IN  /\ Calling
        /\ ctx' = [ctx EXCEPT !.heap = [r \in DOMAIN @ |->
                       IF r \in ToSet(hit) THEN [@[r] EXCEPT !.status = 1] ELSE @[r]]]
        /\ answer' = Count(Len(hit))
        /\ UNCHANGED <<db, asked>>

\* insert, remove and update of the user table by a caller without authority for it.
Unauthorized == Answers(Count(-1))

\* The fields of an entry include its status, so an update revives a deleted row.
update(eh, ch) ==
    LET new == ctx.heap[ctx.handles[eh].row]
        hit == processEntries(ctx.handles[ch].conds)
        Updated(row) == [fields |-> [f \in DOMAIN row.fields \cup DOMAIN new.fields |->
                                        GetField(IF f \in DOMAIN new.fields THEN new ELSE row, f)],
                         status |-> new.status]
    IN  /\ Calling
        /\ IF checkField(new)
           THEN /\ ctx' = [ctx EXCEPT !.heap = [r \in DOMAIN @ |->
                               IF r \in ToSet(hit) THEN Updated(@[r]) ELSE @[r]]]
                /\ answer' = Count(Len(hit))
           ELSE UNCHANGED ctx /\ answer' = Count(0)
        /\ UNCHANGED <<db, asked>>

size(h) == Answers(Count(Len(ctx.handles[h].rows)))

\* The selector of " get(int256)", with a leading blank, is not that of get(int256).
getSelector(signature) == signature = " get(int256)"

\* The selections, and the rows they hand out.
RowOf == [entries |-> "entry", config |-> "config row", names |-> "name row"]
Selections == UNION {Handles(kind) : kind \in DOMAIN RowOf}

get(h, i, signature) ==
    IF ~getSelector(signature) THEN Answers(None)
    ELSE IF i >= Len(ctx.handles[h].rows) THEN Answers(Error)
    ELSE Registers([Object(RowOf[ctx.handles[h].kind]) EXCEPT !.row = ctx.handles[h].rows[i + 1]])

\* EntryPrecompiled::set on a row of a system table: nothing is checked, the value and the
\* version are such fields.
setSystemField(h, n, v) ==
    /\ Calling
    /\ ctx' = IF ctx.handles[h].kind = "config row" THEN [ctx EXCEPT !.config.value = n]
              ELSE [ctx EXCEPT !.names[ctx.handles[h].row].version = v]
    /\ answer' = None
    /\ asked' = [asked EXCEPT !.touched = TRUE]
    /\ UNCHANGED db

(***************************************************************************)
(* The block ends.                                                         *)
(***************************************************************************)

dbCommit ==
    /\ db.number < MaxNumber
    /\ db' = [number |-> db.number + 1, config |-> ctx.config, names |-> ctx.names,
              rows |-> [i \in DOMAIN ctx.table |-> ctx.heap[ctx.table[i]]]]
    /\ ctx' = NewContext(db')
    /\ answer' = None
    /\ asked' = [asked EXCEPT !.committed = asked.pending]
    /\ UNCHANGED calls

\* The proposal fails, or the context served a read-only call.
DropContext ==
    /\ ctx' = NewContext(db)
    /\ ctx' # ctx
    /\ answer' = None
    /\ asked' = [asked EXCEPT !.pending = asked.committed]
    /\ UNCHANGED <<db, calls>>

Next ==
    \/ \E n \in Gas, may \in BOOLEAN : setValueByKey(n, may)
    \/ \E n \in Name, v \in Version : selectByNameAndVersion(n, v)
    \/ \E n \in Name, v \in Version, a \in Address, may \in BOOLEAN : insertName(n, v, a, may)
    \/ \E n \in Name : selectByName(n)
    \/ openTable \/ \E t \in DOMAIN RowOf : crudSelect(t)
    \/ Handles("table") # {} /\ (newCondition \/ newEntry \/ Unauthorized)
    \/ \E ch \in Handles("condition"), op \in Op, f \in Field, n \in Num : Constrain(ch, op, f, n)
    \/ \E ch \in Handles("condition") : Limit(ch) \/ select(ch) \/ remove(ch)
    \/ \E eh \in Handles("entry"), f \in Field, n \in Num : setField(eh, f, n)
    \/ \E eh \in Handles("entry"), f \in Field : getInt(eh, f)
    \/ \E eh \in Handles("entry") : insert(eh)
    \/ \E eh \in Handles("entry"), ch \in Handles("condition") : update(eh, ch)
    \/ \E h \in Selections : size(h)
    \/ \E h \in Handles("config row"), n \in Gas : setSystemField(h, n, "")
    \/ \E h \in Handles("name row"), v \in Version : setSystemField(h, 0, v)
    \/ \E h \in Selections, i \in 0 .. 1, s \in {"get(int256)", " get(int256)"} : get(h, i, s)
    \/ dbCommit \/ DropContext

Spec == Init /\ [][Next]_vars

(***************************************************************************)
(* Properties.                                                             *)
(***************************************************************************)

\* The gas limit a block is executed with is the one the last committed block that
\* set it asked for: a change made in a block never applies to the rest of that block,
\* always to the next one, and is forgotten with a block that is not committed.  Lost
\* once the row is set through a selection of CRUDPrecompiled.
GasLimitInForce == asked.touched \/ ctx.gasLimit = ToUint64(asked.committed)

\* A limit below TX_GAS_LIMIT_MIN never comes into force, whatever number is written,
\* other than by the genesis file, which is not checked, or through a selection.
GasLimitAtLeastMin ==
    asked.touched \/ asked.committed = asked.genesis \/ ctx.gasLimit >= MinGas

\* A version of a name is bound once and for ever: within a block and across blocks
\* CNSPrecompiled never lets two addresses answer to one name and version, unless a
\* row is set through a selection.
NameBoundOnce ==
    \/ asked.touched
    \/ \A i, j \in DOMAIN ctx.names :
           ctx.names[i].name = ctx.names[j].name /\ ctx.names[i].version = ctx.names[j].version => i = j

\* The int256 a stored text stands for.
Signed(text) == LET n == AsInt(text) IN IF 2 * n >= Word256 THEN n - Word256 ELSE n

Means(op, a, b) ==
    CASE op = "eq" -> a = b
      [] op = "ne" -> a # b
      [] op = "gt" -> a > b
      [] op = "ge" -> a >= b
      [] op = "lt" -> a < b
      [] op = "le" -> a <= b

\* A selection compares numbers, not texts: at the moment it is made it holds exactly
\* the rows for which every remembered condition is true of the int256 values, as long
\* as these are between 0 and the greatest int.
SelectionIsRight ==
    answer.is = "address" /\ ctx.handles[answer.at].kind = "entries" =>
        LET e == ctx.handles[answer.at]
            Small(text) == text # {} /\ Signed(text) \in 0 .. IntMax
        IN  (/\ \A i \in DOMAIN e.conds : Small(e.conds[i].value)
             /\ \A r \in ToSet(ctx.table), i \in DOMAIN e.conds :
                    Small(GetField(ctx.heap[r], e.conds[i].field)))
            => \A r \in ToSet(ctx.table) :
                   r \in ToSet(e.rows) <=>
                       \/ e.conds = <<>>
                       \/ /\ ctx.heap[r].status = 0
                          /\ \A i \in DOMAIN e.conds :
                                 Means(e.conds[i].op, Signed(GetField(ctx.heap[r], e.conds[i].field)),
                                       Signed(e.conds[i].value))

\* get(int256), as the interface of Entries names it, hands out the row of an index
\* that is in range.  The code does not keep this: its selector is that of a name
\* with a leading blank.
GetReachesRows ==
    [][\A h \in Handles("entries"), i \in 0 .. 1 :
           get(h, i, "get(int256)") /\ i < Len(ctx.handles[h].rows) => answer'.is = "address"]_vars
=============================================================================
