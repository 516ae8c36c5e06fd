-------------------------- MODULE BlockChainProofs --------------------------
(***************************************************************************)
(* Proofs about BlockChain for any number of committing and reading        *)
(* threads, any blocks and any size of the block cache.                    *)
(***************************************************************************)
EXTENDS BlockChain, FiniteSetTheorems, TLAPS

Hash == {b.hash : b \in AllBlocks}
Number == 0..MaxNumber
Enable == 0..(MaxNumber + 1)
Context == [config : {Nothing} \cup [value : {b.config : b \in AllBlocks}, enable : Enable],
            nodes : {Nothing} \cup [NodeID -> Row]]
PC == {"idle", "number", "parent", "lock", "write", "unlock"}
Call == [pc : PC, block : AllBlocks, context : {Nothing} \cup Context]

\* The state of the committing threads, and what they make of the database.
CallsOK ==
    /\ committer \in [Committer -> Call]
    /\ commitMutex \in Committer \cup {Nothing}
    /\ failures \in Nat
    /\ \A c \in Committer : committer[c].pc # "idle" =>
          committer[c].block \in Block /\ committer[c].context \in Context

\* The thread that writes holds the commit mutex, and after a failure the mutex
\* is held by no thread that will ever release it.
MutexHeld ==
    /\ \A c \in Committer : committer[c].pc \in {"write", "unlock"} => commitMutex = c
    /\ failures > 0 =>
          /\ commitMutex # Nothing
          /\ \A c \in Committer : committer[c].pc \notin {"write", "unlock"}

\* The part of the database that the types of the rest depend on.
DbOK == db.number \in Number /\ db.hash2block \subseteq Hash /\ db.nodes \in [NodeID -> Row]

CommitInv == CallsOK /\ DbOK /\ MutexHeld

-----------------------------------------------------------------------------
(* Blocks *)

LEMMA Numbers ==
    /\ MaxNumber \in Nat /\ 0 \in Number
    /\ \A b \in AllBlocks : b.number \in Number
    /\ Genesis.number = 0 /\ Genesis \in AllBlocks
<1>1. \E n \in {b.number : b \in AllBlocks} : \A b \in AllBlocks : b.number <= n
  BY HighestAssumption DEF AllBlocks
<1>2. /\ MaxNumber \in {b.number : b \in AllBlocks}
      /\ \A b \in AllBlocks : b.number <= MaxNumber
  BY <1>1 DEF MaxNumber
<1>3. Genesis \in AllBlocks /\ \A b \in AllBlocks : b.number \in Nat  BY BlockAssumption DEF AllBlocks
<1>4. Genesis.number = 0  BY BlockAssumption
<1> QED  BY <1>2, <1>3, <1>4 DEF Number

LEMMA BlockOfHash == ASSUME NEW b \in AllBlocks PROVE BlockOf(b.hash) = b
BY BlockAssumption DEF BlockOf, AllBlocks

LEMMA ContextOK ==
    ASSUME NEW b \in Block, DbOK
    PROVE  ExecuteBlock(b) \in Context
<1>1. b \in AllBlocks /\ db.nodes \in [NodeID -> Row]  BY DEF AllBlocks, DbOK
<1>e. PICK e \in Enable : e = number + 1
  BY Numbers DEF DbOK, Enable, Number, number
<1> DEFINE config == IF b.config = Nothing THEN Nothing
                     ELSE [value |-> b.config, enable |-> e]
           nodes == IF b.change = Nothing THEN Nothing
                    ELSE [db.nodes EXCEPT ![b.change.node] =
                              [type |-> b.change.type, enable |-> e]]
<1>2. config \in {Nothing} \cup [value : {c.config : c \in AllBlocks}, enable : Enable]
  BY <1>1, <1>e
<1>3. nodes \in {Nothing} \cup [NodeID -> Row]
  <2>1. CASE b.change # Nothing
    <3>1. [type |-> b.change.type, enable |-> e] \in Row
      BY <1>e, <2>1, NodeAssumption DEF Row, Type, Enable
    <3> QED  BY <1>1, <2>1, <3>1, Zenon
  <2> QED  BY <2>1
<1>4. ExecuteBlock(b) = [config |-> config, nodes |-> nodes]  BY <1>e DEF ExecuteBlock
<1> HIDE DEF config, nodes
<1> QED  BY <1>2, <1>3, <1>4 DEF Context

-----------------------------------------------------------------------------
(* The steps of the committing threads *)

LEMMA IdleOK == Idle \in Call
BY Numbers DEF Idle, Call, PC

LEMMA ReturnOK ==
    ASSUME committer \in [Committer -> Call], NEW c \in Committer, Return(c)
    PROVE  /\ committer' \in [Committer -> Call]
           /\ \A d \in Committer : d # c => committer'[d] = committer[d]
           /\ committer'[c].pc = "idle"
<1>1. Idle \in Call /\ Idle.pc = "idle"  BY IdleOK DEF Idle
<1> QED  BY <1>1 DEF Return

\* Thread c has gone on to pc with the block and the context it had.
After(c, pc) ==
    /\ committer' \in [Committer -> Call]
    /\ \A d \in Committer : d # c => committer'[d] = committer[d]
    /\ committer'[c].pc = pc /\ committer'[c].block = committer[c].block
    /\ committer'[c].context = committer[c].context

LEMMA GotoOK ==
    ASSUME committer \in [Committer -> Call], NEW c \in Committer, NEW pc \in PC, Goto(c, pc)
    PROVE  After(c, pc)
<1> DEFINE call == [committer[c] EXCEPT !.pc = pc]
<1>1. committer[c] \in Call  OBVIOUS
<1>2. /\ call \in Call /\ call.pc = pc /\ call.block = committer[c].block
      /\ call.context = committer[c].context
  BY <1>1 DEF Call, PC
<1>3. committer' = [committer EXCEPT ![c] = call]  BY DEF Goto
<1> HIDE DEF call
<1> QED  BY <1>2, <1>3 DEF After

\* The readers leave the database and the committing threads alone.
LEMMA ReadersOnlyRead ==
    ASSUME NEW r \in Reader, GetBlock(r) \/ GetSystemTables(r)
    PROVE  UNCHANGED <<db, commitMutex, committer, failures>>
BY DEF GetBlock, GetSystemTables, GetTxByHash, GetCode, GetBlockByNumber, ReadBlockCache,
       ReadBlockStorage, GetSystemConfigByKey, ReadSystemConfig, NodeList, ReadNodeList

\* A write stores the block and the rows of its context.
LEMMA Written ==
    ASSUME CommitInv, NEW c \in Committer, Write(c)
    PROVE  /\ db'.number = committer[c].block.number /\ committer[c].block \in Block
           /\ db'.hash2block = db.hash2block \cup {committer[c].block.hash}
           /\ db'.number2hash = [db.number2hash EXCEPT ![committer[c].block.number] =
                                   Append(@, committer[c].block.hash)]
           /\ db'.tx2block = Rows(committer[c].block, IndexIn(committer[c].block))
           /\ db'.nodes \in [NodeID -> Row]
           /\ Goto(c, "unlock") /\ committer[c].pc = "write"
           /\ UNCHANGED <<commitMutex, reader, caches, failures>>
<1> DEFINE b == committer[c].block
           x == committer[c].context
<1>1. b \in Block /\ x \in Context  BY DEF Write, CommitInv, CallsOK
<1>2. db' = WriteTables(x, b.number, db.total + Len(b.txs), Rows(b, IndexIn(b)), b)
  BY DEF Write, WriteBlock
<1> HIDE DEF b, x
<1>3. /\ db'.number = b.number /\ db'.hash2block = db.hash2block \cup {b.hash}
      /\ db'.number2hash = [db.number2hash EXCEPT ![b.number] = Append(@, b.hash)]
      /\ db'.tx2block = Rows(b, IndexIn(b))
      /\ db'.nodes = IF x.nodes = Nothing THEN db.nodes ELSE x.nodes
  BY <1>2 DEF WriteTables
<1>4. db'.nodes \in [NodeID -> Row]  BY <1>1, <1>3 DEF CommitInv, DbOK, Context
<1>5. /\ Goto(c, "unlock") /\ committer[c].pc = "write"
      /\ UNCHANGED <<commitMutex, reader, caches, failures>>
  BY DEF Write
<1> QED  BY <1>1, <1>3, <1>4, <1>5 DEF b

LEMMA CommitStep ==
    ASSUME CommitInv, NEW c \in Committer, CommitBlock(c)
    PROVE  CommitInv'
<1> USE DEF CommitInv
<1>0. committer \in [Committer -> Call] /\ c # Nothing /\ failures \in Nat
  BY ThreadAssumption DEF CallsOK
<1>1. CASE \E b \in Block : Execute(c, b)
  <2>1. PICK b \in Block : Execute(c, b)  BY <1>1
  <2> DEFINE call == [pc |-> "number", block |-> b, context |-> ExecuteBlock(b)]
  <2>2. ExecuteBlock(b) \in Context  BY ContextOK
  <2>3. call \in Call /\ call.pc = "number" /\ call.block \in Block /\ call.context \in Context
    BY <2>2 DEF Call, AllBlocks, PC
  <2>4. committer' = [committer EXCEPT ![c] = call]  BY <2>1 DEF Execute
  <2> HIDE DEF call
  <2> QED  BY <1>0, <2>1, <2>3, <2>4 DEF Execute, CallsOK, DbOK, MutexHeld
<1>7. CASE CheckNumber(c)
  <2>1. CASE Return(c)
    BY <1>0, <1>7, <2>1, ReturnOK DEF CheckNumber, CallsOK, DbOK, MutexHeld
  <2>2. CASE Goto(c, "parent")
    <3>1. After(c, "parent")  BY <1>0, <2>2, GotoOK DEF PC
    <3>2. committer[c].pc = "number" /\ UNCHANGED <<db, commitMutex, failures>>
      BY <1>7 DEF CheckNumber
    <3>3. CallsOK'  BY <3>1, <3>2 DEF CallsOK, After
    <3>4. MutexHeld'  BY <3>1, <3>2 DEF MutexHeld, After
    <3> QED  BY <3>2, <3>3, <3>4 DEF DbOK
  <2> QED  BY <1>7, <2>1, <2>2 DEF CheckNumber
<1>2. CASE CheckParentHash(c)
  <2>1. CASE Return(c)
    BY <1>0, <1>2, <2>1, ReturnOK DEF CheckParentHash, CallsOK, DbOK, MutexHeld
  <2>2. CASE Goto(c, "lock")
    <3>1. After(c, "lock")  BY <1>0, <2>2, GotoOK DEF PC
    <3>2. committer[c].pc = "parent" /\ UNCHANGED <<db, commitMutex, failures>>
      BY <1>2 DEF CheckParentHash
    <3>3. CallsOK'  BY <3>1, <3>2 DEF CallsOK, After
    <3>4. MutexHeld'  BY <3>1, <3>2 DEF MutexHeld, After
    <3> QED  BY <3>2, <3>3, <3>4 DEF DbOK
  <2> QED  BY <1>2, <2>1, <2>2 DEF CheckParentHash
<1>3. CASE TryLock(c)
  <2>1. CASE commitMutex = Nothing
    <3>1. Goto(c, "write") /\ commitMutex' = c /\ UNCHANGED <<db, failures>>
      BY <1>3, <2>1 DEF TryLock
    <3>2. failures = 0 /\ \A d \in Committer : committer[d].pc \notin {"write", "unlock"}
      BY <1>0, <2>1, ThreadAssumption DEF MutexHeld
    <3>3. After(c, "write")  BY <1>0, <3>1, GotoOK DEF PC
    <3>4. committer[c].pc = "lock"  BY <1>3 DEF TryLock
    <3>5. CallsOK'  BY <3>1, <3>3, <3>4 DEF CallsOK, After
    <3>6. MutexHeld'  BY <3>1, <3>2, <3>3 DEF MutexHeld, After
    <3> QED  BY <3>1, <3>5, <3>6 DEF DbOK
  <2>2. CASE commitMutex # Nothing
    BY <1>0, <1>3, <2>2, ReturnOK DEF TryLock, CallsOK, DbOK, MutexHeld
  <2> QED  BY <2>1, <2>2
<1>4. CASE Write(c)
  <2>1. committer[c].block \in AllBlocks  BY <1>4, Written, Zenon DEF AllBlocks
  <2>2. DbOK'
    BY <1>4, <2>1, Written, Numbers, ZenonT(40) DEF DbOK, Hash
  <2>3. committer[c].pc = "write" /\ UNCHANGED <<commitMutex, failures>> /\ Goto(c, "unlock")
    BY <1>4 DEF Write
  <2>4. After(c, "unlock")  BY <1>0, <2>3, GotoOK DEF PC
  <2>5. CallsOK'  BY <2>3, <2>4 DEF CallsOK, After
  <2>6. MutexHeld'  BY <2>3, <2>4 DEF MutexHeld, After
  <2> QED  BY <2>2, <2>5, <2>6
<1>5. CASE WriteThrows(c)
  <2>1. commitMutex = c /\ \A d \in Committer : committer[d].pc \in {"write", "unlock"} => d = c
    BY <1>5 DEF WriteThrows, MutexHeld
  <2> QED  BY <1>0, <1>5, <2>1, ReturnOK DEF WriteThrows, CallsOK, DbOK, MutexHeld
<1>6. CASE Unlock(c) \/ OpenSysTableFails(c)
  <2>1. failures = 0 /\ \A d \in Committer : committer[d].pc \in {"write", "unlock"} => d = c
    BY <1>0, <1>6 DEF Unlock, OpenSysTableFails, MutexHeld
  <2>2. Return(c) /\ commitMutex' = Nothing /\ UNCHANGED <<db, failures>>
    BY <1>6 DEF Unlock, OpenSysTableFails
  <2> QED  BY <1>0, <2>1, <2>2, ReturnOK DEF CallsOK, DbOK, MutexHeld
<1> QED  BY <1>1, <1>2, <1>3, <1>4, <1>5, <1>6, <1>7 DEF CommitBlock

LEMMA CommitInvariant == Spec => []CommitInv
<1>1. Init => CommitInv
  <2> SUFFICES ASSUME Init PROVE CommitInv  OBVIOUS
  <2>1. CallsOK /\ MutexHeld
    BY IdleOK DEF Init, CallsOK, MutexHeld, Idle
  <2>2. \A n \in NodeID : [type |-> InitialType[n], enable |-> 0] \in Row
    BY NodeAssumption, Numbers DEF Row, Type
  <2>3. DbOK
    BY <2>2, Numbers DEF Init, checkAndBuildGenesisBlock, DbOK, Hash
  <2> QED  BY <2>1, <2>3 DEF CommitInv
<1>2. CommitInv /\ [Next]_vars => CommitInv'
  <2> SUFFICES ASSUME CommitInv, [Next]_vars PROVE CommitInv'  OBVIOUS
  <2>1. CASE \E c \in Committer : CommitBlock(c)  BY <2>1, CommitStep
  <2>2. CASE UNCHANGED <<db, commitMutex, committer, failures>>
    BY <2>2 DEF CommitInv, CallsOK, DbOK, MutexHeld
  <2> QED  BY <2>1, <2>2, ReadersOnlyRead DEF Next, vars
<1> QED  BY <1>1, <1>2, PTL DEF Spec

\* Only a write changes the database.
LEMMA OnlyWrites ==
    ASSUME [Next]_vars
    PROVE  (\E c \in Committer : Write(c)) \/ UNCHANGED db
<1>1. ASSUME NEW c \in Committer, CommitBlock(c) PROVE Write(c) \/ UNCHANGED db
  BY <1>1 DEF CommitBlock, Execute, CheckNumber, CheckParentHash, TryLock, OpenSysTableFails,
              WriteThrows, Unlock
<1> QED  BY <1>1, ReadersOnlyRead DEF Next, vars

\* A write that throws leaves the commit mutex locked for good, so no thread, the
\* one that failed included, changes the database again.
THEOREM FailureStops == Spec => FailureStopsCommits
<1>1. CommitInv /\ [Next]_vars => [failures > 0 => UNCHANGED db]_vars
  <2> SUFFICES ASSUME CommitInv, [Next]_vars, failures > 0 PROVE UNCHANGED db  OBVIOUS
  <2>1. ASSUME NEW c \in Committer PROVE ~Write(c)
    BY DEF CommitInv, MutexHeld, Write
  <2> QED  BY <2>1, OnlyWrites
<1> QED  BY <1>1, CommitInvariant, PTL DEF Spec, FailureStopsCommits

-----------------------------------------------------------------------------
(* Lookups *)

\* The first block that was written with number i: what every reader takes.
First(i) == db.number2hash[i][1]
IsWritten(i) == i \in Number /\ db.number2hash[i] # <<>>

\* b can be written: it comes after a block that has been.
Follows(b) ==
    /\ b \in Block /\ b.number \in Number /\ b.number > 0
    /\ IsWritten(b.number - 1) /\ b.parent = First(b.number - 1)

\* h is the hash of a stored block with number i that comes after First(i - 1).
Stored(i, h) ==
    /\ h \in db.hash2block
    /\ \E b \in AllBlocks : b.hash = h /\ b.number = i /\ (i > 0 => Follows(b))

\* Block b holds what the query q asks for.
Holds(b, q) == IF q.index = 0 THEN b.number = q.asked ELSE b.txs[q.index] = q.asked

ChainInv ==
    /\ db.number2hash \in [Number -> Seq(Hash)]
    /\ \A i \in Number : \A k \in 1..Len(db.number2hash[i]) : Stored(i, db.number2hash[i][k])
    /\ IsWritten(db.number)
    /\ \A c \in Committer : committer[c].pc \in {"lock", "write"} => Follows(committer[c].block)

\* An entry of the transaction index: a block number and an index in the block.
Entry == Number \X (Nat \ {0})

\* The entry e of the transaction index leads to t.
Leads(e, t) ==
    /\ IsWritten(e[1]) /\ e[2] \in Nat \ {0}
    /\ BlockOf(First(e[1])).txs[e[2]] = t

IndexInv ==
    \A t \in Tx : /\ db.tx2block[t] \in Seq(Entry)
                  /\ \A k \in 1..Len(db.tx2block[t]) : Leads(db.tx2block[t][k], t)

QueryOK(q) ==
    /\ q.op \in {"tx", "block"} /\ q.pc = "idle" => q.got = q.asked
    /\ q.pc = "number" => IsWritten(q.number) /\ Holds(BlockOf(First(q.number)), q)
    /\ q.pc \in {"hash", "storage"} => q.hash \in db.hash2block /\ Holds(BlockOf(q.hash), q)
    /\ q.pc = "config" => q.op = "config" /\ q.number \in Int
    /\ q.pc = "nodes" => q.op \in Type /\ q.number \in Int

IsQuery(q) ==
    q = [pc |-> q.pc, op |-> q.op, asked |-> q.asked, number |-> q.number, index |-> q.index,
         hash |-> q.hash, got |-> q.got]

ReadersOK ==
    /\ reader = [r \in Reader |-> reader[r]]
    /\ \A r \in Reader : IsQuery(reader[r]) /\ QueryOK(reader[r])

LookupInv == ChainInv /\ IndexInv /\ ReadersOK

LEMMA AppendFacts ==
    ASSUME NEW S, NEW s \in Seq(S), NEW e \in S
    PROVE  /\ Append(s, e) \in Seq(S) /\ Len(Append(s, e)) = Len(s) + 1 /\ Len(s) \in Nat
           /\ \A k \in 1..Len(s) : Append(s, e)[k] = s[k]
           /\ Append(s, e)[Len(s) + 1] = e
           /\ Append(s, e) # <<>> /\ s # <<>> => Append(s, e)[1] = s[1]
           /\ s # <<>> <=> Len(s) > 0
<1>1. Append(s, e) \in Seq(S) /\ Len(Append(s, e)) = Len(s) + 1 /\ Len(s) \in Nat  OBVIOUS
<1>2. s # <<>> <=> Len(s) > 0  OBVIOUS
<1>3. \A k \in 1..Len(s) : Append(s, e)[k] = s[k]  OBVIOUS
<1>4. Append(s, e)[Len(s) + 1] = e  OBVIOUS
<1>5. Append(s, e) # <<>>  BY <1>1
<1>6. s # <<>> => 1 \in 1..Len(s)  BY <1>1, <1>2
<1> QED  BY <1>1, <1>2, <1>3, <1>4, <1>5, <1>6

\* One block at most can follow the chain at each number.
OneBlockEach == \A b \in Block : Follows(b) /\ IsWritten(b.number) => First(b.number) = b.hash

LEMMA Unique == ChainInv => OneBlockEach
<1> SUFFICES ASSUME ChainInv, NEW b \in Block, Follows(b), IsWritten(b.number)
             PROVE  First(b.number) = b.hash
  BY DEF OneBlockEach
<1> DEFINE n == b.number
<1>1. n \in Number /\ n > 0 /\ db.number2hash[n] \in Seq(Hash) /\ db.number2hash[n] # <<>>
  BY DEF ChainInv, Follows, IsWritten
<1>2. 1 \in 1..Len(db.number2hash[n])  BY <1>1
<1>3. Stored(n, First(n))  BY <1>1, <1>2 DEF ChainInv, First
<1>4. PICK c \in AllBlocks : c.hash = First(n) /\ c.number = n /\ Follows(c)
  BY <1>1, <1>3 DEF Stored
<1>5. c \in Block /\ c.parent = b.parent  BY <1>4 DEF Follows
<1> QED  BY <1>4, <1>5, ForkAssumption

\* Nothing that readers have seen of the chain changes.
Grows ==
    /\ db.hash2block \subseteq db'.hash2block
    /\ \A i \in Number : IsWritten(i) => IsWritten(i)' /\ First(i)' = First(i)

LEMMA Unmoved ==
    ASSUME Grows
    PROVE  /\ \A b : Follows(b) => Follows(b)'
           /\ \A i, h : Stored(i, h) => Stored(i, h)'
           /\ \A e, t : Leads(e, t) => Leads(e, t)'
           /\ \A q : QueryOK(q) => QueryOK(q)'
<1>1. ASSUME NEW b, Follows(b) PROVE Follows(b)'
  <2>1. IsWritten(b.number - 1) /\ b.number - 1 \in Number  BY <1>1 DEF Follows, IsWritten
  <2>2. IsWritten(b.number - 1)' /\ First(b.number - 1)' = First(b.number - 1)
    BY <2>1 DEF Grows
  <2> QED  BY <1>1, <2>2 DEF Follows
<1>2. ASSUME NEW i, NEW h, Stored(i, h) PROVE Stored(i, h)'
  BY <1>1, <1>2 DEF Stored, Grows
<1>3. ASSUME NEW e, NEW t, Leads(e, t) PROVE Leads(e, t)'
  <2>1. IsWritten(e[1]) /\ e[1] \in Number  BY <1>3 DEF Leads, IsWritten
  <2>2. IsWritten(e[1])' /\ First(e[1])' = First(e[1])  BY <2>1 DEF Grows
  <2> QED  BY <1>3, <2>2 DEF Leads
<1>4. ASSUME NEW q, QueryOK(q) PROVE QueryOK(q)'
  <2>1. CASE q.pc = "number"
    <3>1. IsWritten(q.number) /\ q.number \in Number  BY <1>4, <2>1 DEF QueryOK, IsWritten
    <3>2. IsWritten(q.number)' /\ First(q.number)' = First(q.number)  BY <3>1 DEF Grows
    <3> QED  BY <1>4, <2>1, <3>2 DEF QueryOK, Holds
  <2>2. CASE q.pc # "number"
    BY <1>4, <2>2 DEF QueryOK, Grows
  <2> QED  BY <2>1, <2>2
<1> QED  BY <1>1, <1>2, <1>3, <1>4

\* The second write of a block adds a second entry and changes nothing else.
LEMMA WriteChain ==
    ASSUME CommitInv, ChainInv, NEW c \in Committer, Write(c), NEW b, b = committer[c].block
    PROVE  Grows /\ ChainInv' /\ Follows(b)' /\ IsWritten(b.number)'
<1> DEFINE n == b.number
           h == b.hash
<1>1. Follows(b) /\ b \in Block /\ n \in Number /\ n > 0 /\ b \in AllBlocks /\ h \in Hash
  BY Written, Zenon DEF ChainInv, Follows, AllBlocks, Hash
<1>2. /\ db'.number = n /\ db'.hash2block = db.hash2block \cup {h}
      /\ db'.number2hash = [db.number2hash EXCEPT ![n] = Append(db.number2hash[n], h)]
  BY Written, Zenon
<1>4. committer \in [Committer -> Call] /\ Goto(c, "unlock")
  BY Written, Zenon DEF CommitInv, CallsOK
<1>5. After(c, "unlock")  BY <1>4, GotoOK DEF PC
<1> HIDE DEF n, h
<1>6. /\ db.number2hash \in [Number -> Seq(Hash)] /\ db.number2hash[n] \in Seq(Hash)
      /\ db'.number2hash \in [Number -> Seq(Hash)]
      /\ db'.number2hash[n] = Append(db.number2hash[n], h)
      /\ \A i \in Number : i # n => db'.number2hash[i] = db.number2hash[i]
  <2>1. db.number2hash \in [Number -> Seq(Hash)]  BY DEF ChainInv
  <2>2. Append(db.number2hash[n], h) \in Seq(Hash)  BY <1>1, <2>1, AppendFacts
  <2> QED  BY <1>1, <1>2, <2>1, <2>2
<1>7. Grows
  <2>1. ASSUME NEW i \in Number, IsWritten(i) PROVE IsWritten(i)' /\ First(i)' = First(i)
    <3>1. CASE i = n
      BY <1>1, <1>6, <2>1, <3>1, AppendFacts DEF IsWritten, First
    <3>2. CASE i # n
      BY <1>6, <2>1, <3>2 DEF IsWritten, First
    <3> QED  BY <3>1, <3>2
  <2> QED  BY <1>2, <2>1 DEF Grows
<1>8. Follows(b)' /\ IsWritten(n)'
  BY <1>1, <1>6, <1>7, Unmoved, AppendFacts DEF IsWritten
<1>9. ASSUME NEW i \in Number, NEW k \in 1..Len(db'.number2hash[i])
      PROVE  Stored(i, db.number2hash[i][k])'
  <2>1. CASE i # n \/ k \in 1..Len(db.number2hash[i])
    <3>1. k \in 1..Len(db.number2hash[i]) /\ db'.number2hash[i][k] = db.number2hash[i][k]
      BY <1>1, <1>6, <2>1, AppendFacts
    <3>2. Stored(i, db.number2hash[i][k])  BY <3>1 DEF ChainInv
    <3>3. PICK x : x = db.number2hash[i][k]  OBVIOUS
    <3>4. Stored(i, x)'  BY <1>7, <3>2, <3>3, Unmoved
    <3> QED  BY <3>1, <3>3, <3>4
  <2>2. CASE i = n /\ k \notin 1..Len(db.number2hash[n])
    <3>1. db'.number2hash[i][k] = h
      BY <1>1, <1>6, <2>2, AppendFacts
    <3>2. Stored(n, h)'  BY <1>1, <1>2, <1>8 DEF Stored, n, h
    <3> QED  BY <2>2, <3>1, <3>2
  <2> QED  BY <2>1, <2>2
<1>10. ASSUME NEW d \in Committer, committer'[d].pc \in {"lock", "write"}
       PROVE  Follows(committer[d].block)'
  <2>1. PICK x : x = committer[d].block  OBVIOUS
  <2>2. d # c /\ committer'[d] = committer[d]  BY <1>5, <1>10 DEF After
  <2>3. Follows(x)'  BY <1>7, <1>10, <2>1, <2>2, Unmoved DEF ChainInv
  <2> QED  BY <2>1, <2>2, <2>3
<1> QED  BY <1>2, <1>6, <1>7, <1>8, <1>9, <1>10, Zenon DEF ChainInv, n

LEMMA WriteIndex ==
    ASSUME CommitInv, ChainInv, IndexInv, NEW c \in Committer, Write(c)
    PROVE  IndexInv'
<1>0. PICK b : b = committer[c].block  OBVIOUS
<1>1. Grows /\ ChainInv' /\ Follows(b)' /\ IsWritten(b.number)' /\ b \in Block /\ b \in AllBlocks
  BY <1>0, WriteChain, Written, Zenon DEF AllBlocks
<1>2. BlockOf(First(b.number)') = b
  <2>1. OneBlockEach'  BY <1>1, Unique, PTL
  <2>2. First(b.number)' = b.hash  BY <1>1, <2>1, Zenon DEF OneBlockEach
  <2> QED  BY <1>1, <2>2, BlockOfHash
<1>3. db'.tx2block = Rows(b, IndexIn(b))  BY <1>0, Written, Zenon
<1> SUFFICES ASSUME NEW t \in Tx
             PROVE  /\ db'.tx2block[t] \in Seq(Entry)
                    /\ \A k \in 1..Len(db'.tx2block[t]) : Leads(db.tx2block[t][k], t)'
  BY Zenon DEF IndexInv
<1>4. /\ db.tx2block[t] \in Seq(Entry)
      /\ \A k \in 1..Len(db.tx2block[t]) : Leads(db.tx2block[t][k], t)
  BY DEF IndexInv
<1>5. ASSUME NEW k \in 1..Len(db.tx2block[t]), db'.tx2block[t][k] = db.tx2block[t][k]
      PROVE  Leads(db.tx2block[t][k], t)'
  <2>1. PICK e : e = db.tx2block[t][k]  OBVIOUS
  <2>2. Leads(e, t)'  BY <1>1, <1>4, <2>1, Unmoved, Zenon
  <2> QED  BY <1>5, <2>1, <2>2
<1>6. CASE t \notin Elements(b.txs)
  <2>1. db'.tx2block[t] = db.tx2block[t]  BY <1>3, <1>6 DEF Rows
  <2> QED  BY <1>4, <1>5, <2>1
<1>7. CASE t \in Elements(b.txs)
  <2> DEFINE x == <<b.number, IndexIn(b)[t]>>
  <2>1. IndexIn(b)[t] \in 1..Len(b.txs) /\ b.txs[IndexIn(b)[t]] = t
    <3>1. b.txs \in Seq(Elements(b.txs))  BY <1>1, BlockAssumption DEF AllBlocks
    <3>2. PICK k \in 1..Len(b.txs) : b.txs[k] = t  BY <1>7 DEF Elements
    <3>3. t \in Elements(b.txs)  BY <3>1, <3>2 DEF Elements
    <3>4. IndexIn(b)[t] = CHOOSE j \in 1..Len(b.txs) : b.txs[j] = t  BY <3>3 DEF IndexIn
    <3> QED  BY <3>2, <3>4
  <2>2. Len(b.txs) \in Nat  BY <1>1, BlockAssumption DEF AllBlocks
  <2>3. x \in Entry /\ x[1] = b.number /\ x[2] = IndexIn(b)[t]
    BY <1>1, <2>1, <2>2, Numbers DEF Entry
  <2>4. Leads(x, t)'
    <3>1. x[2] \in Nat \ {0} /\ b.txs[x[2]] = t  BY <2>1, <2>2, <2>3
    <3> QED  BY <1>1, <1>2, <2>3, <3>1 DEF Leads, First
  <2>5. db'.tx2block[t] = Append(db.tx2block[t], x)  BY <1>3, <1>7 DEF Rows
  <2> HIDE DEF x
  <2>6. /\ db'.tx2block[t] \in Seq(Entry)
        /\ Len(db'.tx2block[t]) = Len(db.tx2block[t]) + 1 /\ Len(db.tx2block[t]) \in Nat
        /\ \A k \in 1..Len(db.tx2block[t]) : db'.tx2block[t][k] = db.tx2block[t][k]
        /\ db'.tx2block[t][Len(db.tx2block[t]) + 1] = x
    BY <1>4, <2>3, <2>5, AppendFacts
  <2>7. ASSUME NEW k \in 1..Len(db'.tx2block[t]) PROVE Leads(db.tx2block[t][k], t)'
    <3>1. CASE k \in 1..Len(db.tx2block[t])  BY <1>5, <2>6, <3>1
    <3>2. CASE k \notin 1..Len(db.tx2block[t])
      <4>1. db'.tx2block[t][k] = x  BY <2>6, <3>2
      <4> QED  BY <2>4, <4>1
    <3> QED  BY <3>1, <3>2
  <2> QED  BY <2>6, <2>7
<1> QED  BY <1>6, <1>7

-----------------------------------------------------------------------------
(* The steps of the reading threads *)

\* The reader's record after a step: all the others keep theirs.
LEMMA ReaderStep ==
    ASSUME ReadersOK, NEW r \in Reader, NEW q, IsQuery(q), QueryOK(q)', reader' = [reader EXCEPT ![r] = q],
           UNCHANGED db
    PROVE  ReadersOK'
<1>1. /\ reader' = [s \in Reader |-> reader'[s]] /\ reader'[r] = q
      /\ \A s \in Reader : s # r => reader'[s] = reader[s]
  BY DEF ReadersOK
<1>2. ASSUME NEW s \in Reader PROVE IsQuery(reader[s])' /\ QueryOK(reader[s])'
  <2>1. CASE s = r
    <3>1. reader'[s] = q  BY <1>1, <2>1
    <3> QED  BY <3>1 DEF IsQuery, QueryOK
  <2>2. CASE s # r
    <3>1. IsQuery(reader[s]) /\ QueryOK(reader[s]) /\ reader'[s] = reader[s]
      BY <1>1, <2>2 DEF ReadersOK
    <3> QED  BY <3>1, Zenon DEF IsQuery, QueryOK, IsWritten, First, Holds
  <2> QED  BY <2>1, <2>2
<1> QED  BY <1>1, <1>2 DEF ReadersOK

LEMMA FirstStored ==
    ASSUME ChainInv, NEW i, IsWritten(i)
    PROVE  First(i) \in db.hash2block /\ BlockOf(First(i)).number = i /\ First(i) # Nothing
<1>1. i \in Number /\ db.number2hash[i] \in Seq(Hash) /\ db.number2hash[i] # <<>>
  BY DEF IsWritten, ChainInv
<1>2. 1 \in 1..Len(db.number2hash[i])  BY <1>1
<1>3. Stored(i, First(i))  BY <1>1, <1>2 DEF ChainInv, First
<1>4. PICK b \in AllBlocks : b.hash = First(i) /\ b.number = i  BY <1>3 DEF Stored
<1>5. BlockOf(First(i)) = b /\ b.hash # Nothing  BY <1>4, BlockOfHash, BlockAssumption DEF AllBlocks
<1> QED  BY <1>3, <1>4, <1>5 DEF Stored

\* A query record q for what Query and Answer put in it.
LEMMA QueryStep ==
    ASSUME ReadersOK, NEW r \in Reader, NEW op, NEW pc, NEW asked, NEW n, NEW k,
           Query(r, op, pc, asked, n, k), UNCHANGED db,
           pc # "idle", pc \notin {"hash", "storage"},
           pc = "number" => IsWritten(n) /\ (IF k = 0 THEN BlockOf(First(n)).number = asked
                                             ELSE BlockOf(First(n)).txs[k] = asked),
           pc = "config" => op = "config" /\ n \in Int,
           pc = "nodes" => op \in Type /\ n \in Int
    PROVE  ReadersOK'
<1>1. PICK q : q = [NoQuery EXCEPT !.op = op, !.pc = pc, !.asked = asked, !.number = n, !.index = k]
  BY Zenon
<1>2. reader' = [reader EXCEPT ![r] = q]  BY <1>1, Zenon DEF Query
<1>3. /\ q.pc = pc /\ q.op = op /\ q.asked = asked /\ q.number = n /\ q.index = k
      /\ IsQuery(q)
  BY <1>1, Zenon DEF IsQuery, NoQuery
<1>4. QueryOK(q)  BY <1>3 DEF QueryOK, Holds
<1>5. QueryOK(q)'  BY <1>4 DEF QueryOK, IsWritten, First
<1> QED  BY <1>2, <1>3, <1>5, ReaderStep, Zenon

LEMMA AnswerStep ==
    ASSUME ReadersOK, NEW r \in Reader, NEW got, Answer(r, got), UNCHANGED db,
           reader[r].op \in {"tx", "block"} => got = reader[r].asked
    PROVE  ReadersOK'
<1>1. PICK q : q = [NoQuery EXCEPT !.op = reader[r].op, !.asked = reader[r].asked, !.got = got]
  BY Zenon
<1>2. reader' = [reader EXCEPT ![r] = q]  BY <1>1, Zenon DEF Answer
<1>3. /\ q.pc = "idle" /\ q.op = reader[r].op /\ q.asked = reader[r].asked /\ q.got = got
      /\ IsQuery(q)
  BY <1>1, Zenon DEF IsQuery, NoQuery
<1>4. QueryOK(q)'  BY <1>3 DEF QueryOK
<1> QED  BY <1>2, <1>3, <1>4, ReaderStep, Zenon

LEMMA LookupStep ==
    ASSUME ChainInv, IndexInv, ReadersOK, NEW r \in Reader, GetBlock(r)
    PROVE  ReadersOK'
<1>0. IsQuery(reader[r]) /\ QueryOK(reader[r]) /\ UNCHANGED db
  BY ReadersOnlyRead DEF ReadersOK
<1>1. CASE \E t \in Tx : GetTxByHash(r, t)
  <2>1. PICK t \in Tx : GetTxByHash(r, t)  BY <1>1
  <2>2. PICK e : e = db.tx2block[t][1]  OBVIOUS
  <2>3. db.tx2block[t] \in Seq(Entry) /\ db.tx2block[t] # <<>>
    BY <2>1 DEF GetTxByHash, IndexInv
  <2>4. 1 \in 1..Len(db.tx2block[t])  BY <2>3
  <2>5. Leads(e, t)  BY <2>2, <2>4 DEF IndexInv
  <2>6. Query(r, "tx", "number", t, e[1], e[2])  BY <2>1, <2>2 DEF GetTxByHash
  <2>7. IsWritten(e[1]) /\ e[2] # 0 /\ BlockOf(First(e[1])).txs[e[2]] = t  BY <2>5 DEF Leads
  <2> QED  BY <1>0, <2>6, <2>7, QueryStep
<1>2. CASE GetCode(r)
  <2>1. PICK n : n = db.number  OBVIOUS
  <2>2. Query(r, "block", "number", n, n, 0)  BY <1>2, <2>1 DEF GetCode, number
  <2>3. IsWritten(n) /\ BlockOf(First(n)).number = n  BY <2>1, FirstStored DEF ChainInv
  <2> QED  BY <1>0, <2>2, <2>3, QueryStep
<1>3. CASE GetBlockByNumber(r)
  <2>1. PICK n, h : n = reader[r].number /\ h = First(n)  OBVIOUS
  <2>2. reader[r].pc = "number"  BY <1>3 DEF GetBlockByNumber
  <2>3. IsWritten(n) /\ Holds(BlockOf(h), reader[r])  BY <1>0, <2>1, <2>2 DEF QueryOK
  <2>4. h \in db.hash2block /\ h # Nothing  BY <2>1, <2>3, FirstStored
  <2>5. numberHash(n) = h  BY <2>1, <2>3 DEF numberHash, IsWritten, First
  <2>6. reader' = [reader EXCEPT ![r].pc = "hash", ![r].hash = h]
    BY <1>3, <2>1, <2>4, <2>5 DEF GetBlockByNumber
  <2>7. PICK q : q = [reader[r] EXCEPT !.pc = "hash", !.hash = h]  BY Zenon
  <2>8. /\ IsQuery(q) /\ q.pc = "hash" /\ q.hash = h /\ q.index = reader[r].index
        /\ q.asked = reader[r].asked
    BY <1>0, <2>7, Zenon DEF IsQuery
  <2>9. Holds(BlockOf(h), q)  BY <2>3, <2>8 DEF Holds
  <2>10. QueryOK(q)'  BY <1>0, <2>4, <2>8, <2>9 DEF QueryOK
  <2>11. reader' = [reader EXCEPT ![r] = q]  BY <2>6, <2>7, Zenon
  <2> QED  BY <1>0, <2>8, <2>10, <2>11, ReaderStep, Zenon
<1>4. CASE ReadBlockCache(r)
  <2>1. reader[r].pc = "hash"  BY <1>4 DEF ReadBlockCache
  <2>2. Holds(BlockOf(reader[r].hash), reader[r])  BY <1>0, <2>1 DEF QueryOK
  <2>3. PICK x : x = Found(r)  OBVIOUS
  <2>4. x = reader[r].asked  BY <2>2, <2>3 DEF Found, Holds
  <2>5. CASE Answer(r, Found(r))  BY <1>0, <2>3, <2>4, <2>5, AnswerStep
  <2>6. CASE reader' = [reader EXCEPT ![r].pc = "storage"]
    <3>1. PICK q : q = [reader[r] EXCEPT !.pc = "storage"]  BY Zenon
    <3>2. /\ IsQuery(q) /\ q.pc = "storage" /\ q.hash = reader[r].hash
          /\ q.index = reader[r].index /\ q.asked = reader[r].asked
      BY <1>0, <3>1 DEF IsQuery
    <3>3. Holds(BlockOf(q.hash), q)  BY <2>2, <3>2 DEF Holds
    <3>4. QueryOK(q)'  BY <1>0, <2>1, <3>2, <3>3 DEF QueryOK
    <3>5. reader' = [reader EXCEPT ![r] = q]  BY <2>6, <3>1 DEF ReadersOK
    <3> QED  BY <1>0, <3>2, <3>4, <3>5, ReaderStep, Zenon
  <2> QED  BY <1>4, <2>5, <2>6 DEF ReadBlockCache
<1>5. CASE ReadBlockStorage(r)
  <2>1. reader[r].pc = "storage"  BY <1>5 DEF ReadBlockStorage
  <2>2. reader[r].hash \in db.hash2block /\ Holds(BlockOf(reader[r].hash), reader[r])
    BY <1>0, <2>1 DEF QueryOK
  <2>3. PICK x : x = Found(r)  OBVIOUS
  <2>4. x = reader[r].asked  BY <2>2, <2>3 DEF Found, Holds
  <2>5. Answer(r, x)  BY <1>5, <2>2, <2>3 DEF ReadBlockStorage
  <2> QED  BY <1>0, <2>4, <2>5, AnswerStep
<1> QED  BY <1>1, <1>2, <1>3, <1>4, <1>5 DEF GetBlock

LEMMA TableStep ==
    ASSUME CommitInv, ReadersOK, NEW r \in Reader, GetSystemTables(r)
    PROVE  ReadersOK'
<1>0. IsQuery(reader[r]) /\ QueryOK(reader[r]) /\ UNCHANGED db
  BY ReadersOnlyRead DEF ReadersOK
<1>a. number \in Int /\ number + 1 \in Int  BY Numbers DEF CommitInv, DbOK, Number, number
<1>1. CASE GetSystemConfigByKey(r)
  <2>1. PICK n \in Int : n = number + 1  BY <1>a, Zenon
  <2>2. Query(r, "config", "config", Nothing, n, 0)  BY <1>1, <2>1 DEF GetSystemConfigByKey
  <2> QED  BY <1>0, <2>2, QueryStep
<1>2. CASE ReadSystemConfig(r)
  <2>1. PICK x : Answer(r, x)  BY <1>2, Zenon DEF ReadSystemConfig
  <2>2. reader[r].op = "config"  BY <1>0, <1>2 DEF ReadSystemConfig, QueryOK
  <2> QED  BY <1>0, <2>1, <2>2, AnswerStep
<1>3. CASE \E type \in Type : NodeList(r, type)
  <2>1. PICK type \in Type : NodeList(r, type)  BY <1>3
  <2>2. PICK n \in Int : n = number  BY <1>a, Zenon
  <2>3. Query(r, type, "nodes", Nothing, n, 0)  BY <2>1, <2>2 DEF NodeList
  <2>4. "nodes" # "idle" /\ "nodes" \notin {"hash", "storage"} /\ "nodes" # "number" /\ "nodes" # "config"
    OBVIOUS
  <2> QED  BY <1>0, <2>1, <2>3, <2>4, QueryStep, Zenon
<1>4. CASE ReadNodeList(r)
  <2>1. PICK x : Answer(r, x)  BY <1>4, Zenon DEF ReadNodeList
  <2>2. reader[r].op \in Type  BY <1>0, <1>4 DEF ReadNodeList, QueryOK
  <2> QED  BY <1>0, <2>1, <2>2, AnswerStep DEF Type
<1> QED  BY <1>1, <1>2, <1>3, <1>4 DEF GetSystemTables

\* The steps that write nothing.
LEMMA CalmChain ==
    ASSUME ChainInv, UNCHANGED db,
           \A d \in Committer : committer'[d].pc \in {"lock", "write"} =>
               Follows(committer'[d].block)
    PROVE  ChainInv'
<1>1. ASSUME NEW d \in Committer, committer'[d].pc \in {"lock", "write"}
      PROVE  Follows(committer[d].block)'
  BY <1>1 DEF Follows, IsWritten, First
<1>2. db'.number2hash = db.number2hash /\ db'.number = db.number  OBVIOUS
<1>3. IsWritten(db.number)'  BY <1>2 DEF ChainInv, IsWritten
<1>4. ASSUME NEW i, NEW h, Stored(i, h) PROVE Stored(i, h)'
  BY <1>4 DEF Stored, Follows, IsWritten, First
<1>5. ASSUME NEW i \in Number, NEW k \in 1..Len(db'.number2hash[i])
      PROVE  Stored(i, db.number2hash[i][k])'
  <2>1. PICK h : h = db.number2hash[i][k]  BY Zenon
  <2>2. Stored(i, h)'  BY <1>2, <1>4, <2>1, Zenon DEF ChainInv
  <2> QED  BY <1>2, <2>1, <2>2
<1>6. db'.number2hash \in [Number -> Seq(Hash)]  BY <1>2 DEF ChainInv
<1> QED  BY <1>1, <1>3, <1>5, <1>6, Zenon DEF ChainInv

LEMMA CalmIndex == ASSUME IndexInv, UNCHANGED db PROVE IndexInv'
<1>1. ASSUME NEW e, NEW t, Leads(e, t) PROVE Leads(e, t)'
  BY <1>1 DEF Leads, IsWritten, First
<1>2. ASSUME NEW t \in Tx, NEW k \in 1..Len(db.tx2block[t]) PROVE Leads(db.tx2block[t][k], t)'
  <2>1. PICK e : e = db.tx2block[t][k]  BY Zenon
  <2>2. Leads(e, t)'  BY <1>1, <2>1 DEF IndexInv
  <2> QED  BY <2>1, <2>2
<1> QED  BY <1>2 DEF IndexInv

LEMMA CalmReaders == ASSUME ReadersOK, UNCHANGED <<db, reader>> PROVE ReadersOK'
BY Zenon DEF ReadersOK, QueryOK, IsQuery, Holds, IsWritten, First

LEMMA CommitChain ==
    ASSUME CommitInv, ChainInv, NEW c \in Committer, CommitBlock(c), ~Write(c)
    PROVE  ChainInv' /\ UNCHANGED <<db, reader>>
<1>0. committer \in [Committer -> Call]  BY DEF CommitInv, CallsOK
<1>1. UNCHANGED <<db, reader>>
  BY DEF CommitBlock, Execute, CheckNumber, CheckParentHash, TryLock, OpenSysTableFails,
         WriteThrows, Unlock
<1> SUFFICES ASSUME NEW d \in Committer, committer'[d].pc \in {"lock", "write"}
             PROVE  Follows(committer'[d].block)
  BY <1>1, CalmChain
<1>2. CASE \E b \in Block : Execute(c, b)
  <2>1. committer'[c].pc = "number" /\ (d # c => committer'[d] = committer[d])
    BY <1>0, <1>2 DEF Execute
  <2> QED  BY <2>1 DEF ChainInv
<1>6. CASE CheckNumber(c)
  <2>1. committer'[c].pc \in {"idle", "parent"} /\ (d # c => committer'[d] = committer[d])
    BY <1>0, <1>6, ReturnOK, GotoOK DEF CheckNumber, PC, After
  <2> QED  BY <2>1 DEF ChainInv
<1>3. CASE CheckParentHash(c)
  <2>1. CASE d # c
    <3>1. committer'[d] = committer[d]
      BY <1>0, <1>3, <2>1, ReturnOK, GotoOK DEF CheckParentHash, PC, After
    <3> QED  BY <2>1, <3>1 DEF ChainInv
  <2>2. CASE d = c
    <3>1. PICK b : b = committer[c].block  BY Zenon
    <3>2. CASE b.parent # numberHash(number)
      BY <1>0, <1>3, <2>2, <3>1, <3>2, ReturnOK DEF CheckParentHash
    <3>3. CASE b.parent = numberHash(number)
      <4>1. Goto(c, "lock") /\ b \in Block /\ b \in AllBlocks
        BY <1>3, <3>1, <3>3 DEF CheckParentHash, CommitInv, CallsOK, AllBlocks
      <4>2. committer'[c].block = b  BY <1>0, <3>1, <4>1, GotoOK DEF After, PC
      <4>3. PICK n : n = number  BY Zenon
      <4>4. IsWritten(n) /\ b.parent = First(n) /\ n \in Number
        BY <3>3, <4>3 DEF ChainInv, IsWritten, numberHash, First, number
      <4>5. 1 \in 1..Len(db.number2hash[n])  BY <4>4 DEF IsWritten, ChainInv
      <4>6. Stored(n, First(n))  BY <4>4, <4>5 DEF ChainInv, First
      <4>7. PICK a \in AllBlocks : a.hash = First(n) /\ a.number = n  BY <4>6 DEF Stored
      <4>8. b.number = n + 1 /\ b.number \in Number
        BY <4>1, <4>4, <4>7, ForkAssumption, Numbers DEF AllBlocks
      <4>9. b.number > 0 /\ b.number - 1 = n  BY <4>4, <4>8, Numbers DEF Number
      <4>10. Follows(b)  BY <4>1, <4>4, <4>8, <4>9 DEF Follows
      <4> QED  BY <2>2, <4>2, <4>10
    <3> QED  BY <3>2, <3>3
  <2> QED  BY <2>1, <2>2
<1>4. CASE TryLock(c)
  <2>1. d # c => committer'[d] = committer[d]
    BY <1>0, <1>4, ReturnOK, GotoOK DEF TryLock, PC, After
  <2>2. d = c => committer[d].pc = "lock" /\ committer'[d].block = committer[d].block
    BY <1>0, <1>4, ReturnOK, GotoOK DEF TryLock, PC, After
  <2> QED  BY <2>1, <2>2 DEF ChainInv
<1>5. CASE OpenSysTableFails(c) \/ WriteThrows(c) \/ Unlock(c)
  <2>1. d # c /\ committer'[d] = committer[d]
    BY <1>0, <1>5, ReturnOK DEF OpenSysTableFails, WriteThrows, Unlock
  <2> QED  BY <2>1 DEF ChainInv
<1> QED  BY <1>2, <1>3, <1>4, <1>5, <1>6 DEF CommitBlock

LEMMA LookupInvariant == Spec => []LookupInv
<1>1. Init => LookupInv
  <2> SUFFICES ASSUME Init PROVE LookupInv  OBVIOUS
  <2>1. /\ db.number = 0 /\ db.hash2block = {Genesis.hash} /\ db.tx2block = [t \in Tx |-> <<>>]
        /\ db.number2hash = [i \in Number |-> IF i = 0 THEN <<Genesis.hash>> ELSE <<>>]
    BY DEF Init, checkAndBuildGenesisBlock, Number
  <2>2. Genesis.hash \in Hash  BY Numbers DEF Hash
  <2>3. db.number2hash \in [Number -> Seq(Hash)]  BY <2>1, <2>2
  <2>4. IsWritten(db.number)  BY <2>1, Numbers DEF IsWritten
  <2>5. ASSUME NEW i \in Number, NEW k \in 1..Len(db.number2hash[i])
        PROVE  Stored(i, db.number2hash[i][k])
    <3>1. i = 0 /\ k = 1 /\ db.number2hash[i][k] = Genesis.hash  BY <2>1, <2>5
    <3> QED  BY <2>1, <3>1, Numbers DEF Stored
  <2>6. \A c \in Committer : committer[c].pc = "idle"  BY DEF Init, Idle
  <2>7. ChainInv  BY <2>3, <2>4, <2>5, <2>6 DEF ChainInv
  <2>8. IndexInv  BY <2>1, SMTT(30) DEF IndexInv
  <2>9. ReadersOK  BY DEF Init, ReadersOK, NoQuery, IsQuery, QueryOK
  <2> QED  BY <2>7, <2>8, <2>9 DEF LookupInv
<1>2. CommitInv /\ LookupInv /\ [Next]_vars => LookupInv'
  <2> SUFFICES ASSUME CommitInv, LookupInv, [Next]_vars PROVE LookupInv'  OBVIOUS
  <2> USE DEF LookupInv
  <2>1. ASSUME NEW c \in Committer, Write(c) PROVE LookupInv'
    <3>1. PICK b : b = committer[c].block  BY Zenon
    <3>2. Grows /\ ChainInv'  BY <2>1, <3>1, WriteChain
    <3>3. IndexInv'  BY <2>1, WriteIndex
    <3>4. reader' = reader  BY <2>1 DEF Write
    <3>5. ASSUME NEW r \in Reader PROVE IsQuery(reader[r])' /\ QueryOK(reader[r])'
      <4>1. PICK q : q = reader[r]  BY Zenon
      <4>2. IsQuery(q) /\ QueryOK(q)  BY <4>1 DEF ReadersOK
      <4>3. QueryOK(q)'  BY <3>2, <4>2, Unmoved
      <4>4. reader'[r] = q  BY <3>4, <4>1
      <4> QED  BY <4>2, <4>3, <4>4 DEF IsQuery
    <3>6. ReadersOK'  BY <3>4, <3>5 DEF ReadersOK
    <3> QED  BY <3>2, <3>3, <3>6
  <2>2. ASSUME NEW c \in Committer, CommitBlock(c), ~Write(c) PROVE LookupInv'
    BY <2>2, CommitChain, CalmIndex, CalmReaders
  <2>3. ASSUME NEW r \in Reader, GetBlock(r) \/ GetSystemTables(r) PROVE LookupInv'
    <3>1. UNCHANGED <<db, committer>>  BY <2>3, ReadersOnlyRead
    <3>2. ChainInv'
      <4>1. \A d \in Committer : committer'[d].pc \in {"lock", "write"} =>
                Follows(committer'[d].block)
        BY <3>1 DEF ChainInv
      <4> QED  BY <3>1, <4>1, CalmChain
    <3> QED  BY <2>3, <3>1, <3>2, CalmIndex, LookupStep, TableStep
  <2>4. CASE UNCHANGED vars
    <3>1. UNCHANGED <<db, committer, reader>>  BY <2>4 DEF vars
    <3>2. \A d \in Committer : committer'[d].pc \in {"lock", "write"} =>
              Follows(committer'[d].block)
      BY <3>1 DEF ChainInv
    <3> QED  BY <3>1, <3>2, CalmChain, CalmIndex, CalmReaders
  <2> QED  BY <2>1, <2>2, <2>3, <2>4 DEF Next
<1> QED  BY <1>1, <1>2, CommitInvariant, PTL DEF Spec

\* Whoever looks up a transaction or a block that is on the chain finds it, while
\* other threads commit blocks, the second write of a block by a thread that lost
\* the race included, and whatever the cache evicts meanwhile.
THEOREM LookupsSucceed == Spec => []LookupsFind
<1>1. LookupInv => LookupsFind  BY DEF LookupInv, ReadersOK, QueryOK, LookupsFind
<1> QED  BY <1>1, LookupInvariant, PTL

-----------------------------------------------------------------------------
(* The caches *)

\* A block cache within its bound, whose hashes can all still be evicted.
Bounded(c) ==
    /\ c = [hashes |-> c.hashes, fifo |-> c.fifo]
    /\ c.hashes \subseteq Hash /\ c.fifo \in Seq(Hash)
    /\ IsFiniteSet(c.hashes) /\ Cardinality(c.hashes) <= CacheSize + 1
    /\ c.hashes \subseteq Elements(c.fifo)

\* What BlockCache::add evicts before it adds.
Evicted(c) ==
    IF ~(Cardinality(c.hashes) > CacheSize) THEN c
    ELSE [hashes |-> c.hashes \ {Head(c.fifo)}, fifo |-> Tail(c.fifo)]
Synced(c) ==
    IF Cardinality(c.hashes) > CacheSize THEN [hashes |-> {}, fifo |-> <<>>] ELSE c

LEMMA EvictedOK == ASSUME NEW c, Bounded(c) PROVE Bounded(Evicted(c))
<1> DEFINE e == [hashes |-> c.hashes \ {Head(c.fifo)}, fifo |-> Tail(c.fifo)]
<1>0. Cardinality(c.hashes) \in Nat /\ CacheSize \in Nat
  BY FS_CardinalityType, BoundAssumption DEF Bounded
<1> SUFFICES ASSUME Cardinality(c.hashes) > CacheSize PROVE Bounded(e)
  BY DEF Evicted
<1>1. c.fifo # <<>>
  <2>1. c.hashes # {}  BY <1>0, FS_EmptySet
  <2> QED  BY <2>1 DEF Bounded, Elements
<1>2. e.hashes = c.hashes \ {Head(c.fifo)} /\ e.fifo = Tail(c.fifo) /\ e = [hashes |-> e.hashes, fifo |-> e.fifo]
  OBVIOUS
<1> HIDE DEF e
<1>3. e.hashes \subseteq Hash /\ e.hashes \subseteq c.hashes /\ e.fifo \in Seq(Hash)
  BY <1>1, <1>2 DEF Bounded
<1>4. IsFiniteSet(e.hashes) /\ Cardinality(e.hashes) <= Cardinality(c.hashes)
  BY <1>3, FS_Subset DEF Bounded
<1>5. ASSUME NEW h \in e.hashes PROVE h \in Elements(e.fifo)
  <2>1. h \in Elements(c.fifo) /\ h # Head(c.fifo)  BY <1>2, <1>5 DEF Bounded
  <2>2. PICK k \in 1..Len(c.fifo) : c.fifo[k] = h  BY <2>1 DEF Elements, Bounded
  <2>3. k # 1 /\ k \in 2..Len(c.fifo)  BY <1>1, <2>1, <2>2 DEF Bounded
  <2>4. e.fifo[k - 1] = h /\ k - 1 \in 1..Len(e.fifo)  BY <1>1, <1>2, <2>2, <2>3 DEF Bounded
  <2> QED  BY <1>3, <2>4 DEF Elements
<1>6. Cardinality(e.hashes) \in Nat  BY <1>4, FS_CardinalityType
<1>7. Cardinality(e.hashes) <= CacheSize + 1  BY <1>0, <1>4, <1>6 DEF Bounded
<1> QED  BY <1>2, <1>3, <1>4, <1>5, <1>7 DEF Bounded

LEMMA AddOK == ASSUME NEW c, Bounded(c), NEW h \in Hash PROVE Bounded(AddToCache(c, h))
<1> DEFINE s == Synced(Evicted(c))
           a == [hashes |-> s.hashes \cup {h}, fifo |-> Append(s.fifo, h)]
<1>0. CacheSize \in Nat  BY BoundAssumption
<1>1. AddToCache(c, h) = a  BY DEF AddToCache, Evicted, Synced
<1>2. /\ s.hashes \subseteq Hash /\ s.fifo \in Seq(Hash) /\ IsFiniteSet(s.hashes)
      /\ Cardinality(s.hashes) <= CacheSize /\ s.hashes \subseteq Elements(s.fifo)
  <2>1. PICK d : d = Evicted(c)  BY Zenon
  <2>2. Bounded(d)  BY <2>1, EvictedOK
  <2>3. Cardinality(d.hashes) \in Nat  BY <2>2, FS_CardinalityType DEF Bounded
  <2>4. CASE Cardinality(d.hashes) > CacheSize
    <3>1. s = [hashes |-> {}, fifo |-> <<>>]  BY <2>1, <2>4 DEF Synced
    <3>2. s.hashes = {} /\ s.fifo = <<>>  BY <3>1
    <3>3. IsFiniteSet({}) /\ Cardinality({}) = 0  BY FS_EmptySet
    <3> HIDE DEF s
    <3> QED  BY <1>0, <3>2, <3>3
  <2>5. CASE ~(Cardinality(d.hashes) > CacheSize)
    <3>1. s = d  BY <2>1, <2>5 DEF Synced
    <3> QED  BY <1>0, <2>2, <2>3, <2>5, <3>1 DEF Bounded
  <2> QED  BY <2>4, <2>5
<1> HIDE DEF s
<1>3. a.hashes = s.hashes \cup {h} /\ a.fifo = Append(s.fifo, h) /\ a = [hashes |-> a.hashes, fifo |-> a.fifo]
  OBVIOUS
<1> HIDE DEF a
<1>4. Cardinality(s.hashes) \in Nat  BY <1>2, FS_CardinalityType
<1>5. IsFiniteSet(a.hashes) /\ Cardinality(a.hashes) <= CacheSize + 1
  <2> DEFINE S == s.hashes
  <2>1. IsFiniteSet(S)  BY <1>2
  <2> HIDE DEF S
  <2>2. /\ IsFiniteSet(S \cup {h})
        /\ Cardinality(S \cup {h}) = IF h \in S THEN Cardinality(S) ELSE Cardinality(S) + 1
    BY <2>1, FS_AddElement, Zenon
  <2>3. Cardinality(S) \in Nat /\ Cardinality(S) <= CacheSize  BY <1>2, <1>4 DEF S
  <2>4. Cardinality(S \cup {h}) <= CacheSize + 1  BY <1>0, <2>2, <2>3
  <2> QED  BY <1>3, <2>2, <2>4 DEF S
<1>6. a.fifo \in Seq(Hash) /\ a.hashes \subseteq Hash  BY <1>2, <1>3
<1>7. a.hashes \subseteq Elements(a.fifo)
  <2> SUFFICES ASSUME NEW x \in a.hashes PROVE x \in Elements(a.fifo)  OBVIOUS
  <2>1. CASE x = h
    <3>1. Len(s.fifo) + 1 \in 1..Len(a.fifo) /\ a.fifo[Len(s.fifo) + 1] = h
      BY <1>2, <1>3
    <3> QED  BY <1>6, <2>1, <3>1 DEF Elements
  <2>2. CASE x \in s.hashes
    <3>1. PICK k \in 1..Len(s.fifo) : s.fifo[k] = x  BY <1>2, <2>2 DEF Elements
    <3>2. k \in 1..Len(a.fifo) /\ a.fifo[k] = x  BY <1>2, <1>3, <3>1
    <3> QED  BY <1>6, <3>2 DEF Elements
  <2> QED  BY <1>3, <2>1, <2>2
<1> QED  BY <1>1, <1>3, <1>5, <1>6, <1>7 DEF Bounded

NodeListOK == nodeListCache \in [Type -> [number : Int, list : SUBSET NodeID]]

CacheInv == Bounded(blockCache) /\ NodeListOK

LEMMA CacheInvariant == Spec => []CacheInv
<1>1. Init => CacheInv
  <2> SUFFICES ASSUME Init PROVE CacheInv  OBVIOUS
  <2>1. blockCache.hashes = {} /\ blockCache.fifo = <<>> /\ blockCache = [hashes |-> {}, fifo |-> <<>>]
    BY DEF Init
  <2>2. IsFiniteSet({}) /\ Cardinality({}) = 0 /\ CacheSize \in Nat  BY FS_EmptySet, BoundAssumption
  <2>3. Bounded(blockCache)  BY <2>1, <2>2 DEF Bounded
  <2>4. NodeListOK
    <3>1. PICK e : e = [number |-> -1, list |-> {}]  BY Zenon
    <3>2. e \in [number : Int, list : SUBSET NodeID]  BY <3>1
    <3>3. nodeListCache = [t \in Type |-> e]  BY <3>1, Zenon DEF Init
    <3> QED  BY <3>2, <3>3 DEF NodeListOK
  <2> QED  BY <2>3, <2>4 DEF CacheInv
<1>2. CommitInv /\ LookupInv /\ CacheInv /\ [Next]_vars => CacheInv'
  <2> SUFFICES ASSUME CommitInv, LookupInv, CacheInv, [Next]_vars PROVE CacheInv'  OBVIOUS
  <2> USE DEF CacheInv
  <2>1. CASE UNCHANGED <<blockCache, nodeListCache>>  BY <2>1 DEF NodeListOK, Bounded
  <2>2. ASSUME NEW r \in Reader, ReadBlockStorage(r) PROVE CacheInv'
    <3>1. CASE blockCache' = AddToCache(blockCache, reader[r].hash) /\ reader[r].hash \in db.hash2block
      <4>1. PICK c, h : c = blockCache /\ h = reader[r].hash  BY Zenon
      <4>2. h \in Hash  BY <3>1, <4>1 DEF CommitInv, DbOK
      <4>3. Bounded(AddToCache(c, h))  BY <4>1, <4>2, AddOK
      <4>4. blockCache' = AddToCache(c, h)  BY <3>1, <4>1
      <4>5. Bounded(blockCache')  BY <4>3, <4>4
      <4>6. Bounded(blockCache)'  BY <4>5 DEF Bounded
      <4>7. UNCHANGED nodeListCache  BY <2>2 DEF ReadBlockStorage
      <4> QED  BY <4>6, <4>7 DEF NodeListOK
    <3> QED  BY <2>1, <2>2, <3>1 DEF ReadBlockStorage
  <2>3. ASSUME NEW r \in Reader, ReadNodeList(r) PROVE CacheInv'
    <3>1. reader[r].op \in Type /\ reader[r].number \in Int
      BY <2>3 DEF ReadNodeList, LookupInv, ReadersOK, QueryOK
    <3>2. PICK n, t, list : /\ n = reader[r].number /\ t = reader[r].op
                            /\ list = IF nodeListCache[t].number = n THEN nodeListCache[t].list
                                      ELSE getNodeListByType(n, t)
      BY Zenon
    <3>3. nodeListCache' = [nodeListCache EXCEPT ![t] = [number |-> n, list |-> list]]
      BY <2>3, <3>2 DEF ReadNodeList
    <3>4. list \in SUBSET NodeID  BY <3>1, <3>2 DEF NodeListOK, getNodeListByType
    <3>5. UNCHANGED blockCache  BY <2>3 DEF ReadNodeList
    <3>6. [number |-> n, list |-> list] \in [number : Int, list : SUBSET NodeID]
      BY <3>1, <3>2, <3>4
    <3>7. NodeListOK'  BY <3>1, <3>2, <3>3, <3>6 DEF NodeListOK
    <3> QED  BY <3>5, <3>7 DEF Bounded
  <2>4. ASSUME NEW c \in Committer, CommitBlock(c) PROVE UNCHANGED <<blockCache, nodeListCache>>
    BY <2>4 DEF CommitBlock, Execute, CheckNumber, CheckParentHash, TryLock, Write,
            OpenSysTableFails, WriteThrows, Unlock, caches
  <2>5. ASSUME NEW r \in Reader, GetBlock(r) \/ GetSystemTables(r), ~ReadBlockStorage(r), ~ReadNodeList(r)
        PROVE  UNCHANGED <<blockCache, nodeListCache>>
    BY <2>5 DEF GetBlock, GetSystemTables, GetTxByHash, GetCode, GetBlockByNumber, ReadBlockCache,
            GetSystemConfigByKey, ReadSystemConfig, NodeList, caches
  <2> QED  BY <2>1, <2>2, <2>3, <2>4, <2>5 DEF Next, vars, caches
<1> QED  BY <1>1, <1>2, CommitInvariant, LookupInvariant, PTL DEF Spec

QueriesBehind ==
    \A r \in Reader : /\ reader[r].pc = "config" => reader[r].number <= db.number + 1
                      /\ reader[r].pc = "nodes" => reader[r].number <= db.number

\* The numbers that have been written are those up to the number of the chain.
Contiguous == \A i \in Number : IsWritten(i) <=> i <= db.number

\* While no block has been written twice, the blocks are committed one after the
\* other, and no query and no cache is ahead of the chain.
Fresh ==
    /\ Contiguous
    /\ QueriesBehind
    /\ configCache.number <= db.number + 1
    /\ \A t \in Type : nodeListCache[t].number <= db.number
    /\ CachesFresh

FreshInv == configCache.number \in Int /\ (WrittenOnce => Fresh)

\* A write that is not the second one of its number is that of the next block.
LEMMA NextWritten ==
    ASSUME CommitInv, LookupInv, NEW c \in Committer, Write(c), WrittenOnce',
           WrittenOnce => Contiguous
    PROVE  WrittenOnce /\ Contiguous' /\ db'.number = db.number + 1
<1>0. PICK n, h : n = committer[c].block.number /\ h = committer[c].block.hash  BY Zenon
<1>1. Follows(committer[c].block) /\ committer[c].block \in AllBlocks
  BY DEF Write, LookupInv, ChainInv, Follows, AllBlocks
<1>2. n \in Number /\ n > 0 /\ h \in Hash /\ IsWritten(n - 1) /\ db.number \in Nat
  <2>1. n \in Number /\ n > 0 /\ IsWritten(n - 1)  BY <1>0, <1>1, Zenon DEF Follows
  <2>2. h \in Hash  BY <1>0, <1>1, Zenon DEF Hash
  <2>3. db.number \in Nat  BY Numbers DEF CommitInv, DbOK, Number
  <2> QED  BY <2>1, <2>2, <2>3, Zenon
<1>3. /\ db'.number = n
      /\ db'.number2hash = [db.number2hash EXCEPT ![n] = Append(db.number2hash[n], h)]
  BY <1>0, Written, Zenon
<1>4. \A i \in Number : db.number2hash[i] \in Seq(Hash) /\ Len(db.number2hash[i]) \in Nat
  <2>1. ASSUME NEW q \in Seq(Hash) PROVE Len(q) \in Nat  OBVIOUS
  <2> QED  BY <2>1 DEF LookupInv, ChainInv
<1>5. /\ db'.number2hash[n] = Append(db.number2hash[n], h)
      /\ \A i \in Number : i # n => db'.number2hash[i] = db.number2hash[i]
  BY <1>2, <1>3 DEF LookupInv, ChainInv
<1>6. Len(db'.number2hash[n]) = Len(db.number2hash[n]) + 1  BY <1>2, <1>4, <1>5, AppendFacts
<1>7. \A i \in Number : Len(db'.number2hash[i]) <= 1  BY DEF WrittenOnce, Number
<1>8. Len(db.number2hash[n]) = 0  BY <1>2, <1>4, <1>6, <1>7
<1>9. WrittenOnce
  <2>1. ASSUME NEW i \in Number PROVE Len(db.number2hash[i]) <= 1
    BY <1>5, <1>7, <1>8
  <2> QED  BY <2>1 DEF WrittenOnce, Number
<1>10. ~IsWritten(n)  BY <1>2, <1>4, <1>8, AppendFacts DEF IsWritten
<1>11. n - 1 \in Number /\ n - 1 <= db.number /\ ~(n <= db.number)
  BY <1>2, <1>9, <1>10 DEF Contiguous, IsWritten
<1>12. n = db.number + 1  BY <1>2, <1>11, Numbers DEF Number
<1>13. IsWritten(n)'
  <2>1. Append(db.number2hash[n], h) # <<>>  BY <1>2, <1>4, AppendFacts
  <2> QED  BY <1>2, <1>5, <2>1 DEF IsWritten
<1>14. ASSUME NEW i \in Number PROVE IsWritten(i)' <=> i <= db'.number
  <2>1. CASE i = n
    <3>1. n <= n  BY <1>2 DEF Number
    <3> QED  BY <1>3, <1>13, <2>1, <3>1, Zenon
  <2>2. CASE i # n
    <3>1. IsWritten(i)' <=> IsWritten(i)  BY <1>5, <2>2 DEF IsWritten
    <3>2. IsWritten(i) <=> i <= db.number  BY <1>9 DEF Contiguous
    <3>3. i <= db.number <=> i <= n  BY <1>2, <1>12, <2>2, Numbers DEF Number
    <3> QED  BY <1>3, <3>1, <3>2, <3>3
  <2> QED  BY <2>1, <2>2
<1> QED  BY <1>3, <1>9, <1>12, <1>14 DEF Contiguous

\* After a write the caches are older than the chain.
LEMMA WriteFresh ==
    ASSUME CommitInv, LookupInv, CacheInv, FreshInv, NEW c \in Committer, Write(c)
    PROVE  FreshInv'
<1>a. UNCHANGED <<reader, caches>>  BY DEF Write
<1> SUFFICES ASSUME WrittenOnce' PROVE Fresh'  BY <1>a DEF FreshInv, caches
<1>b. WrittenOnce => Contiguous  BY DEF FreshInv, Fresh
<1>0. WrittenOnce /\ Contiguous' /\ db'.number = db.number + 1  BY <1>b, NextWritten
<1>1. Fresh /\ db.number \in Nat  BY <1>0, Numbers DEF FreshInv, CommitInv, DbOK, Number
<1>3. /\ configCache'.number < db'.number + 1
      /\ \A t \in Type : nodeListCache'[t].number \in Int /\ nodeListCache'[t].number < db'.number
  BY <1>0, <1>1, <1>a DEF FreshInv, Fresh, CacheInv, NodeListOK, caches
<1>4. CachesFresh'  BY <1>0, <1>1, <1>3 DEF CachesFresh, number
<1>5. QueriesBehind'
  <2>1. \A r \in Reader : /\ reader[r].pc = "config" => reader[r].number \in Int
                          /\ reader[r].pc = "nodes" => reader[r].number \in Int
    BY DEF LookupInv, ReadersOK, QueryOK
  <2>2. QueriesBehind /\ reader' = reader  BY <1>1, <1>a DEF Fresh
  <2> QED  BY <1>0, <1>1, <2>1, <2>2 DEF QueriesBehind
<1>6. /\ configCache'.number <= db'.number + 1
      /\ \A t \in Type : nodeListCache'[t].number <= db'.number
  <2>1. configCache'.number \in Int  BY <1>a, Zenon DEF FreshInv, caches
  <2>2. db'.number \in Int  BY <1>0, <1>1
  <2>3. ASSUME NEW i \in Int, NEW j \in Int, i < j PROVE i <= j  BY <2>3
  <2>4. db'.number + 1 \in Int  BY <2>2
  <2> QED  BY <1>3, <2>1, <2>2, <2>3, <2>4, Zenon
<1> QED  BY <1>0, <1>4, <1>5, <1>6, Zenon DEF Fresh

\* What depends on the tables alone stays with them.
LEMMA CalmFresh ==
    ASSUME UNCHANGED db
    PROVE  /\ WrittenOnce' <=> WrittenOnce
           /\ Contiguous' <=> Contiguous
           /\ UNCHANGED <<nodeListCache, configCache>> => (CachesFresh' <=> CachesFresh)
<1>1. WrittenOnce' <=> WrittenOnce  BY Zenon DEF WrittenOnce
<1>2. Contiguous' <=> Contiguous  BY Zenon DEF Contiguous, IsWritten
<1>3. UNCHANGED <<nodeListCache, configCache>> => (CachesFresh' <=> CachesFresh)
  BY ZenonT(40) DEF CachesFresh, number, ConfigValue, getNodeListByType
<1> QED  BY <1>1, <1>2, <1>3

LEMMA CommitFresh ==
    ASSUME FreshInv, NEW c \in Committer, CommitBlock(c), ~Write(c)
    PROVE  FreshInv'
<1>1. UNCHANGED <<db, reader, caches>>
  BY DEF CommitBlock, Execute, CheckNumber, CheckParentHash, TryLock, OpenSysTableFails,
         WriteThrows, Unlock
<1>2. UNCHANGED db /\ UNCHANGED <<nodeListCache, configCache>>  BY <1>1 DEF caches
<1>3. QueriesBehind => QueriesBehind'  BY <1>1 DEF QueriesBehind
<1> QED  BY <1>2, <1>3, CalmFresh, Zenon DEF FreshInv, Fresh

LEMMA ReadFresh ==
    ASSUME CommitInv, LookupInv, CacheInv, WrittenOnce, Fresh, configCache.number \in Int,
           NEW r \in Reader, GetBlock(r) \/ GetSystemTables(r)
    PROVE  configCache'.number \in Int /\ Fresh'
<1>0. Contiguous'  BY ReadersOnlyRead, CalmFresh DEF Fresh
<1>1. UNCHANGED <<db, committer>> /\ db.number \in Int
  BY ReadersOnlyRead, Numbers DEF CommitInv, DbOK, Number
<1>2. reader = [s \in Reader |-> reader[s]] /\ IsQuery(reader[r])  BY DEF LookupInv, ReadersOK
<1>3. ASSUME NEW q, reader' = [reader EXCEPT ![r] = q],
             q.pc = "config" => q.number <= db.number + 1,
             q.pc = "nodes" => q.number <= db.number
      PROVE  QueriesBehind'
  BY <1>1, <1>2, <1>3 DEF Fresh, QueriesBehind
<1>4. ASSUME NEW x, Answer(r, x) PROVE QueriesBehind'
  <2>1. PICK q : q = [NoQuery EXCEPT !.op = reader[r].op, !.asked = reader[r].asked, !.got = x]
    BY Zenon
  <2>2. reader' = [reader EXCEPT ![r] = q]  BY <1>4, <2>1, Zenon DEF Answer
  <2>3. q.pc = "idle"  BY <2>1 DEF NoQuery
  <2>4. q.pc # "config" /\ q.pc # "nodes"  BY <2>3
  <2> QED  BY <1>3, <2>2, <2>4, Zenon
<1>5. ASSUME NEW op, NEW pc, NEW asked, NEW n, NEW k, Query(r, op, pc, asked, n, k),
             pc = "config" => n <= db.number + 1, pc = "nodes" => n <= db.number
      PROVE  QueriesBehind'
  <2>1. PICK q : q = [NoQuery EXCEPT !.op = op, !.pc = pc, !.asked = asked, !.number = n, !.index = k]
    BY Zenon
  <2>2. reader' = [reader EXCEPT ![r] = q]  BY <1>5, <2>1, Zenon DEF Query
  <2>3. q.pc = pc /\ q.number = n  BY <2>1 DEF NoQuery
  <2> QED  BY <1>3, <1>5, <2>2, <2>3, Zenon
<1>6. CachesFresh /\ UNCHANGED <<nodeListCache, configCache>> => CachesFresh'
  BY <1>1, Zenon DEF CachesFresh, number, ConfigValue, getNodeListByType
<1>7. ASSUME UNCHANGED <<nodeListCache, configCache>>, QueriesBehind'
      PROVE  configCache'.number \in Int /\ Fresh'
  BY <1>0, <1>1, <1>6, <1>7 DEF Fresh
<1>8. CASE \E t \in Tx : GetTxByHash(r, t)
  <2>1. PICK t \in Tx : GetTxByHash(r, t)  BY <1>8
  <2>2. PICK n, k : Query(r, "tx", "number", t, n, k)  BY <2>1, Zenon DEF GetTxByHash
  <2>3. QueriesBehind'  BY <1>5, <2>2
  <2> QED  BY <1>7, <2>1, <2>3, Zenon DEF GetTxByHash, caches
<1>9. CASE GetCode(r)
  <2>1. PICK n : n = number  BY Zenon
  <2>2. Query(r, "block", "number", n, n, 0)  BY <1>9, <2>1 DEF GetCode
  <2>3. QueriesBehind'  BY <1>5, <2>2
  <2> QED  BY <1>7, <1>9, <2>3 DEF GetCode, caches
<1>10. CASE GetBlockByNumber(r) \/ ReadBlockCache(r) \/ ReadBlockStorage(r)
  <2>1. \/ \E x : Answer(r, x)
        \/ \E h : reader' = [reader EXCEPT ![r].pc = "hash", ![r].hash = h]
        \/ reader' = [reader EXCEPT ![r].pc = "storage"]
    BY <1>10, Zenon DEF GetBlockByNumber, ReadBlockCache, ReadBlockStorage
  <2>2. ASSUME NEW h, reader' = [reader EXCEPT ![r].pc = "hash", ![r].hash = h] PROVE QueriesBehind'
    <3>1. PICK q : q = [reader[r] EXCEPT !.pc = "hash", !.hash = h]  BY Zenon
    <3>2. q.pc = "hash"  BY <1>2, <3>1, Zenon DEF IsQuery
    <3>3. q.pc # "config" /\ q.pc # "nodes"  BY <3>2
    <3> QED  BY <1>3, <2>2, <3>1, <3>3, Zenon
  <2>3. ASSUME reader' = [reader EXCEPT ![r].pc = "storage"] PROVE QueriesBehind'
    <3>1. PICK q : q = [reader[r] EXCEPT !.pc = "storage"]  BY Zenon
    <3>2. q.pc = "storage"  BY <1>2, <3>1, Zenon DEF IsQuery
    <3>3. q.pc # "config" /\ q.pc # "nodes"  BY <3>2
    <3> QED  BY <1>3, <2>3, <3>1, <3>3, Zenon
  <2>4. QueriesBehind'  BY <1>4, <2>1, <2>2, <2>3
  <2> QED  BY <1>7, <1>10, <2>4 DEF GetBlockByNumber, ReadBlockCache, ReadBlockStorage, caches
<1>11. CASE GetSystemConfigByKey(r)
  <2>1. PICK n : n = number + 1  BY Zenon
  <2>2. Query(r, "config", "config", Nothing, n, 0) /\ n <= db.number + 1
    <3>1. Query(r, "config", "config", Nothing, n, 0)
      BY <1>11, <2>1, Zenon DEF GetSystemConfigByKey
    <3>2. n = db.number + 1  BY <2>1, Zenon DEF number
    <3> QED  BY <1>1, <3>1, <3>2
  <2>3. QueriesBehind'  BY <1>5, <2>2
  <2> QED  BY <1>7, <1>11, <2>3 DEF GetSystemConfigByKey, caches
<1>12. CASE ReadSystemConfig(r)
  <2>1. PICK n, x : /\ n = reader[r].number
                    /\ x = IF configCache.number = n THEN configCache.value ELSE ConfigValue(n)
    BY Zenon
  <2>2. Answer(r, x) /\ configCache' = [number |-> n, value |-> x] /\ UNCHANGED nodeListCache
    BY <1>12, <2>1, Zenon DEF ReadSystemConfig
  <2>3. n \in Int /\ n <= db.number + 1
    <3>1. reader[r].pc = "config"  BY <1>12 DEF ReadSystemConfig
    <3>2. reader[r].number \in Int  BY <3>1 DEF LookupInv, ReadersOK, QueryOK
    <3>3. reader[r].number <= db.number + 1  BY <3>1 DEF Fresh, QueriesBehind
    <3> QED  BY <2>1, <3>2, <3>3
  <2>4. n = db.number + 1 => x = ConfigValue(db.number + 1)
    BY <2>1 DEF Fresh, CachesFresh, number
  <2>5. CachesFresh'
    BY <1>1, <2>2, <2>4, Zenon DEF Fresh, CachesFresh, number, ConfigValue, getNodeListByType
  <2>6. QueriesBehind'  BY <1>4, <2>2
  <2> QED  BY <1>0, <1>1, <2>2, <2>3, <2>5, <2>6 DEF Fresh
<1>13. CASE \E type \in Type : NodeList(r, type)
  <2>1. PICK type \in Type : NodeList(r, type)  BY <1>13
  <2>2. PICK n : n = number  BY Zenon
  <2>3. Query(r, type, "nodes", Nothing, n, 0) /\ n <= db.number
    <3>1. Query(r, type, "nodes", Nothing, n, 0)  BY <2>1, <2>2, Zenon DEF NodeList
    <3>2. n = db.number  BY <2>2, Zenon DEF number
    <3> QED  BY <1>1, <3>1, <3>2
  <2>4. QueriesBehind'  BY <1>5, <2>3
  <2> QED  BY <1>7, <2>1, <2>4 DEF NodeList, caches
<1>14. CASE ReadNodeList(r)
  <2>1. PICK n, t, x : /\ n = reader[r].number /\ t = reader[r].op
                       /\ x = IF nodeListCache[t].number = n THEN nodeListCache[t].list
                              ELSE getNodeListByType(n, t)
    BY Zenon
  <2>2. /\ Answer(r, x) /\ UNCHANGED configCache
        /\ nodeListCache' = [nodeListCache EXCEPT ![t] = [number |-> n, list |-> x]]
    BY <1>14, <2>1 DEF ReadNodeList
  <2>3. n \in Int /\ n <= db.number /\ t \in Type
    BY <1>14, <2>1 DEF ReadNodeList, LookupInv, ReadersOK, QueryOK, Fresh, QueriesBehind
  <2>4. n = db.number => x = getNodeListByType(db.number, t)
    BY <2>1, <2>3, Zenon DEF Fresh, CachesFresh, number
  <2>5. /\ nodeListCache'[t].number = n /\ nodeListCache'[t].list = x
        /\ \A u \in Type : u # t => nodeListCache'[u] = nodeListCache[u]
    BY <2>2, <2>3 DEF CacheInv, NodeListOK
  <2>6. \A u \in Type : nodeListCache'[u].number = db.number =>
            nodeListCache'[u].list = getNodeListByType(db.number, u)
    BY <2>4, <2>5 DEF Fresh, CachesFresh, number
  <2>7. CachesFresh'
    BY <1>1, <2>2, <2>6, Zenon DEF Fresh, CachesFresh, number, ConfigValue, getNodeListByType
  <2>8. QueriesBehind'  BY <1>4, <2>2
  <2>9. \A u \in Type : nodeListCache'[u].number <= db.number
    BY <2>3, <2>5, Zenon DEF Fresh
  <2> QED  BY <1>0, <1>1, <2>2, <2>7, <2>8, <2>9 DEF Fresh
<1> QED
  BY <1>8, <1>9, <1>10, <1>11, <1>12, <1>13, <1>14 DEF GetBlock, GetSystemTables

\* A cached configuration value has a number.
LEMMA ReadConfigInt ==
    ASSUME LookupInv, configCache.number \in Int, NEW r \in Reader,
           GetBlock(r) \/ GetSystemTables(r)
    PROVE  configCache'.number \in Int
<1>1. CASE ReadSystemConfig(r)
  <2>1. reader[r].number \in Int
    BY <1>1 DEF ReadSystemConfig, LookupInv, ReadersOK, QueryOK
  <2>2. \E x : configCache' = [number |-> reader[r].number, value |-> x]
    BY <1>1, Zenon DEF ReadSystemConfig
  <2> QED  BY <2>1, <2>2
<1>2. CASE ~ReadSystemConfig(r)
  BY <1>2 DEF GetBlock, GetSystemTables, GetTxByHash, GetCode, GetBlockByNumber, ReadBlockCache,
       ReadBlockStorage, GetSystemConfigByKey, NodeList, ReadNodeList, caches
<1> QED  BY <1>1, <1>2

LEMMA FreshInvariant == Spec => []FreshInv
<1>1. Init => FreshInv
  <2> SUFFICES ASSUME Init PROVE configCache.number \in Int /\ Fresh  BY DEF FreshInv
  <2>1. /\ db.number = 0
        /\ db.number2hash = [i \in Number |-> IF i = 0 THEN <<Genesis.hash>> ELSE <<>>]
    BY DEF Init, checkAndBuildGenesisBlock, Number
  <2>2. configCache.number = -1 /\ \A t \in Type : nodeListCache[t].number = -1  BY DEF Init
  <2>3. CachesFresh  BY <2>1, <2>2 DEF CachesFresh, number
  <2>4. Contiguous
    <3>1. ASSUME NEW i \in Number PROVE db.number2hash[i] # <<>> <=> i = 0  BY <2>1
    <3> QED  BY <2>1, <3>1 DEF Contiguous, IsWritten, Number
  <2>5. \A r \in Reader : reader[r].pc = "idle"  BY DEF Init, NoQuery
  <2>6. QueriesBehind  BY <2>5 DEF QueriesBehind
  <2> QED  BY <2>1, <2>2, <2>3, <2>4, <2>6 DEF Fresh
<1>2. CommitInv /\ LookupInv /\ CacheInv /\ FreshInv /\ [Next]_vars => FreshInv'
  <2> SUFFICES ASSUME CommitInv, LookupInv, CacheInv, FreshInv, [Next]_vars PROVE FreshInv'
    OBVIOUS
  <2>1. ASSUME NEW c \in Committer, CommitBlock(c) PROVE FreshInv'
    BY <2>1, WriteFresh, CommitFresh
  <2>2. ASSUME NEW r \in Reader, GetBlock(r) \/ GetSystemTables(r) PROVE FreshInv'
    <3>1. WrittenOnce' <=> WrittenOnce  BY <2>2, ReadersOnlyRead, CalmFresh
    <3>2. CASE WrittenOnce  BY <2>2, <3>1, <3>2, ReadFresh DEF FreshInv
    <3>3. CASE ~WrittenOnce  BY <2>2, <3>1, <3>3, ReadConfigInt DEF FreshInv
    <3> QED  BY <3>2, <3>3
  <2>3. CASE UNCHANGED vars
    <3>1. UNCHANGED db /\ UNCHANGED <<nodeListCache, configCache>> /\ UNCHANGED reader
      BY <2>3 DEF vars, caches
    <3>2. QueriesBehind => QueriesBehind'  BY <3>1 DEF QueriesBehind
    <3> QED  BY <3>1, <3>2, CalmFresh, Zenon DEF FreshInv, Fresh
  <2> QED  BY <2>1, <2>2, <2>3 DEF Next
<1> QED  BY <1>1, <1>2, CommitInvariant, LookupInvariant, CacheInvariant, PTL DEF Spec

\* The block cache stays within its bound with every hash in its FIFO, and tables
\* and caches keep their types, with any number of threads of both kinds.
THEOREM CachesKeepBounds == Spec => [](TypeOK /\ CacheBounded)
<1>1. CommitInv /\ CacheInv => TypeOK /\ CacheBounded
  <2> SUFFICES ASSUME CommitInv, CacheInv PROVE TypeOK /\ CacheBounded  OBVIOUS
  <2>1. TypeOK
    BY DEF CommitInv, CallsOK, DbOK, CacheInv, Bounded, NodeListOK, TypeOK, Hash, Number
  <2>2. CacheBounded  BY DEF CacheInv, Bounded, CacheBounded
  <2> QED  BY <2>1, <2>2
<1> QED  BY <1>1, CommitInvariant, CacheInvariant, PTL

\* A query that hits a cache gets what the tables say, although the number of the
\* chain is read before the lock of the cache is taken, with any number of threads
\* that commit, the engine and block sync among them, until one of them writes a
\* block that another has written.
THEOREM CachesNeverMislead == Spec => []CachesSound
<1>1. FreshInv => (WrittenOnce => CachesFresh)  BY DEF FreshInv, Fresh
<1> QED  BY <1>1, FreshInvariant, CachesKeepBounds, PTL DEF CachesSound
=============================================================================
