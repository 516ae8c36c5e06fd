-------------------------------- MODULE Rpc ---------------------------------
\* The JSON-RPC interface of a node and the HTTP server in front of it.
EXTENDS Integers, Sequences, FiniteSets

(***************************************************************************)
(* The JSON-RPC interface of a node (librpc/Rpc.cpp and the readers of     *)
(* libblockchain/BlockChainImp.cpp behind it).                             *)
(*                                                                         *)
(* A method is not one read of the ledger.  "call" asks for the current    *)
(* number, then for the hash of that number, then for the block of that    *)
(* hash, then runs the contract on the state; each of these opens its own  *)
(* MemoryTableFactory, and the consensus thread may commit a block between *)
(* any two of them.  A call therefore is a sequence of reads (ReadsOf)     *)
(* that fill registers, and the method's body turns the registers into the *)
(* answer.  A block is named by its number and stands for its hash too:    *)
(* None is the hash or the block that was not found.                       *)
(***************************************************************************)
CONSTANTS
    Group,      \* the groups that have a ledger on this node
    GroupId,    \* the numbers clients send as a group
    GroupBits,  \* width of GROUP_ID (8 in the code)
    Tx,         \* transactions of the clients
    Deploy,     \* the one among them that creates the contract asked about
    Text,       \* the strings clients send as a block number or an index
    Parses,     \* std::stoi on those of them it accepts
    StateType,  \* "mpt": state of the header's root; "storage": of the tables
    MaxBlock    \* bound: blocks committed after the genesis block

VARIABLES
    chain,   \* chain[g]: the transactions of each block of group g
    pool,    \* pool[g]: the pending transactions
    peers,   \* the groups Service::m_groupID2NodeList has an entry for
    call     \* the call being served

rpcVars == <<chain, pool, peers, call>>

None == -1

Committed(g) == UNION {{b[i] : i \in DOMAIN b} : b \in {chain[g][n] : n \in DOMAIN chain[g]}}

-----------------------------------------------------------------------------
(* The conversions of the arguments *)

\* int to GROUP_ID (int8_t) at the call of a LedgerManager method
ToGroup(id) ==
    LET m == id % 2^GroupBits
    IN  IF m >= 2^(GroupBits - 1) THEN m - 2^GroupBits ELSE m

\* jsToInt: 0 for what is not a number
jsToInt(s) == IF s \in DOMAIN Parses THEN Parses[s] ELSE 0

\* (unsigned)jsToInt: a negative number becomes one far above any block
jsToBlockNumber(s) == IF jsToInt(s) < 0 THEN 2^20 + jsToInt(s) ELSE jsToInt(s)

-----------------------------------------------------------------------------
(* The reads.  Each is one operation on the tables of the chain c. *)

Number(c) == Len(c) - 1

Known(c, n) == n \in 0 .. Number(c)

\* SYS_NUMBER_2_HASH
NumberHash(c, n) == IF Known(c, n) THEN n ELSE None

\* The block cache or SYS_HASH_2_BLOCK
BlockOf(c, h) == IF Known(c, h) THEN h ELSE None

\* SYS_TX_HASH_2_BLOCK: block and index of a committed transaction
Location(c, t) ==
    LET at == {<<n, i>> \in (0 .. Number(c)) \X (0 .. Cardinality(Tx)) :
                  i < Len(c[n + 1]) /\ c[n + 1][i + 1] = t}
    IN  IF at = {} THEN <<None, None>> ELSE CHOOSE p \in at : TRUE

\* The height of the state a contract is run on, or its code read from: the
\* trie under the root of the header, or the tables as they are now
StateHeight_Latest(c, at) == Number(c)
StateHeight(c, at) == IF StateType = "mpt" THEN at ELSE Number(c)

Deployed(c, n) == \E k \in 0 .. n : \E i \in DOMAIN c[k + 1] : c[k + 1][i] = Deploy

Sum(c, n) ==
    LET upTo[k \in 0 .. n] == Len(c[k + 1]) + (IF k = 0 THEN 0 ELSE upTo[k - 1])
    IN  upTo[n]

\* The entry of SYS_KEY_TOTAL_TRANSACTION_COUNT: the count and, in its _num_
\* column, the block that wrote it
TotalTransactionCount(c) == [txSum |-> Sum(c, Number(c)), blockNumber |-> Number(c)]

-----------------------------------------------------------------------------
(* The methods: which reads they make, in which order, and what they answer *)

ByNumber == {"getBlockByNumber", "getTransactionByBlockNumberAndIndex"}
ByHash == {"getBlockByHash", "getTransactionByBlockHashAndIndex"}
ByTx == {"getTransactionByHash", "getTransactionReceipt"}
\* One question to one other component of the ledger
Status == {"getPbftView", "getMinerList", "getObserverList",
           "getConsensusStatus", "getSyncStatus"}
\* Methods without a group
NodeWide == {"getClientVersion", "getPeers", "getGroupList"}
Method == ByNumber \cup ByHash \cup ByTx \cup Status \cup NodeWide \cup
    {"getSystemConfigByKey", "getBlockNumber", "getBlockHashByNumber", "getPendingTransactions", "getCode",
     "getTotalTransactionCount", "call", "sendRawTransaction", "getGroupPeers"}

ReadsOf(m) ==
    CASE m = "getBlockNumber" -> <<"number">>
      [] m = "getBlockHashByNumber" -> <<"hash">>
      [] m \in ByNumber -> <<"hash", "block">>
      [] m \in ByHash -> <<"block">>
      [] m \in ByTx -> <<"location", "hash", "block">>
      [] m \in {"getCode", "call"} -> <<"number", "hash", "block", "state">>
      [] m = "getTotalTransactionCount" -> <<"count">>
      [] OTHER -> <<>>

\* What clients send: a block number and an index, a block hash, a transaction
Argument(m) ==
    CASE m = "getTransactionByBlockNumberAndIndex" -> [number : Text, index : Text]
      [] m \in {"getBlockByNumber", "getBlockHashByNumber"} -> [number : Text]
      [] m = "getTransactionByBlockHashAndIndex" -> [hash : 0 .. MaxBlock, index : Text]
      [] m = "getBlockByHash" -> [hash : 0 .. MaxBlock]
      [] m \in ByTx \cup {"sendRawTransaction"} -> [tx : Tx]
      [] m = "call" -> [from : {"", "sender"}]
      [] OTHER -> {[none |-> TRUE]}

\* The registers when the reads begin
Registers(m, a) ==
    [number |-> IF m \in ByNumber \cup {"getBlockHashByNumber"} THEN jsToBlockNumber(a.number)
                ELSE None,
     at |-> IF m \in ByHash THEN a.hash ELSE None,
     index |-> None, output |-> FALSE, count |-> [txSum |-> 0, blockNumber |-> 0]]

\* One read of chain c into registers r
Read(what, a, r, c) ==
    CASE what = "number" -> [r EXCEPT !.number = Number(c)]
      [] what = "hash" -> [r EXCEPT !.at = NumberHash(c, r.number)]
      [] what = "block" -> [r EXCEPT !.at = BlockOf(c, r.at)]
      [] what = "location" -> [r EXCEPT !.number = Location(c, a.tx)[1], !.index = Location(c, a.tx)[2]]
      [] what = "state" ->
             [r EXCEPT !.output = r.at # None /\ Deployed(c, StateHeight(c, r.at))]
      [] what = "count" -> [r EXCEPT !.count = TotalTransactionCount(c)]

Error(code) == [error |-> code]

BlockAnswer(g, n) == [number |-> n, transactions |-> chain[g][n + 1]]

getBlockNumber(g, a, r) == [number |-> r.number]

getBlockByHash(g, a, r) ==
    IF r.at = None THEN Error("BlockHash") ELSE BlockAnswer(g, r.at)

getBlockByNumber(g, a, r) ==
    IF r.at = None THEN Error("BlockNumberT") ELSE BlockAnswer(g, r.at)

\* The hash of an unknown number is the zero hash, not an error
getBlockHashByNumber(g, a, r) == [hash |-> r.at]

TxAnswer(g, n, i) == [tx |-> chain[g][n + 1][i + 1], blockNumber |-> n, index |-> i]

getTransactionByHash(g, a, r) ==
    IF r.at = None THEN [null |-> TRUE] ELSE TxAnswer(g, r.at, r.index)

getTransactionReceipt(g, a, r) ==
    IF r.at = None THEN [null |-> TRUE] ELSE TxAnswer(g, r.at, r.index)

\* unsigned int txIndex = jsToInt(...): the bound also refuses a negative one
TxAt(g, n, s) ==
    IF jsToBlockNumber(s) >= Len(chain[g][n + 1]) THEN Error("TransactionIndex")
    ELSE TxAnswer(g, n, jsToBlockNumber(s))

getTransactionByBlockHashAndIndex(g, a, r) ==
    IF r.at = None THEN Error("BlockHash") ELSE TxAt(g, r.at, a.index)

getTransactionByBlockNumberAndIndex(g, a, r) ==
    IF r.at = None THEN Error("BlockNumberT") ELSE TxAt(g, r.at, a.index)

getCode(g, a, r) == [code |-> r.output]

getTotalTransactionCount(g, a, r) == r.count

callAnswer(g, a, r) ==
    IF r.at = None THEN Error("BlockNumberT")
    ELSE [currentBlockNumber |-> r.number, output |-> r.output]

\* The answer of method m, its reads done
Answer(m, g, a, r) ==
    CASE m = "getBlockNumber" -> getBlockNumber(g, a, r)
      [] m = "getBlockByHash" -> getBlockByHash(g, a, r)
      [] m = "getBlockByNumber" -> getBlockByNumber(g, a, r)
      [] m = "getBlockHashByNumber" -> getBlockHashByNumber(g, a, r)
      [] m = "getTransactionByHash" -> getTransactionByHash(g, a, r)
      [] m = "getTransactionReceipt" -> getTransactionReceipt(g, a, r)
      [] m = "getTransactionByBlockHashAndIndex" -> getTransactionByBlockHashAndIndex(g, a, r)
      [] m = "getTransactionByBlockNumberAndIndex" -> getTransactionByBlockNumberAndIndex(g, a, r)
      [] m = "getCode" -> getCode(g, a, r)
      [] m = "getTotalTransactionCount" -> getTotalTransactionCount(g, a, r)
      [] m = "call" -> callAnswer(g, a, r)

-----------------------------------------------------------------------------
Idle == [step |-> "idle"]

RpcInit ==
    /\ chain = [g \in Group |-> <<<<>>>>]
    /\ pool = [g \in Group |-> {}]
    /\ peers = Group
    /\ call = Idle

\* The checks a method makes before it reads: the sender of a "call" before
\* the group, the group of all methods but getGroupPeers
Refusal(m, id, a) ==
    IF m = "call" /\ a.from = "" THEN {"CallFrom"}
    ELSE IF m \notin NodeWide \cup {"getGroupPeers"} /\ ToGroup(id) \notin Group THEN {"GroupID"}
    ELSE {}

Done(m, id, a, answer) ==
    call' = [step |-> "done", m |-> m, id |-> id, a |-> a, answer |-> answer,
             since |-> IF ToGroup(id) \in Group THEN Len(chain[ToGroup(id)]) ELSE 0]

\* A request for a method that reads the chain
Begin(m, id, a) ==
    /\ call.step = "idle"
    /\ ReadsOf(m) # <<>>
    /\ \/ Refusal(m, id, a) # {}
          /\ Done(m, id, a, Error(CHOOSE e \in Refusal(m, id, a) : TRUE))
       \/ Refusal(m, id, a) = {}
          /\ call' = [step |-> "reads", m |-> m, id |-> id, a |-> a, todo |-> ReadsOf(m),
                      r |-> Registers(m, a), since |-> Len(chain[ToGroup(id)])]
    /\ UNCHANGED <<chain, pool, peers>>

\* The next read; a transaction without a location, a number without a hash
\* and a hash without a block end the reads
NextRead ==
    /\ call.step = "reads"
    /\ LET g == ToGroup(call.id)
           r == Read(Head(call.todo), call.a, call.r, chain[g])
           missing == \/ Head(call.todo) = "location" /\ r.number = None
                      \/ Head(call.todo) \in {"hash", "block"} /\ r.at = None
       IN  call' = IF Len(call.todo) > 1 /\ ~missing
                   THEN [call EXCEPT !.todo = Tail(@), !.r = r]
                   ELSE [step |-> "done", m |-> call.m, id |-> call.id, a |-> call.a,
                         answer |-> Answer(call.m, g, call.a, r), since |-> call.since]
    /\ UNCHANGED <<chain, pool, peers>>

NoArgument == [none |-> TRUE]

\* The methods that ask the consensus engine, the synchronisation or the
\* system configuration of a ledger once
Asked(m, id) ==
    /\ call.step = "idle"
    /\ Done(m, id, NoArgument, IF Refusal(m, id, NoArgument) # {} THEN Error("GroupID")
                              ELSE [status |-> m])
    /\ UNCHANGED <<chain, pool, peers>>

AskStatus(id) == \E m \in Status : Asked(m, id)

getSystemConfigByKey(id) == Asked("getSystemConfigByKey", id)

\* The methods about the node
AskNode(id) == \E m \in {"getClientVersion", "getPeers"} : Asked(m, id)

getGroupList(id) ==
    /\ call.step = "idle"
    /\ Done("getGroupList", id, NoArgument, [groups |-> Group])
    /\ UNCHANGED <<chain, pool, peers>>

\* getNodeListByGroupID is m_groupID2NodeList[groupID]: asking inserts
getGroupPeers(id) ==
    /\ call.step = "idle"
    /\ peers' = peers \cup {ToGroup(id)}
    /\ Done("getGroupPeers", id, NoArgument, [ofGroup |-> ToGroup(id) \in Group])
    /\ UNCHANGED <<chain, pool>>

getPendingTransactions(id) ==
    /\ call.step = "idle"
    /\ Done("getPendingTransactions", id, NoArgument,
            IF ToGroup(id) \in Group THEN [pending |-> pool[ToGroup(id)]] ELSE Error("GroupID"))
    /\ UNCHANGED <<chain, pool, peers>>

\* TxPool::submit refuses what the pool or the chain already has
sendRawTransaction(id, t) ==
    LET g == ToGroup(id)
        new == g \in Group /\ t \notin pool[g] \cup Committed(g)
    IN  /\ call.step = "idle"
        /\ pool' = IF new THEN [pool EXCEPT ![g] = @ \cup {t}] ELSE pool
        /\ Done("sendRawTransaction", id, [tx |-> t],
                IF g \notin Group THEN Error("GroupID")
                ELSE IF new THEN [sha3 |-> t] ELSE Error("internal"))
        /\ UNCHANGED <<chain, peers>>

\* The client has its answer
Return ==
    /\ call.step = "done"
    /\ call' = Idle
    /\ UNCHANGED <<chain, pool, peers>>

\* Consensus commits a block of pending transactions in one batch
Commit(g, txs) ==
    /\ Len(chain[g]) <= MaxBlock
    /\ {txs[i] : i \in DOMAIN txs} \subseteq pool[g]
    /\ chain' = [chain EXCEPT ![g] = Append(@, txs)]
    /\ pool' = [pool EXCEPT ![g] = @ \ {txs[i] : i \in DOMAIN txs}]
    /\ UNCHANGED <<peers, call>>

\* The bodies of blocks: sequences of at most two distinct transactions
BlockBody == {<<>>} \cup {<<t>> : t \in Tx} \cup {<<p[1], p[2]>> : p \in {q \in Tx \X Tx : q[1] # q[2]}}

RpcNext ==
    \/ \E m \in Method, id \in GroupId : \E a \in Argument(m) : Begin(m, id, a)
    \/ NextRead
    \/ \E id \in GroupId : AskStatus(id)
    \/ \E id \in GroupId : getSystemConfigByKey(id)
    \/ \E id \in GroupId : AskNode(id)
    \/ \E id \in GroupId : getGroupList(id)
    \/ \E id \in GroupId : getGroupPeers(id)
    \/ \E id \in GroupId : getPendingTransactions(id)
    \/ \E id \in GroupId, t \in Tx : sendRawTransaction(id, t)
    \/ Return
    \/ \E g \in Group, txs \in BlockBody : Commit(g, txs)

RpcSpec == RpcInit /\ [][RpcNext]_rpcVars

-----------------------------------------------------------------------------
\* Every answer drawn from the chain is the answer all its reads would have
\* given at one height that the chain had between the start and the end of
\* the call: commits between the reads of Rpc::call or
\* BlockChainImp::getLocalisedTxByHash never mix two heights in one answer.
\* With StorageState the state read last is the one of the tables, so a
\* "call" may answer with a state newer than its currentBlockNumber; it is
\* held to that much only.
AnswersOneHeight ==
    (call.step = "done" /\ ReadsOf(call.m) # <<>> /\ Refusal(call.m, call.id, call.a) = {}) =>
        LET g == ToGroup(call.id)
            prefix(k) == SubSeq(chain[g], 1, k)
            reads == ReadsOf(call.m)
            after[k \in call.since .. Len(chain[g]), i \in 0 .. Len(reads)] ==
                IF i = 0 THEN Registers(call.m, call.a)
                ELSE Read(reads[i], call.a, after[k, i - 1], prefix(k))
            at(k) == Answer(call.m, g, call.a, after[k, Len(reads)])
        IN  \E k \in call.since .. Len(chain[g]) :
                \/ call.answer = at(k)
                \/ /\ StateType = "storage" /\ call.m = "call"
                   /\ call.answer.currentBlockNumber = k - 1
                   /\ \E n \in k .. Len(chain[g]) : call.answer.output = at(n).output

\* What a client learns about a transaction is true: each of the four methods
\* that answer with a transaction names the block and the index it is at, the
\* three lookups agree with each other, and "null" is only answered for one
\* that no block had when the call began.
TransactionsWhereSaid ==
    (call.step = "done" /\ ToGroup(call.id) \in Group) =>
        LET g == ToGroup(call.id)
        IN  /\ "index" \in DOMAIN call.answer =>
                   /\ call.answer.index < Len(chain[g][call.answer.blockNumber + 1])
                   /\ Location(chain[g], call.answer.tx) =
                          <<call.answer.blockNumber, call.answer.index>>
                   /\ call.m \in ByTx => call.answer.tx = call.a.tx
            /\ "null" \in DOMAIN call.answer =>
                   Location(SubSeq(chain[g], 1, call.since), call.a.tx) = <<None, None>>

-----------------------------------------------------------------------------
(***************************************************************************)
(* The HTTP front of the JSON-RPC interface (librpc/SafeHttpServer.cpp)    *)
(* and the dispatch of its requests (librpc/ModularServer.h).              *)
(*                                                                         *)
(* libmicrohttpd calls SafeHttpServer::callback several times for one      *)
(* request: once with the headers, once per piece of the body, once at the *)
(* end.  What the calls of a request share is the mhd_coninfo that *con_cls *)
(* points to; the first call allocates it and the last one frees it, so    *)
(* that the next request on the connection starts afresh.  The calls of    *)
(* different connections interleave, one thread of the pool each.          *)
(***************************************************************************)
CONSTANTS
    Conn,       \* client connections
    Interfaces, \* the sets of methods of the interfaces, in template order
    Call,       \* the methods clients name
    MaxPieces,  \* bound: pieces a body arrives in
    MaxRequests, \* bound: requests answered on a connection
    MaxLeaked   \* bound: requests cut off

VARIABLES
    running,  \* StartListening has a daemon
    handler,  \* the connector has a request handler (addConnector)
    req,      \* req[c]: the request libmicrohttpd is receiving on c
    con,      \* con[c]: *con_cls, a set with at most one mhd_coninfo
    leaked,   \* mhd_coninfos no connection points to any more
    reply,   \* answer[c]: the last answer on c, a set of at most one
    served    \* served[c]: how many requests were answered on c

httpVars == <<running, handler, req, con, leaked, reply, served>>

NoRequest == [verb |-> "", call |-> "", pieces |-> 0, sent |-> 0]

HttpInit ==
    /\ running = FALSE
    /\ handler = FALSE
    /\ req = [c \in Conn |-> NoRequest]
    /\ con = [c \in Conn |-> {}]
    /\ leaked = 0
    /\ reply = [c \in Conn |-> {}]
    /\ served = [c \in Conn |-> 0]

\* ModularServer::addConnector sets the handler, before StartListening
addConnector ==
    /\ ~running /\ ~handler
    /\ handler' = TRUE
    /\ UNCHANGED <<running, req, con, leaked, reply, served>>

\* MHD_start_daemon may fail (port taken, certificate unreadable)
StartListening(ok) ==
    /\ ~running
    /\ running' = ok
    /\ UNCHANGED <<handler, req, con, leaked, reply, served>>

Unfinished == {c \in Conn : con[c] # {}}

\* MHD_stop_daemon closes every connection; nothing frees their mhd_coninfo
StopListening ==
    /\ running
    /\ leaked + Cardinality(Unfinished) <= MaxLeaked
    /\ running' = FALSE
    /\ req' = [c \in Conn |-> NoRequest]
    /\ con' = [c \in Conn |-> {}]
    /\ leaked' = leaked + Cardinality(Unfinished)
    /\ UNCHANGED <<handler, reply, served>>

-----------------------------------------------------------------------------
(* ModularServer<I, Is...>::HandleMethodCall: the first interface that has  *)
(* the method serves it, the base class knows rpc_modules only.             *)
HandleMethodCall(m) ==
    LET has == {i \in DOMAIN Interfaces : m \in Interfaces[i]}
    IN  IF has # {} THEN [by |-> CHOOSE i \in has : \A j \in has : i <= j]
        ELSE IF m = "rpc_modules" THEN [by |-> 0]
        ELSE [by |-> Len(Interfaces) + 1]   \* JSON-RPC "method not found"

\* A client sends a request: headers and the body in some pieces
Request(c, verb, m, pieces) ==
    /\ running
    /\ req[c] = NoRequest
    /\ served[c] < MaxRequests
    /\ req' = [req EXCEPT ![c] = [verb |-> verb, call |-> m, pieces |-> pieces, sent |-> 0]]
    /\ UNCHANGED <<running, handler, con, leaked, reply, served>>

\* First call of callback for a request
FirstCall(c) ==
    /\ req[c] # NoRequest /\ con[c] = {}
    /\ con' = [con EXCEPT ![c] = {<<>>}]
    /\ UNCHANGED <<running, handler, req, leaked, reply, served>>

\* A call with a piece of the body of a POST
Upload(c) ==
    /\ con[c] # {} /\ req[c].verb = "POST" /\ req[c].sent < req[c].pieces
    /\ con' = [con EXCEPT ![c] = {Append(got, req[c].sent + 1) : got \in con[c]}]
    /\ req' = [req EXCEPT ![c].sent = @ + 1]
    /\ UNCHANGED <<running, handler, leaked, reply, served>>

\* The answer of the last call: 500 without a handler, 405 for other verbs
Response(c) ==
    LET got == CHOOSE g \in con[c] : TRUE
    IN  IF req[c].verb = "POST"
        THEN IF handler THEN [code |-> 200, body |-> got, call |-> HandleMethodCall(req[c].call)]
             ELSE [code |-> 500, body |-> got, call |-> [by |-> 0]]
        ELSE [code |-> IF req[c].verb = "OPTIONS" THEN 200 ELSE 405, body |-> <<>>,
              call |-> [by |-> 0]]

\* The last call: answer and free
LastCall(c) ==
    /\ con[c] # {} /\ (req[c].verb = "POST" => req[c].sent = req[c].pieces)
    /\ reply' = [reply EXCEPT ![c] = {[asked |-> req[c], got |-> Response(c)]}]
    /\ served' = [served EXCEPT ![c] = @ + 1]
    /\ con' = [con EXCEPT ![c] = {}]
    /\ req' = [req EXCEPT ![c] = NoRequest]
    /\ UNCHANGED <<running, handler, leaked>>

\* The client goes away in the middle: no completion callback is registered
\* with the daemon, so the mhd_coninfo stays allocated
Abort(c) ==
    /\ req[c] # NoRequest
    /\ leaked < MaxLeaked
    /\ req' = [req EXCEPT ![c] = NoRequest]
    /\ con' = [con EXCEPT ![c] = {}]
    /\ leaked' = IF con[c] = {} THEN leaked ELSE leaked + 1
    /\ UNCHANGED <<running, handler, reply, served>>

HttpNext ==
    \/ addConnector
    \/ \E ok \in BOOLEAN : StartListening(ok)
    \/ StopListening
    \/ \E c \in Conn, verb \in {"POST", "OPTIONS", "GET"}, m \in Call, n \in 1 .. MaxPieces :
           Request(c, verb, m, n)
    \/ \E c \in Conn : FirstCall(c)
    \/ \E c \in Conn : Upload(c)
    \/ \E c \in Conn : LastCall(c)
    \/ \E c \in Conn : Abort(c)

HttpSpec == HttpInit /\ [][HttpNext]_httpVars

-----------------------------------------------------------------------------
\* Every POST is answered from exactly its own body: all its pieces, in
\* order, and nothing of an earlier request of the connection, of one that
\* was aborted, or of another connection; and by the interface that has the
\* method (SafeHttpServer::callback, ModularServer::HandleMethodCall).
AnswersWholeRequest ==
    \A c \in Conn : \A a \in reply[c] :
        (a.asked.verb = "POST") =>
            /\ a.got.body = [k \in 1 .. a.asked.pieces |-> k]
            /\ (a.got.call.by \in DOMAIN Interfaces) =>
                   a.asked.call \in Interfaces[a.got.call.by]
=============================================================================
