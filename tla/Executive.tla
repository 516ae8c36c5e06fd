------------------------------ MODULE Executive ------------------------------
(***************************************************************************)
(* The execution of the transactions of a block (BlockVerifier, Executive, *)
(* ExtVM) on accounts that are kept as tables (StorageState over           *)
(* MemoryTableFactory).  Executives nest: a CALL or CREATE of the running  *)
(* contract starts a new one on the same state, and a failing one rolls    *)
(* the state back to its savepoint.                                        *)
(*                                                                         *)
(* What a contract does is arbitrary; each instruction costs one unit of   *)
(* gas (VM has the real costs), which also bounds the runs.  The change    *)
(* log keeps old rows; that undoing the log restores the rows is checked   *)
(* in MemoryTableFactory.                                                  *)
(***************************************************************************)
EXTENDS Integers, Sequences, FiniteSets, FiniteSetsExt, SequencesExt

CONSTANTS Address,      \* accounts that may exist
          User,         \* the sender of the transactions
          Contract,     \* an account with code
          Precompiled,  \* the addresses among them of precompiled contracts
          Derived,      \* [Address -> Seq(Address)]: the address of the n-th creation of a sender
          MayDeploy,    \* is the sender in the authority list of _sys_tables_ (or the list empty)
          TxGas,        \* txGasLimit less the base gas of a transaction
          MaxCodeSize,  \* of the schedule
          MaxDepth,     \* the depth limit of a call
          MaxTxs        \* bound: transactions

VARIABLES state,    \* [acct, codeCache, changeLog]: StorageState and its MemoryTableFactory
          stack,    \* the running executives, innermost last
          result,   \* what the outermost execution left for finalize()
          txs,      \* transactions started
          logged, failed,  \* executions that logged; executions that failed
          receipt,  \* the executions whose logs the last receipt has
          denied    \* was a deployment denied: "no", "now" in this transaction, or "once"

vars == <<state, stack, result, txs, logged, failed, receipt, denied>>

-----------------------------------------------------------------------------
(* StorageState.  A table is open (in m_name2Table), listed in _sys_tables_ *)
(* and has its account rows, or not.                                       *)

Absent == [open |-> FALSE, listed |-> FALSE, rows |-> FALSE,
           nonce |-> 0, balance |-> 0, code |-> 0, store |-> 0]
Account(balance, code) == [Absent EXCEPT !.listed = TRUE, !.rows = TRUE,
                                         !.balance = balance, !.code = code]

\* The row changes of a table are logged with what was there before.
Write(st, a, new) ==
    [st EXCEPT !.acct[a] = new, !.changeLog = Append(@, [addr |-> a, old |-> st.acct[a]])]

GetTable(st, a) == st.acct[a].open \/ st.acct[a].listed
AddressHasCode(st, a) == GetTable(st, a) /\ st.acct[a].rows /\ st.acct[a].code > 0
GetNonce(st, a) == IF GetTable(st, a) /\ st.acct[a].rows THEN st.acct[a].nonce ELSE 0
Balance(st, a) == IF GetTable(st, a) /\ st.acct[a].rows THEN st.acct[a].balance ELSE 0
Storage(st, a) == IF GetTable(st, a) THEN st.acct[a].store ELSE 0
CodeSize(st, a) == IF st.codeCache[a] >= 0 THEN st.codeCache[a]
                   ELSE IF AddressHasCode(st, a) THEN st.acct[a].code ELSE 0

CreateAccount(st, a, nonce, balance) ==
    Write(st, a, [st.acct[a] EXCEPT !.open = TRUE, !.listed = TRUE, !.rows = TRUE,
                                    !.nonce = nonce, !.balance = balance, !.code = 0])

\* An update of the account rows changes nothing when there are none.
UpdateRows(st, a, new) == IF st.acct[a].rows THEN Write(st, a, new) ELSE st

IncNonce(st, a) ==
    IF GetTable(st, a) THEN UpdateRows(st, a, [st.acct[a] EXCEPT !.nonce = @ + 1])
    ELSE CreateAccount(st, a, 1, 0)
SetNonce(st, a, nonce) ==
    IF GetTable(st, a) THEN UpdateRows(st, a, [st.acct[a] EXCEPT !.nonce = nonce])
    ELSE CreateAccount(st, a, nonce, 0)
AddBalance(st, a, amount) ==
    IF GetTable(st, a) THEN UpdateRows(st, a, [st.acct[a] EXCEPT !.balance = @ + amount])
    ELSE CreateAccount(st, a, 0, amount)
SetBalance(st, a, amount) ==
    IF GetTable(st, a) THEN UpdateRows(st, a, [st.acct[a] EXCEPT !.balance = amount])
    ELSE CreateAccount(st, a, 0, amount)

NotEnoughCash(st, a, amount) ==
    ~GetTable(st, a) \/ (st.acct[a].rows /\ st.acct[a].balance < amount)
SubBalance(st, a, amount) == UpdateRows(st, a, [st.acct[a] EXCEPT !.balance = @ - amount])
TransferBalance(st, from, to, value) == AddBalance(SubBalance(st, from, value), to, value)

SetStorage(st, a, value) ==
    IF GetTable(st, a) THEN Write(st, a, [st.acct[a] EXCEPT !.store = value]) ELSE st
SetCode(st, a, size) ==
    LET s == IF GetTable(st, a) THEN UpdateRows(st, a, [st.acct[a] EXCEPT !.code = size]) ELSE st
    IN  [s EXCEPT !.codeCache[a] = size]
Kill(st, a) ==
    LET s == IF GetTable(st, a)
             THEN UpdateRows(st, a, [st.acct[a] EXCEPT !.nonce = 0, !.balance = 0, !.code = 0])
             ELSE st
    IN  [s EXCEPT !.codeCache = [b \in Address |-> -1]]

Savepoint(st) == Len(st.changeLog)

\* MemoryTableFactory::rollback undoes the changes of rows, last first; a table stays open.
\* A log that is already shorter than the savepoint stays as it is.
Undo(acct, change) == [acct EXCEPT ![change.addr] = [change.old EXCEPT !.open = acct[change.addr].open]]
Rollback(st, savepoint) ==
    LET after[n \in savepoint..Len(st.changeLog)] ==
            IF n = Len(st.changeLog) THEN st.acct ELSE Undo(after[n + 1], st.changeLog[n + 1])
    IN  IF savepoint >= Len(st.changeLog) THEN st
        ELSE [st EXCEPT !.acct = after[savepoint], !.changeLog = SubSeq(@, 1, savepoint)]

-----------------------------------------------------------------------------
NoSub == [logs |-> {}, suicides |-> {}]

Init ==
    /\ state = [acct |-> [a \in Address |-> IF a = User THEN Account(1, 0)
                                            ELSE IF a = Contract THEN Account(1, 1) ELSE Absent],
                codeCache |-> [a \in Address |-> -1], changeLog |-> <<>>]
    /\ stack = <<>>
    /\ result = [is |-> "none", sub |-> NoSub]
    /\ txs = 0
    /\ logged = {} /\ failed = {} /\ receipt = {} /\ denied = "no"

Depth == Len(stack)
Top == stack[Depth]
Running == stack # <<>> /\ Top.gas > 0

\* The new executive of a call or creation: number i of its caller.
Child(i, kind, my, gas, savepoint, before) ==
    [id |-> IF stack = <<>> THEN <<i>> ELSE Append(Top.id, i), kids |-> 0, kind |-> kind,
     my |-> my, gas |-> gas, savepoint |-> savepoint, sub |-> NoSub, before |-> before]

\* The caller has paid for the instruction and, with gas, for the callee.
Caller(s, gas) == [s EXCEPT ![Len(s)].gas = @ - 1 - gas, ![Len(s)].kids = @ + 1]

\* Back in the caller, or at finalize(): the gas left and the substate are handed over.
Leave(gas, sub) ==
    IF Depth = 1
    THEN stack' = <<>> /\ result' = [is |-> "done", sub |-> sub]
    ELSE /\ stack' = [Front(stack) EXCEPT ![Depth - 1].gas = @ + gas,
                                          ![Depth - 1].sub = [logs |-> @.logs \cup sub.logs,
                                                              suicides |-> @.suicides \cup sub.suicides]]
         /\ UNCHANGED result

\* Executive::revert: the substate and the changes since the savepoint are dropped.
RevertedSub == NoSub
Fail(gas) ==
    /\ state' = Rollback(state, Top.savepoint)
    /\ failed' = failed \cup {Top.id}
    /\ Leave(gas, RevertedSub)
    /\ UNCHANGED <<txs, logged, receipt, denied>>

\* Executive::call: the savepoint is before the transfer and after the nonce of a transaction.
CallSavepoint_AfterTransfer(st, transferred) == Savepoint(transferred)
CallSavepoint(st, transferred) == Savepoint(st)

\* A precompiled contract runs at once, writes rows of its own through the same factory
\* (one flag here; SystemContracts has what they do), keeps all the gas and never fails.
PrecompiledCall(st, a) ==
    IF a \in Precompiled THEN Write(st, a, [st.acct[a] EXCEPT !.store = 1 - @]) ELSE st

CallParams(st, from, to, codeAddress, value, gas, i) ==
    LET moved == TransferBalance(PrecompiledCall(st, codeAddress), from, to, value) IN
    [code |-> codeAddress \notin Precompiled /\ AddressHasCode(st, codeAddress), state |-> moved,
     frame |-> Child(i, "call", to, gas, CallSavepoint(st, moved), st.acct)]

\* A transaction to an account.  When the sender cannot pay, the exception leaves
\* executeBlock and nothing of the block is kept (not modelled further).
ExecuteCall(to, value) ==
    LET st == IncNonce(state, User)
        c == CallParams(st, User, to, to, value, TxGas, txs + 1) IN
    /\ stack = <<>> /\ result.is = "none" /\ txs < MaxTxs
    /\ ~NotEnoughCash(st, User, value)
    /\ txs' = txs + 1
    /\ state' = c.state
    /\ stack' = IF c.code THEN <<c.frame>> ELSE <<>>
    /\ result' = IF c.code THEN result ELSE [is |-> "done", sub |-> NoSub]
    /\ UNCHANGED <<logged, failed, receipt, denied>>

\* VM::caseCall and ExtVM::call.
Call(kind, to, value, gas) ==
    LET receiver == IF kind = "CALL" THEN to ELSE Top.my
        amount == IF kind = "CALL" THEN value ELSE 0
        c == CallParams(state, Top.my, receiver, to, amount, gas, Top.kids + 1)
        caller == Caller(stack, gas) IN
    /\ Running /\ gas < Top.gas /\ (kind = "DELEGATECALL" => value = 0)
    /\ Balance(state, Top.my) >= value /\ Depth < MaxDepth
    /\ state' = c.state
    /\ stack' = IF c.code THEN Append(caller, c.frame) ELSE Caller(stack, 0)
    /\ UNCHANGED <<result, txs, logged, failed, receipt, denied>>

\* The VM does not make the call: too deep, or not enough balance.
CallRefused(value) ==
    /\ Running
    /\ Balance(state, Top.my) < value \/ Depth >= MaxDepth
    /\ stack' = Caller(stack, 0)
    /\ UNCHANGED <<state, result, txs, logged, failed, receipt, denied>>

-----------------------------------------------------------------------------
(* Executive::executeCreate. *)

Nth(sender, n) == IF n + 1 \in DOMAIN Derived[sender] THEN Derived[sender][n + 1] ELSE sender

\* Without the right to deploy the revert goes back to m_savepoint, still 0.  Without init
\* code (init is FALSE) nothing runs and the gas is kept.
Creation(sender, value, gas, init, i) ==
    LET new == Nth(sender, GetNonce(state, sender))
        st == IncNonce(state, sender)
        used == AddressHasCode(st, new) \/ GetNonce(st, new) > 0
        moved == SetNonce(TransferBalance(st, sender, new, value), new, 0) IN
    IF ~MayDeploy
    THEN [is |-> "denied", state |-> Rollback(state, 0),
          frame |-> Child(i, "create", new, 0, 0, state.acct)]
    ELSE IF used
    THEN [is |-> "used", state |-> st, frame |-> Child(i, "create", new, 0, Savepoint(st), st.acct)]
    ELSE [is |-> IF init THEN "run" ELSE "empty", state |-> moved,
          frame |-> Child(i, "create", new, gas, Savepoint(st), st.acct)]

Fails(c) == c.is \in {"denied", "used"}
Denied(c) == IF c.is = "denied" THEN "now" ELSE denied

ExecuteCreate(value, init) ==
    LET c == Creation(User, value, TxGas, init, txs + 1) IN
    /\ stack = <<>> /\ result.is = "none" /\ txs < MaxTxs
    /\ MayDeploy => GetNonce(state, User) + 1 \in DOMAIN Derived[User]
    /\ Balance(state, User) >= value
    /\ txs' = txs + 1
    /\ state' = c.state
    /\ stack' = IF c.is = "run" THEN <<c.frame>> ELSE <<>>
    /\ result' = IF c.is = "run" THEN result ELSE [is |-> "done", sub |-> NoSub]
    /\ failed' = IF Fails(c) THEN failed \cup {c.frame.id} ELSE failed
    /\ denied' = Denied(c)
    /\ UNCHANGED <<logged, receipt>>

\* VM::caseCreate and ExtVM::create.
Create(value, gas, init) ==
    LET c == Creation(Top.my, value, gas, init, Top.kids + 1) IN
    /\ Running /\ gas < Top.gas
    /\ MayDeploy => GetNonce(state, Top.my) + 1 \in DOMAIN Derived[Top.my]
    /\ Balance(state, Top.my) >= value /\ Depth < MaxDepth
    /\ state' = c.state
    /\ stack' = CASE c.is = "run" -> Append(Caller(stack, gas), c.frame)
                  [] c.is = "empty" -> Caller(stack, 0)
                  [] Fails(c) -> Caller(stack, gas)
    /\ failed' = IF Fails(c) THEN failed \cup {c.frame.id} ELSE failed
    /\ denied' = Denied(c)
    /\ UNCHANGED <<result, txs, logged, receipt>>

-----------------------------------------------------------------------------
(* The other instructions that reach the host, and the ends of Executive::go. *)

SetStore(value) ==
    /\ Running
    /\ value # Storage(state, Top.my)
    /\ state' = SetStorage(state, Top.my, value)
    /\ stack' = [stack EXCEPT ![Depth].gas = @ - 1]
    /\ UNCHANGED <<result, txs, logged, failed, receipt, denied>>

Log ==
    /\ Running
    /\ stack' = [stack EXCEPT ![Depth].gas = @ - 1, ![Depth].sub.logs = @ \cup {Top.id}]
    /\ logged' = logged \cup {Top.id}
    /\ UNCHANGED <<state, result, txs, failed, receipt, denied>>

SuicideState(st, a, heir) == SetBalance(AddBalance(st, heir, Balance(st, a)), a, 0)

\* Halting in a creation deposits no code.
Suicide(heir) ==
    LET st == SuicideState(state, Top.my, heir) IN
    /\ Running
    /\ state' = IF Top.kind = "create" THEN SetCode(st, Top.my, 0) ELSE st
    /\ Leave(Top.gas - 1, [Top.sub EXCEPT !.suicides = @ \cup {Top.my}])
    /\ UNCHANGED <<txs, logged, failed, receipt, denied>>

\* createDataGas is 1 a unit of code here; without it the creation fails.
Return(size) ==
    /\ stack # <<>>
    /\ IF Top.kind = "call"
       THEN /\ size = 0
            /\ Leave(Top.gas, Top.sub)
            /\ UNCHANGED <<state, txs, logged, failed, receipt, denied>>
       ELSE IF size <= MaxCodeSize /\ size <= Top.gas
       THEN /\ state' = SetCode(state, Top.my, size)
            /\ Leave(Top.gas - size, Top.sub)
            /\ UNCHANGED <<txs, logged, failed, receipt, denied>>
       ELSE Fail(0)

RevertInstruction == Running /\ Fail(Top.gas)
VMException == stack # <<>> /\ Fail(0)

\* finalize(): the suicides of the surviving executions are killed, their logs reported.
Finalize ==
    /\ result.is = "done"
    /\ state' = FoldSet(LAMBDA a, st : Kill(st, a), state, result.sub.suicides)
    /\ receipt' = result.sub.logs
    /\ result' = [is |-> "none", sub |-> NoSub]
    /\ denied' = IF denied = "now" THEN "once" ELSE denied
    /\ UNCHANGED <<stack, txs, logged, failed>>

\* The block is committed; the next one gets a new factory and a new state.
CommitBlock ==
    /\ stack = <<>> /\ result.is = "none" /\ state.changeLog # <<>>
    /\ state' = [acct |-> [a \in Address |-> [state.acct[a] EXCEPT !.open = FALSE]],
                 codeCache |-> [a \in Address |-> -1], changeLog |-> <<>>]
    /\ UNCHANGED <<stack, result, txs, logged, failed, receipt, denied>>

Next ==
    \/ \E to \in Address, value \in 0..1 : ExecuteCall(to, value)
    \/ \E value \in 0..1, init \in BOOLEAN : ExecuteCreate(value, init)
    \/ \E to \in Address, value \in 0..1, gas \in 0..TxGas, kind \in {"CALL", "DELEGATECALL"} :
          Call(kind, to, value, gas)
    \/ \E value \in 0..1 : CallRefused(value)
    \/ \E value \in 0..1, gas \in 0..TxGas, init \in BOOLEAN : Create(value, gas, init)
    \/ \E value \in 0..1 : SetStore(value)
    \/ Log
    \/ \E heir \in Address : Suicide(heir)
    \/ \E size \in 0..(MaxCodeSize + 1) : Return(size)
    \/ RevertInstruction
    \/ VMException
    \/ Finalize
    \/ CommitBlock

Spec == Init /\ [][Next]_vars

-----------------------------------------------------------------------------
Rows(acct) == [a \in Address |-> [acct[a] EXCEPT !.open = FALSE]]

FailureRestores ==
    failed' # failed /\ stack # <<>> /\ Len(stack') < Len(stack) /\ denied # "now"
        => Rows(state'.acct) = Rows(Top.before)

\* A failing execution (revert, exception, too little gas for the code) takes back
\* everything it and its callees wrote, the transferred value included, and nothing
\* else: Executive::revert restores every row as it was when the execution began,
\* with the nonce of the creator or of the transaction's sender already counted.  Not
\* after a deployment was denied in the same transaction: the log is then shorter than
\* the savepoints of the executions still running.
FailureUndone == [][FailureRestores]_vars

\* "Revert all changes made to the state by this execution." (Executive.h): a creation
\* that fails before its code runs leaves all rows as they were, up to the nonce of the
\* creator.  Not kept by the code when the deployment is denied: m_savepoint is still 0,
\* and the callers of the creation and the earlier transactions of the block are undone.
OnlyThisExecution ==
    [][failed' # failed /\ Len(stack') >= Len(stack)
         => \A a \in Address : Balance(state', a) = Balance(state, a)
                                /\ Storage(state', a) = Storage(state, a)]_vars

ReceiptHasLogs ==
    receipt' # receipt \/ (result.is = "done" /\ result'.is = "none")
        => receipt' = {id \in logged : id[1] = txs /\ \A f \in failed : ~IsPrefix(f, id)}

\* The logs of a receipt are those of the executions that did not fail and were not
\* called, at any depth, by one that failed: revert() clears the substate and
\* accrueSubState passes the rest on.
LogsOfSurvivors == [][ReceiptHasLogs]_vars

\* No interleaving of transfers, creations, suicides and reverts creates balance:
\* what the accounts hold together is never more than at the beginning.  After a denied
\* deployment it may: a later failure then undoes only a part of a transfer.
SupplyNeverGrows ==
    denied = "no" => MapThenSumSet(LAMBDA a : Balance(state, a), Address) <= 2

\* A contract whose creation has succeeded has the code it returned.  Not kept by the
\* code with two transactions in a block: setCode after a reverted creation of the same
\* address writes to a table that stayed open without rows.
CodeDeposited ==
    [][\A size \in 1..MaxCodeSize :
          stack # <<>> /\ Top.kind = "create" /\ Return(size) /\ failed' = failed
             => AddressHasCode(state', Top.my)]_vars
=============================================================================
