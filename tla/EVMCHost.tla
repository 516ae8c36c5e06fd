------------------------------ MODULE EVMCHost ------------------------------
(***************************************************************************)
(* The C interface between the host and the interpreter.  Executive::go    *)
(* runs a frame through EVMC::exec, the interpreter calls the host back    *)
(* (setStorage, call), and how a frame ended crosses the interface four    *)
(* times: the C++ exception becomes a status code in execute() of VM.cpp,  *)
(* an exception again in EVMC::exec, a TransactionException in             *)
(* Executive::go, and a status code for the calling frame in ExtVM::call.  *)
(* Each account has one storage slot.                                      *)
(***************************************************************************)
EXTENDS Integers, Sequences, FiniteSets, FiniteSetsExt, SequencesExt

CONSTANTS
    Address,
    MayStore,      \* the accounts whose table the origin may write (checkAuthority)
    InitialGas,    \* the gas of the outermost frame: txGasLimit, base gas left out
    TransactionGas,  \* the gas that transactions name themselves (m_t.gas())
    Word,          \* 2^256
    SetGas,        \* sstoreSetGas
    ResetGas,      \* sstoreResetGas
    RefundGas,     \* sstoreRefundGas
    SuicideRefundGas,
    Throws,        \* what the interpreter throws besides OutOfGas for an SSTORE
    MaxDepth,      \* the depth limit
    CallGas,       \* the gas a frame may pass on
    MaxCalls       \* bound: calls of a frame, by its depth

VARIABLES
    store,         \* the slot of each account
    frames,        \* the running frames, innermost last
    charged,       \* history: gas charged by the interpreter
    burnt,         \* history: gas of the frames that an exception ended
    deletions,     \* history: the frames of the SSTOREs that deleted a value
    destroyed,     \* history: the frames that ended in SELFDESTRUCT, with their account
    failed,        \* history: the frames that failed
    receipt        \* what Executive::finalize() reports

vars == <<store, frames, charged, burnt, deletions, destroyed, failed, receipt>>

Depth == Len(frames)
Top == frames[Depth]
NoReceipt == [is |-> "pending", thrown |-> "pending", gas |-> 0, refunds |-> 0]

\* kids: calls made so far, saved: the storage at the savepoint.
Frame(id, my, static, gas) ==
    [id |-> id, my |-> my, static |-> static, gas |-> gas, refunds |-> 0, suicides |-> {},
     kids |-> 0, saved |-> store]

Init ==
    /\ store \in [Address -> 0..1]
    /\ frames = <<>>
    /\ charged = 0 /\ burnt = 0 /\ deletions = <<>> /\ destroyed = {} /\ failed = {}
    /\ receipt = NoReceipt

-----------------------------------------------------------------------------
(* How a frame ended, across the interface *)

\* The catch clauses of the interpreter's execute().
execute(thrown) ==
    CASE thrown = "none" -> "SUCCESS"
      [] thrown = "RevertInstruction" -> "REVERT"
      [] thrown = "BadInstruction" -> "UNDEFINED_INSTRUCTION"
      [] thrown = "OutOfStack" -> "STACK_OVERFLOW"
      [] thrown = "StackUnderflow" -> "STACK_UNDERFLOW"
      [] thrown = "BufferOverrun" -> "INVALID_MEMORY_ACCESS"
      [] thrown = "OutOfGas" -> "OUT_OF_GAS"
      [] thrown = "BadJumpDestination" -> "BAD_JUMP_DESTINATION"
      [] thrown = "DisallowedStateChange" -> "STATIC_MODE_VIOLATION"
      [] thrown = "VMException" -> "FAILURE"
      [] OTHER -> "INTERNAL_ERROR"

\* The switch of EVMC::exec.
exec(status) ==
    CASE status = "SUCCESS" -> "none"
      [] status = "REVERT" -> "RevertInstruction"
      [] status \in {"OUT_OF_GAS", "FAILURE"} -> "OutOfGas"
      [] status = "UNDEFINED_INSTRUCTION" -> "BadInstruction"
      [] status = "BAD_JUMP_DESTINATION" -> "BadJumpDestination"
      [] status = "STACK_OVERFLOW" -> "OutOfStack"
      [] status = "STACK_UNDERFLOW" -> "StackUnderflow"
      [] status = "INVALID_MEMORY_ACCESS" -> "BufferOverrun"
      [] status = "STATIC_MODE_VIOLATION" -> "DisallowedStateChange"
      [] status = "INTERNAL_ERROR" -> "InternalVMError"

\* toTransactionException, and the clause for RevertInstruction of Executive::go.
toTransactionException(e) ==
    IF e \in {"none", "RevertInstruction", "BadInstruction", "BadJumpDestination", "OutOfGas",
              "OutOfStack", "StackUnderflow"}
    THEN e ELSE "Unknown"

transactionExceptionToEvmcStatusCode(e) ==
    CASE e = "none" -> "SUCCESS"
      [] e = "RevertInstruction" -> "REVERT"
      [] OTHER -> "error"

\* A VM exception takes all the gas of the frame; a revert leaves it what it has.
GasLeft(e) == IF e \in {"none", "RevertInstruction"} THEN Top.gas ELSE 0

\* Executive::revert clears the substate of the frame.
RefundsLeft_Keep(e) == Top.refunds

RefundsLeft(e) == IF e = "none" THEN Top.refunds ELSE 0

SuicidesLeft(e, suicides) == IF e = "none" THEN suicides ELSE {}

StoreLeft(e) == IF e = "none" THEN store ELSE Top.saved

\* finalize() adds the refunds of the suicides.  Half of the gas that the transaction names,
\* less what is left, bounds what is paid; named gas below what is left wraps around.
Receipt(e, thrown, suicides, gas) ==
    LET half == ((gas - GasLeft(e)) % Word) \div 2
        refunds == RefundsLeft(e) + SuicideRefundGas * Cardinality(SuicidesLeft(e, suicides))
    IN  [is |-> toTransactionException(e), thrown |-> thrown, refunds |-> refunds,
         gas |-> GasLeft(e) + Min({half, refunds})]

\* Executive::go after the frame threw (or returned), then the caller: the gas and the
\* substate go to the calling frame, or to finalize().
EndWith(thrown, suicides) ==
    LET e == exec(execute(thrown))
        x == toTransactionException(e)
    IN  /\ e # "InternalVMError"
        /\ store' = StoreLeft(e)
        /\ failed' = IF transactionExceptionToEvmcStatusCode(x) = "SUCCESS" THEN failed
                     ELSE failed \cup {Top.id}
        /\ burnt' = burnt + (IF thrown \in {"none", "RevertInstruction"} THEN 0 ELSE Top.gas)
        /\ IF Depth > 1
           THEN /\ frames' = [Front(frames) EXCEPT ![Depth - 1].gas = @ + GasLeft(e),
                                                   ![Depth - 1].refunds = @ + RefundsLeft(e),
                                                   ![Depth - 1].suicides = @ \cup SuicidesLeft(e, suicides)]
                /\ UNCHANGED receipt
           ELSE /\ frames' = <<>>
                /\ \E gas \in TransactionGas : receipt' = Receipt(e, thrown, suicides, gas)
        /\ UNCHANGED <<charged, deletions>>

End(thrown) == EndWith(thrown, Top.suicides) /\ UNCHANGED destroyed

\* What is no VMException goes on as an InternalVMError after the revert.  It leaves
\* executeBlock from the outermost frame; a calling frame is reached through the host's
\* call, which is noexcept, and the process ends.
Escape(thrown) ==
    /\ exec(execute(thrown)) = "InternalVMError"
    /\ store' = Top.saved
    /\ frames' = <<>>
    /\ receipt' = [NoReceipt EXCEPT !.is = IF Depth > 1 THEN "terminated" ELSE "thrown"]
    /\ UNCHANGED <<charged, burnt, deletions, destroyed, failed>>

-----------------------------------------------------------------------------
(* The interpreter *)

Begin(a) ==
    /\ frames = <<>> /\ receipt = NoReceipt
    /\ frames' = <<Frame(<<>>, a, FALSE, InitialGas)>>
    /\ UNCHANGED <<store, charged, burnt, deletions, destroyed, failed, receipt>>

\* The host's setStorage, and SSTORE around it: the cost of a change is charged before,
\* the rest of the cost of a new value after.
SetStorage(v) ==
    LET old == store[Top.my]
        added == v # old /\ old = 0
        deleted == v # old /\ v = 0
        cost == IF added THEN SetGas ELSE ResetGas
    IN  /\ frames # <<>> /\ ~Top.static /\ Top.gas >= cost /\ (v = old \/ Top.my \in MayStore)
        /\ store' = [store EXCEPT ![Top.my] = v]
        /\ frames' = [frames EXCEPT ![Depth].gas = @ - cost,
                                    ![Depth].refunds = @ + (IF deleted THEN RefundGas ELSE 0)]
        /\ charged' = charged + cost
        /\ deletions' = IF deleted THEN Append(deletions, Top.id) ELSE deletions
        /\ UNCHANGED <<burnt, destroyed, failed, receipt>>

StorageCost(v) == IF v = 1 /\ store[Top.my] = 0 THEN SetGas ELSE ResetGas

\* An SSTORE without the gas, or in a static frame.
SetStorageFails(v) ==
    /\ frames # <<>>
    /\ \/ Top.static /\ End("DisallowedStateChange")
       \/ ~Top.static /\ Top.gas < StorageCost(v) /\ (Top.my \in MayStore \/ Top.gas < ResetGas)
          /\ End("OutOfGas")

\* ExtVM::setStore throws PermissionDenied, and setStorage, through which it would have
\* to pass on its way to Executive::go, is noexcept: the process ends.
SetStorageDenied(v) ==
    /\ frames # <<>> /\ ~Top.static /\ Top.gas >= ResetGas
    /\ v # store[Top.my] /\ Top.my \notin MayStore
    /\ frames' = <<>>
    /\ receipt' = [NoReceipt EXCEPT !.is = "terminated"]
    /\ UNCHANGED <<store, charged, burnt, deletions, destroyed, failed>>

\* The host's selfdestruct: the account joins the substate, and the frame returns.
Selfdestruct ==
    /\ frames # <<>> /\ ~Top.static
    /\ EndWith("none", Top.suicides \cup {Top.my})
    /\ destroyed' = destroyed \cup {<<Top.id, Top.my>>}

\* The host's call: CALL runs on the account of the code, CALLCODE and DELEGATECALL
\* on the caller's; a static frame has static callees only.
Receiver(kind, to) == IF kind = "CALL" THEN to ELSE Top.my

Call(kind, to, static, gas) ==
    LET id == Append(Top.id, Top.kids + 1)
    IN  /\ frames # <<>> /\ Depth < MaxDepth /\ gas <= Top.gas /\ Top.kids < MaxCalls[Depth]
        /\ static => kind = "CALL"
        /\ frames' = Append([frames EXCEPT ![Depth].gas = @ - gas, ![Depth].kids = @ + 1],
                            Frame(id, Receiver(kind, to), static \/ Top.static, gas))
        /\ UNCHANGED <<store, charged, burnt, deletions, destroyed, failed, receipt>>

Next ==
    \/ \E a \in Address : Begin(a)
    \/ \E v \in 0..1 : SetStorage(v) \/ SetStorageFails(v) \/ SetStorageDenied(v)
    \/ \E kind \in {"CALL", "DELEGATECALL"}, to \in Address, static \in BOOLEAN, gas \in CallGas :
          Call(kind, to, static, gas)
    \/ frames # <<>> /\ \E thrown \in {"none", "RevertInstruction"} \cup Throws :
          End(thrown) \/ Escape(thrown)
    \/ Selfdestruct

Spec == Init /\ [][Next]_vars

-----------------------------------------------------------------------------
(* Properties *)

Survives(id) == Prefixes(id) \cap failed = {}

\* The refunds that finalize() counts are those of the SSTOREs and of the destroyed
\* accounts that survived: of the frames that did not fail and none of whose callers
\* failed, however the frames nest.  An account destroyed twice counts once.
RefundsOfSurvivors ==
    receipt.thrown # "pending" =>
        receipt.refunds =
            RefundGas * Cardinality({i \in DOMAIN deletions : Survives(deletions[i])})
            + SuicideRefundGas * Cardinality({d[2] : d \in {x \in destroyed : Survives(x[1])}})

\* No gas appears or gets lost between the frames: what the transaction was given is
\* what the frames have, what was charged and what the failing frames lost.  A
\* revert is not a failure in this sense, its gas goes back to the caller.
GasConserved ==
    frames # <<>> =>
        InitialGas = charged + burnt + MapThenSumSet(LAMBDA i : frames[i].gas, DOMAIN frames)

\* The receipt tells the exception that ended the outermost frame, for each
\* exception that has a TransactionException of its own.
ReceiptTells ==
    receipt.thrown \in {"none", "RevertInstruction", "BadInstruction", "BadJumpDestination",
                        "OutOfGas", "OutOfStack", "StackUnderflow"} =>
        receipt.is = receipt.thrown

\* What finalize() leaves of the gas is at most what there was, so that gasUsed() is not
\* negative.  Not kept by the code for a transaction that names less gas than is left of
\* the limit: the bound of the refund wraps around, and the refunds are paid in full.
UsesNoLessThanNothing == receipt.gas <= InitialGas
=============================================================================
