--------------------------------- MODULE VM ---------------------------------
\* The interpreter: one frame with its gas, memory and calls, and the way it
\* moves through its code.
EXTENDS Integers, Sequences

(***************************************************************************)
(* One frame of the interpreter (dev::eth::VM): gas, memory and stack      *)
(* metering, static calls and the calls into the host.  The program is     *)
(* arbitrary: every step fetches any instruction with any operands.  Of    *)
(* the memory and the stack only their sizes are kept.  Numbers of 64 bits *)
(* become numbers below 2 * (Int63Max + 1), and wrap there.                *)
(***************************************************************************)
CONSTANTS Int63Max,     \* 0x7FFFFFFFFFFFFFFF in the code
          Word,         \* operands
          InitialGas,   \* the gas of the message
          StackLimit,   \* VMSchedule::stackLimit
          MaxSteps      \* bound on the instructions

VARIABLES gas,       \* m_io_gas
          given,     \* m_message->gas
          static,    \* m_message->flags & EVMC_STATIC
          mem,       \* m_mem.size()
          touched,   \* the bytes of the memory that instructions have used, up to the last
          height,    \* the items on the stack
          ret,       \* m_returnData.size()
          effects,   \* what the host was asked to change
          status,    \* "run" or the status code of the result
          steps

frameVars == <<gas, given, static, mem, touched, height, ret, effects, status, steps>>

MaxOf(x, y) == IF x > y THEN x ELSE y
MinOf(x, y) == IF x < y THEN x ELSE y
Wrap(x) == x % (2 * (Int63Max + 1))
Thrown == -1

\* What the revision in force charges (VMSchedule, EIP150).
SuicideGas == 5000
CallGas == 700
SstoreSetGas == 20000
SstoreResetGas == 5000
LogGas == 375
CreateGas == 32000
ValueTransferGas == 9000
CallStipend == 2300
CallNewAccount == 25000

\* c_metrics for one instruction of every kind: items taken, items left, cost.
Metrics == [PUSH |-> <<0, 1, 3>>, ADDRESS |-> <<0, 1, 2>>, ADD |-> <<2, 1, 3>>, NOT |-> <<1, 1, 3>>,
            BLOCKHASH |-> <<1, 1, 20>>, POP |-> <<1, 0, 2>>, DUP |-> <<2, 3, 3>>, SWAP |-> <<3, 3, 3>>,
            MLOAD |-> <<1, 1, 3>>, MSTORE |-> <<2, 0, 3>>, MSTORE8 |-> <<2, 0, 3>>, SHA3 |-> <<2, 1, 30>>,
            LOG |-> <<3, 0, 750>>, CALLDATACOPY |-> <<3, 0, 3>>, RETURNDATACOPY |-> <<3, 0, 3>>,
            EXTCODECOPY |-> <<4, 0, 700>>, SLOAD |-> <<1, 1, 200>>, SSTORE |-> <<2, 0, 0>>,
            RETURN |-> <<2, 0, 0>>, REVERT |-> <<2, 0, 0>>, STOP |-> <<0, 0, 0>>, SUICIDE |-> <<1, 0, 5000>>,
            CREATE |-> <<3, 1, 32000>>, CALL |-> <<7, 1, 700>>, CALLCODE |-> <<7, 1, 700>>,
            DELEGATECALL |-> <<6, 1, 700>>, STATICCALL |-> <<6, 1, 700>>, INVALID |-> <<0, 0, 0>>]

FrameInit ==
    /\ given \in InitialGas /\ gas = given /\ static \in BOOLEAN
    /\ mem = 0 /\ touched = 0 /\ height = 0 /\ ret = 0 /\ effects = {} /\ status = "run" /\ steps = 0

-----------------------------------------------------------------------------
(* Metering *)

ToInt63_Unchecked(v) == Wrap(v)
ToInt63(v) == IF v > Int63Max THEN Thrown ELSE v
MemNeed(offset, size) == IF size = 0 THEN 0 ELSE ToInt63(offset + size)
GasForMem(size) == LET s == size \div 32 IN ToInt63(3 * s + (s * s) \div 512)

\* The memory an instruction needs for the bytes from offset on; MLOAD and its kind add the
\* size after the check.
Need(op, offset, size) ==
    IF op \in {"MLOAD", "MSTORE", "MSTORE8"}
    THEN IF ToInt63(offset) = Thrown THEN Thrown ELSE ToInt63(offset) + size
    ELSE MemNeed(offset, size)

\* updateMem, updateGas and updateIOGas: the gas of an instruction that costs runGas, needs
\* `need' bytes of memory and copies `copied' bytes, or Thrown.
Rounded(need) == ((need + 31) \div 32) * 32
RunGas(runGas, need, copied) ==
    IF Thrown \in {runGas, need, copied} THEN Thrown
    ELSE LET grown == IF Rounded(need) > mem THEN GasForMem(Rounded(need)) ELSE 0
             total == IF Rounded(need) > mem THEN Wrap(runGas + grown - GasForMem(mem)) ELSE runGas
             all == Wrap(total + 3 * ((copied + 31) \div 32)) IN
         IF grown = Thrown \/ gas < all THEN Thrown ELSE all

\* An exception ends the frame and leaves no gas.
Throw(code) ==
    /\ status' = code /\ gas' = 0
    /\ UNCHANGED <<given, static, mem, touched, height, ret, effects>>

\* The instruction op is fetched; adjustStack refuses a stack that is too small or too large.
StackFits(op) == /\ height >= Metrics[op][1]
                 /\ height - Metrics[op][1] + Metrics[op][2] <= StackLimit
Adjusted(op) == height - Metrics[op][1] + Metrics[op][2]
BadStack(op) ==
    /\ ~StackFits(op)
    /\ Throw(IF height < Metrics[op][1] THEN "STACK_UNDERFLOW" ELSE "STACK_OVERFLOW")

\* An instruction that is paid for, with what it does to the host and the status it leaves.
Expand(op, offset, size) ==
    /\ mem' = MaxOf(mem, Rounded(Need(op, offset, size)))
    /\ touched' = MaxOf(touched, IF size = 0 THEN 0 ELSE offset + size)
Pay(op, runGas, offset, size, copied, effect, code) ==
    LET cost == RunGas(runGas, Need(op, offset, size), copied) IN
    /\ StackFits(op)
    /\ IF cost = Thrown THEN Throw("OUT_OF_GAS")
       ELSE /\ gas' = gas - cost
            /\ Expand(op, offset, size)
            /\ height' = Adjusted(op)
            /\ effects' = effects \cup effect
            /\ status' = code
            /\ UNCHANGED <<given, static, ret>>

-----------------------------------------------------------------------------
(* Instructions *)

\* The instructions that cost what the table says and touch neither memory nor host state.
Plain(op) == Pay(op, Metrics[op][3], 0, 0, 0, {}, "run")
Arithmetic(op) == op \in {"ADD", "NOT"} /\ Plain(op)
Environment(op) == op = "ADDRESS" /\ Plain(op)
BlockInformation(op) == op = "BLOCKHASH" /\ Plain(op)
StackOp(op) == op \in {"POP", "DUP", "SWAP"} /\ Plain(op)
Sload(op) == op = "SLOAD" /\ Plain(op)

\* n values pushed one after the other.
Push(op, n) ==
    /\ op = "PUSH" /\ StackFits(op)
    /\ IF height + n > StackLimit THEN Throw("STACK_OVERFLOW")
       ELSE IF gas < 3 * n THEN Throw("OUT_OF_GAS")
       ELSE /\ gas' = gas - 3 * n /\ height' = height + n
            /\ UNCHANGED <<given, static, mem, touched, ret, effects, status>>

MemoryAccess(op, x) ==
    /\ op \in {"MLOAD", "MSTORE", "MSTORE8"}
    /\ Pay(op, Metrics[op][3], x, IF op = "MSTORE8" THEN 1 ELSE 32, 0, {}, "run")

Sha3(op, x, y) ==
    /\ op = "SHA3"
    /\ Pay(op, ToInt63(30 + 6 * ((y + 31) \div 32)), x, y, 0, {}, "run")

\* A static frame refuses what would change the state.
Disallowed(op, value) ==
    /\ static
    /\ op \in {"LOG", "SSTORE", "CREATE", "SUICIDE"} \/ (op = "CALL" /\ value # 0)
    /\ StackFits(op)
    /\ Throw("STATIC_MODE_VIOLATION")

Log(op, x, y) ==
    /\ op = "LOG" /\ ~static
    /\ Pay(op, ToInt63(2 * LogGas + 8 * y), x, y, 0, {"log"}, "run")

Copy(op, x, y) ==
    /\ op \in {"CALLDATACOPY", "EXTCODECOPY"}
    /\ Pay(op, Metrics[op][3], x, y, ToInt63(y), {}, "run")

Returndatacopy(op, x, y) ==
    /\ op = "RETURNDATACOPY" /\ StackFits(op)
    /\ \E index \in Word :
        IF ret < index + y THEN Throw("INVALID_MEMORY_ACCESS")
        ELSE Pay(op, Metrics[op][3], x, y, ToInt63(y), {}, "run")

\* The modification is paid up front, the rest after the host has said that the item is new.
Sstore(op, added) ==
    /\ op = "SSTORE" /\ ~static /\ StackFits(op)
    /\ IF gas < SstoreResetGas THEN Throw("OUT_OF_GAS")
       ELSE LET left == gas - SstoreResetGas
                extra == IF added THEN SstoreSetGas - SstoreResetGas ELSE 0 IN
            /\ gas' = IF left < extra THEN 0 ELSE left - extra
            /\ status' = IF left < extra THEN "OUT_OF_GAS" ELSE "run"
            /\ height' = Adjusted(op)
            /\ effects' = effects \cup {"storage"}
            /\ UNCHANGED <<given, static, mem, touched, ret>>

Return(op, x, y) ==
    /\ op \in {"RETURN", "REVERT"}
    /\ Pay(op, 0, x, y, 0, {}, IF op = "RETURN" THEN "SUCCESS" ELSE "REVERT")

Stop(op) == op = "STOP" /\ Pay(op, 0, 0, 0, 0, {}, "SUCCESS")

Suicide(op, newAccount) ==
    /\ op = "SUICIDE" /\ ~static
    /\ Pay(op, SuicideGas + (IF newAccount THEN CallNewAccount ELSE 0), 0, 0, 0, {"selfdestruct"}, "SUCCESS")

Invalid(op) == op = "INVALID" /\ Throw("UNDEFINED_INSTRUCTION")

-----------------------------------------------------------------------------
(* Calls into the host *)

AllButOne64th(g) == g - g \div 64

\* A call of the host with g gas: it comes back with some of it and with output.
Result(g) == {0, g \div 2, g} \X {0, 32}

CaseCreate(op, x, y, callable) ==
    LET cost == RunGas(CreateGas, MemNeed(x, y), 0) IN
    /\ op = "CREATE" /\ ~static /\ StackFits(op)
    /\ IF cost = Thrown THEN Throw("OUT_OF_GAS")
       ELSE /\ Expand(op, x, y)
            /\ height' = Adjusted(op)
            /\ IF callable
               THEN \E r \in Result(AllButOne64th(gas - cost)) :
                        /\ gas' = gas - cost - (AllButOne64th(gas - cost) - r[1])
                        /\ ret' = r[2]
                        /\ effects' = effects \cup {"create"}
               ELSE gas' = gas - cost /\ ret' = 0 /\ UNCHANGED effects
            /\ UNCHANGED <<given, static, status>>

\* The flags of the message: a static frame calls statically, whatever the instruction.
CallIsStatic(op) == op = "STATICCALL" \/ static

\* What is charged before the call, apart from the gas that is handed over.
CallCost(op, value, newAccount) ==
    CallGas + (IF op = "CALL" /\ newAccount /\ value > 0 THEN CallNewAccount ELSE 0)
            + (IF op \in {"CALL", "CALLCODE"} /\ value > 0 THEN ValueTransferGas ELSE 0)

\* caseCallSetup and caseCall: x the gas asked for, y the memory needed, and whether depth
\* and balance allow the call.
CaseCall(op, x, y, value, newAccount, callable) ==
    LET cost == RunGas(CallCost(op, value, newAccount), MemNeed(0, y), 0)
        left == gas - cost
        callGas == MinOf(x, AllButOne64th(left))
        stipend == IF op \in {"CALL", "CALLCODE"} /\ value > 0 THEN CallStipend ELSE 0
        changes == IF CallIsStatic(op) THEN {}
                   ELSE {"call"} \cup (IF op = "CALL" /\ value > 0 THEN {"transfer"} ELSE {}) IN
    /\ op \in {"CALL", "CALLCODE", "DELEGATECALL", "STATICCALL"} /\ StackFits(op)
    /\ ~(static /\ op = "CALL" /\ value # 0)
    /\ IF cost = Thrown THEN Throw("OUT_OF_GAS")
       ELSE /\ Expand(op, 0, y)
            /\ height' = Adjusted(op)
            /\ IF callable
               THEN \E r \in Result(callGas + stipend) :
                        /\ gas' = left - callGas + r[1]
                        /\ ret' = r[2]
                        /\ effects' = effects \cup changes
               ELSE /\ gas' = left - callGas + (callGas + stipend)
                    /\ ret' = 0 /\ UNCHANGED effects
            /\ UNCHANGED <<given, static, status>>

Interpret(op) ==
    /\ status = "run" /\ steps < MaxSteps
    /\ steps' = steps + 1
    /\ \/ BadStack(op) \/ Stop(op) \/ Invalid(op)
       \/ Arithmetic(op) \/ Environment(op) \/ BlockInformation(op) \/ StackOp(op) \/ Sload(op)
       \/ \E n \in 1 .. StackLimit : Push(op, n)
       \/ \E added \in BOOLEAN : Sstore(op, added) \/ Suicide(op, added)
       \/ \E x \in Word : MemoryAccess(op, x) \/ Disallowed(op, x)
       \/ \E x, y \in Word : \/ Sha3(op, x, y) \/ Log(op, x, y) \/ Copy(op, x, y)
                             \/ Returndatacopy(op, x, y) \/ Return(op, x, y)
                             \/ \E callable \in BOOLEAN : CaseCreate(op, x, y, callable)
       \/ \E x, y \in Word, value \in {0, 1}, newAccount, callable \in BOOLEAN :
             CaseCall(op, x, y, value, newAccount, callable)

FrameNext == \E op \in DOMAIN Metrics : Interpret(op)
FrameSpec == FrameInit /\ [][FrameNext]_frameVars

-----------------------------------------------------------------------------
(* Properties *)

\* The memory of a frame holds every byte that an instruction uses and is paid for out of
\* the gas of its message: no operand, however large, makes a size or a cost wrap around,
\* and no call gives back more than it took.
MemoryPaid == touched <= mem /\ (mem > 0 => 3 * (mem \div 32) <= given - gas)

NoMoreGas == gas' <= gas

\* Gas never grows in a frame, although a call with value hands over a stipend that the
\* caller is not charged for.
GasFalls == [][NoMoreGas]_frameVars

\* A static frame has asked the host for no change, not even through a call.
StaticIsQuiet == static => effects = {}

-----------------------------------------------------------------------------
(***************************************************************************)
(* How the interpreter moves through its code: the copy with zero bytes    *)
(* behind it, the table of jump destinations that VM::optimize builds, and *)
(* the instructions that move m_PC.  The code is any sequence of bytes; a  *)
(* byte is one of the instructions below or the data of a push.            *)
(***************************************************************************)
CONSTANTS MaxCode,     \* bound on the length of the code
          MaxPush,     \* 32 in the code
          CodeStackLimit   \* VMSchedule::stackLimit

VARIABLES code,        \* the code given, of m_codeSize bytes
          jumpDests,   \* m_jumpDests
          pc,          \* m_PC
          stack,
          bounce       \* the interpreter goes on

codeVars == <<code, jumpDests, pc, stack, bounce>>

STOP == 0
JUMPDEST == 1
JUMP == 2
JUMPI == 3
PUSH1 == 4
Instruction == 0 .. PUSH1 + MaxPush - 1
PushBytes(op) == IF op >= PUSH1 THEN op - PUSH1 + 1 ELSE 0

\* copyCode(33): a push of 32 bytes that begins with the last byte ends just in front of
\* the last zero.
ExtraBytes == MaxPush + 1
MCode(i) == IF i < Len(code) THEN code[i + 1] ELSE STOP
MCodeSize == Len(code) + ExtraBytes

\* optimize: the destinations from position i on, the data of pushes left out.
Dests(c, i) ==
    LET from[n \in 0 .. Len(c) + MaxPush] ==
            IF n >= Len(c) THEN {}
            ELSE (IF c[n + 1] = JUMPDEST THEN {n} ELSE {}) \cup from[n + 1 + PushBytes(c[n + 1])]
    IN from[i]

CodeInit ==
    /\ code \in UNION {[1 .. n -> Instruction] : n \in 1 .. MaxCode}
    /\ jumpDests = Dests(code, 0)
    /\ pc = 0 /\ stack = <<>> /\ bounce = TRUE

\* PUSH: the value is read from the code behind the instruction.
PushAt ==
    LET n == PushBytes(MCode(pc))
        value[i \in 0 .. n] == IF i = 0 THEN 0 ELSE value[i - 1] * (PUSH1 + MaxPush) + MCode(pc + i) IN
    /\ n > 0
    /\ IF Len(stack) = CodeStackLimit THEN bounce' = FALSE /\ UNCHANGED <<pc, stack>>
       ELSE /\ stack' = <<value[n]>> \o stack
            /\ pc' = pc + 1 + n
            /\ UNCHANGED bounce

VerifyJumpDest(dest) == dest \in jumpDests

\* JUMP and JUMPI, which does not move to its destination when its condition is zero.
Jump ==
    LET op == MCode(pc)
        taken == op = JUMP \/ stack[2] # 0 IN
    /\ op \in {JUMP, JUMPI}
    /\ IF Len(stack) < (IF op = JUMP THEN 1 ELSE 2) THEN bounce' = FALSE /\ UNCHANGED <<pc, stack>>
       ELSE IF taken /\ ~VerifyJumpDest(stack[1]) THEN bounce' = FALSE /\ UNCHANGED <<pc, stack>>
       ELSE /\ pc' = IF taken THEN stack[1] ELSE pc + 1
            /\ stack' = SubSeq(stack, IF op = JUMP THEN 2 ELSE 3, Len(stack))
            /\ UNCHANGED bounce

Jumpdest ==
    /\ MCode(pc) = JUMPDEST
    /\ pc' = pc + 1
    /\ UNCHANGED <<stack, bounce>>

StopCode ==
    /\ MCode(pc) = STOP
    /\ bounce' = FALSE
    /\ UNCHANGED <<pc, stack>>

CodeNext ==
    /\ bounce
    /\ PushAt \/ Jump \/ Jumpdest \/ StopCode
    /\ UNCHANGED <<code, jumpDests>>
CodeSpec == CodeInit /\ [][CodeNext]_codeVars

-----------------------------------------------------------------------------
(* Properties *)

\* Where instructions begin when the code is read from its first byte.
Beginning ==
    LET begins[n \in 0 .. Len(code)] ==
            n = 0 \/ \E m \in 0 .. n - 1 : begins[m] /\ m + 1 + PushBytes(code[m + 1]) = n
    IN {n \in 0 .. Len(code) : begins[n]}

\* No sequence of pushes and jumps takes the data of a push for an instruction.
PcAtInstruction == pc < Len(code) => pc \in Beginning

\* Every fetch, and every byte of a push, is inside the extended copy of the code.
FetchInCode == bounce => pc < MCodeSize
=============================================================================
