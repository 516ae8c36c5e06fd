------------------------------ MODULE EthCodec ------------------------------
\* What contracts and their callers exchange, parameters and results, and the filters
\* by which logs are found; the arithmetic of the interpreter and of the precompiled
\* modular exponentiation.
EXTENDS Integers, Sequences, SequencesExt, FiniteSets

(***************************************************************************)
(* ContractABI (libethcore/ABI.h), the encoding of the parameters and      *)
(* results of the precompiled contracts: words for the fixed parameters,   *)
(* then the strings, each found by the offset its word holds.  The list of *)
(* parameters grows by one in every step and is encoded and decoded anew.  *)
(***************************************************************************)
CONSTANTS Base,         \* byte values, 256 in the code
          WordSize,     \* 32
          AddressSize,  \* 20
          Type,         \* the parameter types in use
          Char,         \* the bytes of strings
          MaxString, MaxParams

VARIABLE params  \* typed values, as passed to abiIn

abiVars == <<params>>

Zeros(n) == [i \in 1 .. n |-> 0]

toBigEndian(v, n) == [i \in 1 .. n |-> (v \div Base ^ (n - i)) % Base]

fromBigEndian(s) ==
    LET Value[i \in 0 .. Len(s)] == IF i = 0 THEN 0 ELSE Value[i - 1] * Base + s[i]
    IN  Value[Len(s)]

\* vector_ref::cropped: nothing of a range that exceeds the data.
cropped(data, begin, count) ==
    IF begin + count <= Len(data) THEN SubSeq(data, begin + 1, begin + count) ELSE <<>>

Pad(s, n) == s \o Zeros(n - Len(s))

(***************************************************************************)
(* abiIn.                                                                  *)
(***************************************************************************)

\* The words a parameter takes in the fixed part; a string leaves a word for its offset.
Words(p) ==
    CASE p.type = "u256" -> <<toBigEndian(p.value, WordSize)>>
      [] p.type = "byte" -> <<Zeros(WordSize - 1) \o toBigEndian(p.value, 1)>>
      [] p.type = "u160" -> <<Zeros(WordSize - AddressSize) \o toBigEndian(p.value, AddressSize)>>
      [] p.type = "bool" -> <<toBigEndian(p.value, WordSize)>>
      [] p.type = "string32" -> <<p.value>>
      [] p.type = "string64" -> <<SubSeq(p.value, 1, WordSize), SubSeq(p.value, WordSize + 1, 2 * WordSize)>>
      [] p.type = "string" -> <<Zeros(WordSize)>>

DynamicData(s) ==
    toBigEndian(Len(s), WordSize) \o Pad(s, ((Len(s) + WordSize - 1) \div WordSize) * WordSize)

FixedCount(ps) == Len(FlattenSeq([i \in DOMAIN ps |-> Words(ps[i])]))

Strings(ps) == SelectSeq(ps, LAMBDA p : p.type = "string")

DynamicSize(ps) ==
    LET Size[i \in 0 .. Len(ps)] ==
            IF i = 0 THEN 0
            ELSE Size[i - 1] + (IF ps[i].type = "string" THEN Len(DynamicData(ps[i].value)) ELSE 0)
    IN  Size[Len(ps)]

\* Where the data of the i-th parameter begins.
Offset(ps, i) == FixedCount(ps) * WordSize + DynamicSize(SubSeq(ps, 1, i - 1))

abiIn(ps) ==
    FlattenSeq(FlattenSeq([i \in DOMAIN ps |->
        IF ps[i].type = "string" THEN <<toBigEndian(Offset(ps, i), WordSize)>> ELSE Words(ps[i])]))
    \o FlattenSeq([i \in DOMAIN Strings(ps) |-> DynamicData(Strings(ps)[i].value)])

(***************************************************************************)
(* abiOut.                                                                 *)
(***************************************************************************)

\* The value of a type found at a word; bool is read from the first word whatever
\* its place.
deserialise(data, type, word) ==
    LET at == word * WordSize
    IN  CASE type = "u256" -> fromBigEndian(cropped(data, at, WordSize))
          [] type = "u160" -> fromBigEndian(cropped(data, at + WordSize - AddressSize, AddressSize))
          [] type = "byte" -> fromBigEndian(cropped(data, at + WordSize - 1, 1))
          [] type = "bool" -> IF fromBigEndian(cropped(data, 0, WordSize)) > 0 THEN 1 ELSE 0
          [] type = "string32" -> Pad(cropped(data, at, WordSize), WordSize)
          [] type = "string64" -> Pad(cropped(data, at, 2 * WordSize), 2 * WordSize)
          [] type = "string" ->
                LET offset == fromBigEndian(cropped(data, at, WordSize))
                    len == fromBigEndian(cropped(data, offset, WordSize))
                IN  cropped(data, offset + WordSize, len)

\* The words deserialise reports to have consumed.
Consumed(type) == IF type = "string64" THEN 2 ELSE 1

abiOut(data, types) ==
    LET decodeOffset[i \in 1 .. Len(types)] ==
            IF i = 1 THEN 0 ELSE decodeOffset[i - 1] + Consumed(types[i - 1])
    IN  [i \in DOMAIN types |->
            [type |-> types[i], value |-> deserialise(data, types[i], decodeOffset[i])]]

(***************************************************************************)
(* Parameters.                                                             *)
(***************************************************************************)

Strs(n) == UNION {[1 .. k -> Char] : k \in 0 .. n}

Values(type) ==
    CASE type = "u256" -> {0, Base ^ WordSize - 1}
      [] type = "byte" -> {1, Base - 1}
      [] type = "u160" -> {Base ^ AddressSize - 1}
      [] type = "bool" -> {0, 1}
      [] type = "string32" -> {Pad(s, WordSize) : s \in Strs(WordSize)}
      [] type = "string64" -> {Pad(<<CHOOSE c \in Char : c > 0>>, 2 * WordSize)}
      [] type = "string" -> Strs(MaxString)

AbiInit == params = <<>>

Add(type) ==
    /\ Len(params) < MaxParams
    /\ \E v \in Values(type) : params' = Append(params, [type |-> type, value |-> v])

AbiNext == \E type \in Type : Add(type)

AbiSpec == AbiInit /\ [][AbiNext]_abiVars

Returned == abiOut(abiIn(params), [i \in DOMAIN params |-> params[i].type])

\* What the called contract reads is what the caller passed, for every mixture of
\* parameters: abiOut finds each string by its offset and each word at its place.  A bool
\* comes back when it is the first parameter.
AbiRoundTrip ==
    \A i \in DOMAIN params : params[i].type /= "bool" \/ i = 1 => Returned[i] = params[i]

\* Every parameter comes back.  The code does not keep this: a bool is read from the first
\* word wherever it stands.
AbiReturnsAll == Returned = params

\* The encoding consists of whole words, so that results can be passed on as they are:
\* every string is padded to a multiple of the word size.
AbiAligned == Len(abiIn(params)) % WordSize = 0

-----------------------------------------------------------------------------
(***************************************************************************)
(* The bloom filter of a receipt: three bits for the address of each log   *)
(* and for each of its topics, taken from the hash of the item (FixedHash: *)
(* bloomPart, LogEntry::bloom, TransactionReceipt).  A bloom is the set of *)
(* its one-bits.                                                           *)
(***************************************************************************)
CONSTANTS
    Item,          \* addresses and topics
    Sha3,          \* their hashes, sequences of bytes
    ByteBits,
    BloomSize,     \* M, the bytes of a bloom
    Parts,         \* P, the bits of an item
    MaxLogs,       \* bound: logs of a receipt
    MaxTopics      \* bound: topics of a log

VARIABLES
    log,           \* the logs of the execution
    receipt        \* the receipt of the transaction, once there is one

bloomVars == <<log, receipt>>

BloomInit == log = <<>> /\ receipt = {}

BloomBits == BloomSize * ByteBits

\* The bytes that hold an index of a bit.
BloomBytes == CHOOSE k \in 1..BloomBits : 2^(k * ByteBits) >= BloomBits /\ 2^((k - 1) * ByteBits) < BloomBits

\* The bytes of the k-th index, big-endian, below the mask.
BloomIndex(h, k) ==
    LET I[j \in 0..BloomBytes] ==
            IF j = 0 THEN 0 ELSE I[j - 1] * 2^ByteBits + h[(k - 1) * BloomBytes + j]
    IN  I[BloomBytes] % BloomBits

bloomPart(h) == {BloomIndex(h, k) : k \in 1..Parts}

shiftBloom(b, h) == b \cup bloomPart(h)

containsBloom(b, h) == bloomPart(h) \subseteq b

\* LogEntry::bloom.
EntryBloom(l) ==
    LET B[i \in 0..Len(l.topics)] ==
            IF i = 0 THEN shiftBloom({}, Sha3[l.address]) ELSE shiftBloom(B[i - 1], Sha3[l.topics[i]])
    IN  B[Len(l.topics)]

\* The bloom of the logs of a receipt.
bloom(logs) == UNION {EntryBloom(logs[i]) : i \in DOMAIN logs}

\* LOG0 to LOG4 of the interpreter add a log to the substate.
Log(l) ==
    /\ receipt = {} /\ Len(log) < MaxLogs
    /\ log' = Append(log, l)
    /\ UNCHANGED receipt

\* The receipt of the execution.
TransactionReceipt ==
    /\ receipt = {}
    /\ receipt' = {[log |-> log, bloom |-> bloom(log)]}
    /\ UNCHANGED log

BloomNext ==
    \/ \E a \in Item, n \in 0..MaxTopics : \E t \in [1..n -> Item] : Log([address |-> a, topics |-> t])
    \/ TransactionReceipt

BloomSpec == BloomInit /\ [][BloomNext]_bloomVars

-----------------------------------------------------------------------------
(* Properties *)

\* A client that filters by the bloom misses no log: the bloom of a receipt contains the
\* address and each topic of each of its logs, in whatever order they were logged,
\* and has no more bits than those items have.
NoLogMissed ==
    \A r \in receipt :
        LET items == UNION {{r.log[i].address} \cup {r.log[i].topics[j] : j \in DOMAIN r.log[i].topics}
                            : i \in DOMAIN r.log}
        IN  /\ \A x \in items : containsBloom(r.bloom, Sha3[x])
            /\ Cardinality(r.bloom) <= Parts * Cardinality(items)

-----------------------------------------------------------------------------
(***************************************************************************)
(* The precompiled contract for modular exponentiation and its price       *)
(* (libethcore/Precompiled.cpp).  The input is three words with the        *)
(* lengths of base, exponent and modulus, then the three numbers, and is   *)
(* read as if zeroes followed it without end.                              *)
(***************************************************************************)
CONSTANTS NumberBits,  \* the bits of a byte
          MaxLength    \* bound: bytes of the input

VARIABLE in

expVars == <<in>>

ExpInit == in = <<>>

ExpNext == Len(in) < MaxLength /\ \E b \in 0..(Base - 1) : in' = Append(in, b)

ExpSpec == ExpInit /\ [][ExpNext]_expVars

parseBigEndianRightPadded(begin, count) ==
    IF begin > Len(in) THEN 0
    ELSE LET rest == Len(in) - begin
             n == IF count < rest THEN count ELSE rest
         IN  fromBigEndian(SubSeq(in, begin + 1, begin + n)) * Base^(count - n)

LengthAt(k) == parseBigEndianRightPadded(k * WordSize, WordSize)

\* The contract itself.
modexp ==
    LET baseLength == LengthAt(0)
        expLength == LengthAt(1)
        modLength == LengthAt(2)
        base == parseBigEndianRightPadded(3 * WordSize, baseLength)
        exp == parseBigEndianRightPadded(3 * WordSize + baseLength, expLength)
        mod == parseBigEndianRightPadded(3 * WordSize + baseLength + expLength, modLength)
        Powm[e \in 0..exp] == IF e = 0 THEN 1 % mod ELSE (Powm[e - 1] * base) % mod
    IN  IF modLength = 0 /\ baseLength = 0 THEN <<>>
        ELSE toBigEndian(IF mod # 0 THEN Powm[exp] ELSE 0, modLength)

msb(n) == CHOOSE k \in 0..30 : 2^k <= n /\ n < 2^(k + 1)

\* Of a long exponent only the first word is read.
expLengthAdjust(offset, length) ==
    LET first == parseBigEndianRightPadded(offset, IF length <= WordSize THEN length ELSE WordSize)
        highest == IF first = 0 THEN 0 ELSE msb(first)
    IN  IF length <= WordSize THEN highest ELSE NumberBits * (length - WordSize) + highest

multComplexity(x) ==
    IF x <= 64 THEN x * x
    ELSE IF x <= 1024 THEN (x * x) \div 4 + 96 * x - 3072
    ELSE (x * x) \div 16 + 480 * x - 199680

price ==
    LET baseLength == LengthAt(0)
        modLength == LengthAt(2)
        adjusted == expLengthAdjust(baseLength + 3 * WordSize, LengthAt(1))
    IN  (multComplexity(IF modLength > baseLength THEN modLength ELSE baseLength)
            * (IF adjusted > 1 THEN adjusted ELSE 1)) \div 20

Padded(n) == in \o [i \in 1..n |-> 0]

-----------------------------------------------------------------------------
(* Properties *)

\* A short input means the same as the input with zeroes after it, wherever it ends: in
\* a length, in a number or before one.
ReadAsPadded ==
    LET p == Padded(3 * WordSize + 3 * Base)
        At(begin, count) == fromBigEndian(SubSeq(p, begin + 1, begin + count))
        b == At(0, WordSize)  e == At(WordSize, WordSize)  m == At(2 * WordSize, WordSize)
        mod == At(3 * WordSize + b + e, m)
        Power[k \in 0..At(3 * WordSize + b, e)] ==
            IF k = 0 THEN 1 ELSE (Power[k - 1] * At(3 * WordSize, b)) % (IF mod = 0 THEN 1 ELSE mod)
    IN  /\ Len(modexp) = (IF m = 0 /\ b = 0 THEN 0 ELSE m)
        /\ fromBigEndian(modexp) = (IF mod = 0 THEN 0 ELSE Power[At(3 * WordSize + b, e)] % mod)

\* The price counts at least as many bits of the exponent as the exponent has after its
\* first one, also for an exponent of which only the first word was looked at.
ExponentIsPaid ==
    LET offset == 3 * WordSize + LengthAt(0)
        exp == parseBigEndianRightPadded(offset, LengthAt(1))
    IN  exp # 0 => expLengthAdjust(offset, LengthAt(1)) >= msb(exp)

-----------------------------------------------------------------------------
(***************************************************************************)
(* The word operations of the interpreter (libinterpreter): u256 becomes a *)
(* word of Bytes * ByteBits bits, with every cast, wrap and test of the    *)
(* code kept.  They are compared with what the instructions promise, which *)
(* is stated with integers.                                                *)
(***************************************************************************)
CONSTANT Bytes       \* the bytes of a word, 32 in the code

VARIABLES a, b       \* the operands m_SP[0] and m_SP[1]

wordVars == <<a, b>>

Bits == Bytes * ByteBits
Modulus == 2 ^ Bits
Word == 0 .. Modulus - 1
Wrap(x) == x % Modulus

WordInit == a \in Word /\ b \in Word
WordNext == UNCHANGED wordVars
WordSpec == WordInit /\ [][WordNext]_wordVars

Abs(x) == IF x < 0 THEN -x ELSE x
Sign(x) == IF x < 0 THEN -1 ELSE 1
Bit(x, i) == (x \div 2 ^ i) % 2 = 1

\* u2s and s2u of libdevcore
U2S(x) == IF Bit(x, Bits - 1) THEN -(Modulus - x) ELSE x
S2U(x) == IF x >= 0 THEN Wrap(x) ELSE Wrap(Modulus + x)

\* Division of boost integers truncates; the remainder has the sign of the dividend.
DivWorkaround(x, y) == Sign(x) * Sign(y) * (Abs(x) \div Abs(y))
ModWorkaround(x, y) == Sign(x) * (Abs(x) % Abs(y))

Div(x, y) == IF y = 0 THEN 0 ELSE DivWorkaround(x, y)
Sdiv(x, y) == IF y = 0 THEN 0 ELSE S2U(DivWorkaround(U2S(x), U2S(y)))
Mod(x, y) == IF y = 0 THEN 0 ELSE ModWorkaround(x, y)
Smod_Floor(x, y) == IF y = 0 THEN 0 ELSE S2U(U2S(x) % Abs(U2S(y)))
Smod(x, y) == IF y = 0 THEN 0 ELSE S2U(ModWorkaround(U2S(x), U2S(y)))
Slt(x, y) == IF U2S(x) < U2S(y) THEN 1 ELSE 0
Sgt(x, y) == IF U2S(x) > U2S(y) THEN 1 ELSE 0

Byte(i, x) == IF i < Bytes THEN (x \div 2 ^ (ByteBits * (Bytes - 1 - i))) % 2 ^ ByteBits ELSE 0

Shl(n, x) == IF n >= Bits THEN 0 ELSE Wrap(x * 2 ^ n)
Shr(n, x) == IF n >= Bits THEN 0 ELSE x \div 2 ^ n
\* A shift by all the bits, which an amount of zero asks for, leaves nothing.
AllbitsShl(n) == IF n >= Bits THEN 0 ELSE Wrap((Modulus - 1) * 2 ^ n)
OrHigh(x, n) == (x % 2 ^ n) + AllbitsShl(n)
Sar(n, x) ==
    IF n >= Bits THEN (IF Bit(x, Bits - 1) THEN Modulus - 1 ELSE 0)
    ELSE IF Bit(x, Bits - 1) THEN OrHigh(x \div 2 ^ n, Bits - n) ELSE x \div 2 ^ n

Signextend(i, x) ==
    IF i >= Bytes - 1 THEN x
    ELSE LET testBit == i * ByteBits + ByteBits - 1 IN
         IF Bit(x, testBit) THEN OrHigh(x, testBit) ELSE x % 2 ^ testBit

\* exp256: square and multiply, wrapping at every product.
Square[n \in 0 .. Bits - 1, x \in Word] ==
    IF n = 0 THEN x ELSE Wrap(Square[n - 1, x] * Square[n - 1, x])
Exp256(x, e) ==
    LET result[n \in 0 .. Bits] ==
            IF n = 0 THEN 1
            ELSE IF Bit(e, n - 1) THEN Wrap(result[n - 1] * Square[n - 1, x]) ELSE result[n - 1]
    IN result[Bits]

\* The bytes that the exponent has, by which EXP is charged.
FirstBitSet(x) ==
    CHOOSE i \in 0 .. Bits : /\ i < Bits => Bit(x, Bits - 1 - i)
                             /\ \A j \in 0 .. i - 1 : ~Bit(x, Bits - 1 - j)
ExponentBytes(e) == Bytes - FirstBitSet(e) \div ByteBits

-----------------------------------------------------------------------------
(* Properties *)

Signed(x) == IF x >= Modulus \div 2 THEN x - Modulus ELSE x
Unsigned(v) == v % Modulus
\* The floor of v / 2^n, and v to the power of e, in integers.
FloorShift(v, n) == v \div 2 ^ (IF n > Bits THEN Bits ELSE n)
Power(x, e) == LET p[n \in 0 .. e] == IF n = 0 THEN 1 ELSE (x * p[n - 1]) % Modulus IN p[e]

\* SDIV and SMOD are division of two's complement numbers towards zero, the smallest
\* number divided by -1 included, and together they give the dividend back; the signed
\* comparisons order the same numbers.
SignedArithmetic ==
    /\ b # 0 => /\ Unsigned(Signed(Sdiv(a, b)) * Signed(b) + Signed(Smod(a, b))) = a
                /\ Abs(Signed(Smod(a, b))) < Abs(Signed(b))
                /\ Smod(a, b) # 0 => Sign(Signed(Smod(a, b))) = Sign(Signed(a))
                /\ Div(a, b) * b + Mod(a, b) = a
    /\ Slt(a, b) = 1 <=> Signed(a) < Signed(b)
    /\ Sgt(a, b) = Slt(b, a)

\* SAR divides by a power of two and rounds down, for every amount from nothing to more
\* than the word has; SHL and SHR give and lose the same bits.
ShiftArithmetic ==
    /\ Sar(a, b) = Unsigned(FloorShift(Signed(b), a))
    /\ Shr(a, Shl(a, b)) = (IF a >= Bits THEN 0 ELSE b % 2 ^ (Bits - a))

\* SIGNEXTEND widens the number in the lowest bytes without changing it, and the bytes
\* that BYTE picks make up the word.
Extension ==
    /\ LET n == IF a >= Bytes - 1 THEN Bits ELSE (a + 1) * ByteBits
           low == b % 2 ^ n IN
       Signed(Signextend(a, b)) = IF low >= 2 ^ (n - 1) THEN low - 2 ^ n ELSE low
    /\ LET join[i \in 0 .. Bytes] == IF i = 0 THEN 0 ELSE join[i - 1] * 2 ^ ByteBits + Byte(i - 1, b) IN
       join[Bytes] = b

\* EXP is exponentiation modulo the word, and is charged for exactly the bytes that its
\* exponent needs.
Exponentiation ==
    /\ Exp256(a, b) = Power(a, b)
    /\ b < 2 ^ (ExponentBytes(b) * ByteBits)
    /\ b # 0 => b >= 2 ^ ((ExponentBytes(b) - 1) * ByteBits)
=============================================================================
