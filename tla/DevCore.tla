------------------------------ MODULE DevCore -------------------------------
\* Conversions and containers of libdevcore: bytes, numbers and hashes as text,
\* and RangeMask.
EXTENDS Integers, FiniteSets, FiniteSetsExt, Functions, Sequences, SequencesExt

(***************************************************************************)
(* RangeMask: a set of numbers inside a ground range, kept as the map      *)
(* m_ranges from the beginning to the (excluded) end of each of its        *)
(* ranges.  members is the set that the calls so far should have made; the *)
(* properties compare what the class computes with it.                     *)
(***************************************************************************)
CONSTANT Top    \* bound: numbers are below it

VARIABLES
    all,        \* m_all, <<begin, end>>
    ranges,     \* m_ranges
    members,    \* history: the set the calls describe
    other       \* a second mask, a copy of an earlier state of the first

maskVars == <<all, ranges, members, other>>

NoRange == [x \in {} |-> 0]
Ground(a) == a[1]..(a[2] - 1)
Put(r, from, to) == [x \in DOMAIN r \cup {from} |-> IF x = from THEN to ELSE r[x]]
Erase(r, from) == Restrict(r, DOMAIN r \ {from})

\* upper_bound(i): the beginnings of the ranges after i, and the last one up to i.
After(r, i) == {x \in DOMAIN r : x > i}
UpTo(r, i) == {x \in DOMAIN r : x <= i}

-----------------------------------------------------------------------------

\* One turn of the loop of unionWith at i: the new ranges and the next i; the loop
\* is left by going on at the end of the range.
Turn(r, i, end) ==
    LET after == Min(After(r, i))
        before == Max(UpTo(r, i))
        tooHigh == After(r, i) = {} \/ after > end
        from == IF UpTo(r, i) = {} \/ r[before] < i THEN i ELSE before
    IN  IF UpTo(r, i) # {} /\ r[before] > i THEN [r |-> r, i |-> r[before]]
        ELSE IF tooHigh THEN [r |-> Put(r, from, end), i |-> end]
        ELSE [r |-> Erase(Put(r, from, r[after]), after), i |-> r[after]]

unionWith(r, m) ==
    LET turns[k \in 0..(2 * Top)] ==
            IF k = 0 THEN [r |-> r, i |-> m[1]]
            ELSE LET last == turns[k - 1]
                 IN  IF last.i < m[2] THEN Turn(last.r, last.i, m[2]) ELSE last
    IN  turns[2 * Top].r

RECURSIVE unionWithAll(_, _)
unionWithAll(r, s) ==
    IF DOMAIN s = {} THEN r
    ELSE LET from == Min(DOMAIN s) IN unionWithAll(unionWith(r, <<from, s[from]>>), Erase(s, from))

\* The gaps: from the beginning of the ground range or the end of a range to the
\* next range or the end of the ground range.
inverted(a, r) ==
    LET starts == {a[1]} \cup Range(r)
        stop(x) == Min({y \in DOMAIN r : y >= x} \cup {a[2]})
    IN  [x \in {y \in starts : stop(y) # y} |-> stop(x)]

\* The ranges until the items are used up, the last one cut.
lowest(r, items) ==
    LET Before(x) == MapThenSumSet(LAMBDA y : r[y] - y, {y \in DOMAIN r : y < x})
    IN  [x \in {y \in DOMAIN r : Before(y) < items} |-> Min({x + items - Before(x), r[x]})]

contains(r, i) == UpTo(r, i) # {} /\ r[Max(UpTo(r, i))] > i

\* next(t): t + 1 when it is in a range, the beginning of the next range otherwise.
next(a, r, t) ==
    IF contains(r, t + 1) THEN t + 1
    ELSE IF After(r, t + 1) = {} THEN a[2] ELSE Min(After(r, t + 1))

begin(a, r) == IF DOMAIN r = {} THEN a[2] ELSE Min(DOMAIN r)

size(r) == MapThenSumSet(LAMBDA x : r[x] - x, DOMAIN r)

full(a, r) == a[1] = a[2] \/ r = [x \in {a[1]} |-> a[2]]

firstOut(a, r) == IF a[1] \in DOMAIN r THEN r[a[1]] ELSE a[1]

lastIn(a, r) == IF DOMAIN r = {} THEN a[1] ELSE r[Max(DOMAIN r)] - 1

-----------------------------------------------------------------------------
(* Calls *)

MaskInit ==
    /\ all \in {<<b, e>> \in (0..Top) \X (0..Top) : b <= e}
    /\ ranges = NoRange
    /\ members = {}
    /\ other = [all |-> all, ranges |-> NoRange, members |-> {}]

UnionRange(b, e) ==
    /\ b >= all[1] /\ e <= all[2]
    /\ ranges' = unionWith(ranges, <<b, e>>)
    /\ members' = members \cup (b..(e - 1))
    /\ UNCHANGED <<all, other>>

UnionMask ==
    /\ all' = <<Min({all[1], other.all[1]}), Max({all[2], other.all[2]})>>
    /\ ranges' = unionWithAll(ranges, other.ranges)
    /\ members' = members \cup other.members
    /\ UNCHANGED other

\* operator-= for a mask inside this ground range: invert, unionWith, invert.
Subtract ==
    /\ all[1] <= other.all[1] /\ other.all[2] <= all[2]
    /\ ranges' = inverted(all, unionWithAll(inverted(all, ranges), other.ranges))
    /\ members' = members \ other.members
    /\ UNCHANGED <<all, other>>

invert ==
    /\ ranges' = inverted(all, ranges)
    /\ members' = Ground(all) \ members
    /\ UNCHANGED <<all, other>>

KeepLowest(items) ==
    /\ ranges' = lowest(ranges, items)
    /\ members' = {x \in members : Cardinality({y \in members : y < x}) < items}
    /\ UNCHANGED <<all, other>>

clear ==
    /\ ranges' = NoRange /\ members' = {}
    /\ UNCHANGED <<all, other>>

reset ==
    /\ all' = <<0, 0>> /\ ranges' = NoRange /\ members' = {}
    /\ UNCHANGED other

extendAll(i) ==
    /\ all' = <<Min({all[1], i}), Max({all[2], i + 1})>>
    /\ UNCHANGED <<ranges, members, other>>

Copy ==
    /\ other' = [all |-> all, ranges |-> ranges, members |-> members]
    /\ UNCHANGED <<all, ranges, members>>

MaskNext ==
    \/ \E b \in 0..Top : \E e \in b..Top : UnionRange(b, e)
    \/ UnionMask \/ Subtract \/ invert \/ clear \/ reset \/ Copy
    \/ \E i \in 0..(Top - 1) : KeepLowest(i) \/ extendAll(i)

MaskSpec == MaskInit /\ [][MaskNext]_maskVars

-----------------------------------------------------------------------------
(* Properties *)

\* The ranges are not empty, lie in the ground range, and are apart from each other, so that
\* two equal sets have equal maps, whatever unions, complements and differences made
\* them.  contains, next and full read a map that unionWith has left in another form wrongly.
RangesApart ==
    \A x \in DOMAIN ranges :
        /\ all[1] <= x /\ x < ranges[x] /\ ranges[x] <= all[2]
        /\ \A y \in DOMAIN ranges : y > x => y > ranges[x]

\* contains, size, full, firstOut and lastIn tell of the set that the calls describe, and
\* begin and next walk through it in order and end at the end of the ground range.
MaskIsTheSet ==
    /\ \A i \in 0..Top : contains(ranges, i) <=> i \in members
    /\ size(ranges) = Cardinality(members)
    /\ full(all, ranges) <=> members = Ground(all)
    /\ firstOut(all, ranges) = Min((Ground(all) \cup {all[2]}) \ members)
    /\ members # {} => lastIn(all, ranges) = Max(members)
    /\ begin(all, ranges) = Min(members \cup {all[2]})
    /\ \A t \in Ground(all) : next(all, ranges, t) = Min({x \in members : x > t} \cup {all[2]})

-----------------------------------------------------------------------------
(***************************************************************************)
(* Bytes, numbers and hashes as text and back: hexadecimal (toHex,         *)
(* fromHex), the numbers and hashes of the JSON-RPC interface (toJS,       *)
(* jsToInt, jsToFixed), Base64 (the encrypted files), and a hash as a      *)
(* number (FixedHash).  A byte has 4 * Unit bits, a hexadecimal digit      *)
(* 2 * Unit and a Base64 character 3 * Unit (in the code Unit is 2).       *)
(***************************************************************************)
CONSTANTS
    Unit,
    DecimalBase,   \* the digits that are decimal ones
    HashSize,      \* the bytes of a FixedHash
    MaxData,       \* bound: bytes
    MaxText        \* bound: characters

HexBase == 2^(2 * Unit)
ByteBase == 2^(4 * Unit)
Base64 == 2^(3 * Unit)

\* The characters of a text: the hexadecimal digits, the x of the prefix, any other.
X == HexBase
Bad == HexBase + 1
Prefix == <<0, X>>

VARIABLES data, text

textVars == <<data, text>>

TextInit == data = <<>> /\ text = <<>>

TextNext ==
    \/ text = <<>> /\ Len(data) < MaxData
       /\ \E b \in 0..(ByteBase - 1) : data' = Append(data, b)
       /\ UNCHANGED text
    \/ data = <<>> /\ Len(text) < MaxText
       /\ \E c \in 0..Bad : text' = Append(text, c)
       /\ UNCHANGED data

TextSpec == TextInit /\ [][TextNext]_textVars

-----------------------------------------------------------------------------
(* Hexadecimal *)

toHex(bs) ==
    [i \in 1..(2 * Len(bs)) |-> IF i % 2 = 1 THEN bs[(i + 1) \div 2] \div HexBase
                                ELSE bs[i \div 2] % HexBase]

asNibbles(bs) == toHex(bs)

HasPrefix(s) == Len(s) >= 2 /\ SubSeq(s, 1, 2) = Prefix

isHex(s) ==
    \A i \in (IF HasPrefix(s) THEN 3 ELSE 1)..Len(s) : s[i] < HexBase

\* {} for a BadHexCharacter exception.  Without a second digit the first byte is the digit.
fromHex(s) ==
    LET t == IF HasPrefix(s) THEN SubSeq(s, 3, Len(s)) ELSE s
        odd == Len(s) % 2
    IN  IF \E i \in 1..Len(t) : t[i] >= HexBase THEN {}
        ELSE {[k \in 1..((Len(t) + odd) \div 2) |->
                  IF k = 1 /\ odd = 1 THEN t[1]
                  ELSE t[2 * k - 1 - odd] * HexBase + t[2 * k - odd]]}

-----------------------------------------------------------------------------
(* Numbers *)

fromBigEndian(bs) ==
    LET F[i \in 0..Len(bs)] == IF i = 0 THEN 0 ELSE F[i - 1] * ByteBase + bs[i]
    IN  F[Len(bs)]

toBigEndian(n, width) == [i \in 1..width |-> (n \div ByteBase^(width - i)) % ByteBase]

\* A byte for every non-zero power, and at least min of them.
toCompactBigEndian(n, min) ==
    LET width == CHOOSE k \in 0..(MaxData + 1) : n < ByteBase^k /\ (k > 0 => n >= ByteBase^(k - 1))
    IN  toBigEndian(n, IF width < min THEN min ELSE width)

\* A number without its leading zero, but with one digit.
toJS(n) ==
    LET h == toHex(toCompactBigEndian(n, 1))
    IN  Prefix \o (IF h[1] # 0 THEN h ELSE Tail(h))

\* Hexadecimal with the prefix, else decimal, else zero; a bad digit makes fromHex empty.
jsToInt(s) ==
    IF HasPrefix(s)
    THEN LET bs == fromHex(SubSeq(s, 3, Len(s))) IN IF bs = {} THEN 0 ELSE fromBigEndian(CHOOSE b \in bs : TRUE)
    ELSE IF \A i \in DOMAIN s : s[i] < DecimalBase
         THEN LET D[i \in 0..Len(s)] == IF i = 0 THEN 0 ELSE D[i - 1] * DecimalBase + s[i] IN D[Len(s)]
         ELSE 0

\* The number of leading zero bytes.
LeadingZeros(bs) == CHOOSE k \in 0..Len(bs) : (\A i \in 1..k : bs[i] = 0) /\ (k < Len(bs) => bs[k + 1] # 0)

\* The last size bytes, after zeros.
padded(bs, width) ==
    LET long == [i \in 1..(IF Len(bs) < width THEN width - Len(bs) ELSE 0) |-> 0] \o bs
    IN  SubSeq(long, Len(long) - width + 1, Len(long))

paddedRight(bs, width) == [i \in 1..width |-> IF i <= Len(bs) THEN bs[i] ELSE 0]
unpadded(bs) == SubSeq(bs, 1, Len(bs) - LeadingZeros(Reverse(bs)))
unpadLeft(bs) == SubSeq(bs, LeadingZeros(bs) + 1, Len(bs))

\* The bytes of a hexadecimal text, else none.
jsToBytes(s) == LET bs == fromHex(s) IN IF bs = {} THEN <<>> ELSE CHOOSE b \in bs : TRUE

-----------------------------------------------------------------------------
(* FixedHash *)

Zero == [i \in 1..HashSize |-> 0]

\* The constructor from bytes, with the alignment that is used for another size.
FixedHash(bs, align) ==
    LET n == Len(bs)
    IN  CASE n = HashSize -> bs
          [] n # HashSize /\ align = "FailIfDifferent" -> Zero
          [] n # HashSize /\ align = "AlignLeft" -> [i \in 1..HashSize |-> IF i <= n THEN bs[i] ELSE 0]
          [] n # HashSize /\ align = "AlignRight" ->
                [i \in 1..HashSize |-> IF HashSize - i < n THEN bs[n - (HashSize - i)] ELSE 0]

\* operator<: the first byte that differs decides.
LessThan(a, b) ==
    \E i \in 1..HashSize : a[i] < b[i] /\ \A j \in 1..(i - 1) : a[j] = b[j]

\* operator++: a byte that becomes zero carries into the one before it.
Increment(h) ==
    [i \in 1..HashSize |->
        IF \A j \in (i + 1)..HashSize : h[j] = ByteBase - 1 THEN (h[i] + 1) % ByteBase ELSE h[i]]

\* The last digits of a longer text; the digits of a shorter one do not make a hash.
jsToFixed(s) ==
    LET digits == SubSeq(s, 3, Len(s))
        most == IF Len(digits) > 2 * HashSize THEN Len(digits) ELSE 2 * HashSize
        bs == fromHex(SubSeq(digits, 1 + most - 2 * HashSize, Len(digits)))
    IN  FixedHash(CHOOSE b \in bs : TRUE, "FailIfDifferent")

-----------------------------------------------------------------------------
(* Base64 *)

Quarter == 2^Unit

\* Four characters for three bytes.
Chars(a, b, c) ==
    <<a \div Quarter, (a % Quarter) * Quarter^2 + b \div Quarter^2,
      (b % Quarter^2) * Quarter + c \div Quarter^3, c % Base64>>

Equals == Base64

toBase64(bs) ==
    LET n == Len(bs)
        At(i) == IF i <= n THEN bs[i] ELSE 0
        group == [g \in 0..((n + 2) \div 3 - 1) |-> Chars(At(3 * g + 1), At(3 * g + 2), At(3 * g + 3))]
    IN  [k \in 1..(4 * ((n + 2) \div 3)) |->
            LET g == (k - 1) \div 4  r == (k - 1) % 4
            IN  IF 3 * g + r <= n THEN group[g][r + 1] ELSE Equals]

\* Three bytes for four characters.  A missing character has index Base64, of which the
\* masks leave nothing.
Bytes(p, q, r, s) ==
    <<(p * Quarter + ((q \div Quarter^2) % Quarter)) % ByteBase,
      ((q % Quarter^2) * Quarter^2 + ((r \div Quarter) % Quarter^2)) % ByteBase,
      ((r % Quarter) * Quarter^3 + s) % ByteBase>>

\* The characters up to the first that is none of the alphabet; i characters of the last
\* group make i - 1 bytes.
fromBase64(s) ==
    LET n == CHOOSE k \in 0..Len(s) : (\A i \in 1..k : s[i] < Base64) /\ (k < Len(s) => s[k + 1] >= Base64)
        At(i) == IF i <= n THEN s[i] ELSE Base64
        group == [g \in 0..((n + 3) \div 4 - 1) |-> Bytes(At(4 * g + 1), At(4 * g + 2), At(4 * g + 3), At(4 * g + 4))]
        rest == IF n % 4 = 0 THEN 0 ELSE (n % 4) - 1
    IN  [k \in 1..(3 * (n \div 4) + rest) |-> group[(k - 1) \div 3][((k - 1) % 3) + 1]]

-----------------------------------------------------------------------------
(* Properties *)

\* An encrypted file that was written as Base64 is read as it was, whatever its length
\* is modulo three.
Base64Returns == fromBase64(toBase64(data)) = data

\* A number that toJS writes for a client is the number that jsToInt reads, zero and the
\* numbers with an odd count of digits included.
NumberReturns == LET n == fromBigEndian(data) IN jsToInt(toJS(n)) = n

\* Padding on the left keeps a number modulo the size, what is unpadded is its shortest
\* form, and padding on the right adds nothing but the zeros that unpadded takes away.
PaddingKeeps ==
    LET n == fromBigEndian(data)
    IN  /\ \A width \in 1..MaxData :
              /\ fromBigEndian(padded(data, width)) = n % ByteBase^width
              /\ width >= Len(data) => unpadded(paddedRight(data, width)) = unpadded(data)
        /\ unpadLeft(data) = toCompactBigEndian(n, 0)
        /\ unpadLeft(jsToBytes(toJS(n))) = unpadLeft(data)

\* A hash is a big-endian number: it increases as the number does, it is ordered as
\* the number is, and the text that toJS makes of it is read as the hash.
HashIsNumber ==
    Len(data) = HashSize =>
        LET n == fromBigEndian(data)
            r == Reverse(data)
        IN  /\ fromBigEndian(Increment(data)) = (n + 1) % ByteBase^HashSize
            /\ LessThan(data, r) <=> n < fromBigEndian(r)
            /\ jsToFixed(Prefix \o toHex(data)) = data
            /\ FixedHash(toCompactBigEndian(n, 0), "AlignRight") = data

\* isHex decides exactly whether fromHex throws, for the texts with and without the
\* prefix and for an odd count of characters.
HexDecides ==
    /\ isHex(text) <=> fromHex(text) # {}
    /\ fromHex(Prefix \o toHex(data)) = {data} /\ fromHex(toHex(data)) = {data}
=============================================================================
