-------------------------------- MODULE RLP --------------------------------
(***************************************************************************)
(* The RLP format of libdevcore: what RLP reads out of a byte string and   *)
(* what RLPStream writes.  The byte, and the points that divide it into    *)
(* single bytes, data and lists, are constants, so that every header of    *)
(* the format occurs in strings of a few bytes.                            *)
(***************************************************************************)
EXTENDS Integers, Sequences

CONSTANTS ByteBase,                \* 256 in the code
          c_rlpDataImmLenStart,    \* 0x80
          c_rlpListStart,          \* 0xc0
          c_rlpMaxLengthBytes      \* 8, the bytes of size_t

c_rlpDataImmLenCount == c_rlpListStart - c_rlpDataImmLenStart - c_rlpMaxLengthBytes
c_rlpDataIndLenZero == c_rlpDataImmLenStart + c_rlpDataImmLenCount - 1
c_rlpListImmLenCount == ByteBase - c_rlpListStart - c_rlpMaxLengthBytes
c_rlpListIndLenZero == c_rlpListStart + c_rlpListImmLenCount - 1

Byte == 0 .. ByteBase - 1
Strings(n) == UNION {[1 .. i -> Byte] : i \in 0 .. n}

ThrowOnFail == "ThrowOnFail"
FailIfTooBig == "FailIfTooBig"
FailIfTooSmall == "FailIfTooSmall"
AllowNonCanon == "AllowNonCanon"
Strict == {ThrowOnFail, FailIfTooBig}
VeryStrict == {ThrowOnFail, FailIfTooBig, FailIfTooSmall}
LaissezFaire == {AllowNonCanon}

\* An exception, where a size and where a byte string is expected.
Throw == -1
Thrown == <<Throw>>

-----------------------------------------------------------------------------
(* CommonData.h and vector_ref.h *)

FromBigEndian(s) ==
    LET value[i \in 0 .. Len(s)] == IF i = 0 THEN 0 ELSE value[i - 1] * ByteBase + s[i] IN value[Len(s)]
BytesRequired(n) == CHOOSE b \in 0 .. n : ByteBase ^ b > n /\ \A c \in 0 .. b - 1 : ByteBase ^ c <= n
ToBigEndian(n, size) == [i \in 1 .. size |-> (n \div ByteBase ^ (size - i)) % ByteBase]
Cropped(d, begin, count) == IF begin + count <= Len(d) THEN SubSeq(d, begin + 1, begin + count) ELSE <<>>

-----------------------------------------------------------------------------
(* Reading *)

IsNull(d) == d = <<>>
IsData(d) == ~IsNull(d) /\ d[1] < c_rlpListStart
IsList(d) == ~IsNull(d) /\ d[1] >= c_rlpListStart
IsEmpty(d) == ~IsNull(d) /\ d[1] \in {c_rlpDataImmLenStart, c_rlpListStart}
IsSingleByte(d) == ~IsNull(d) /\ d[1] < c_rlpDataImmLenStart

\* A byte that stands for itself may not be written as a string of one byte.
Good(d) == ~IsNull(d) /\ (d[1] = c_rlpDataImmLenStart + 1 => Len(d) >= 2 /\ d[2] >= c_rlpDataImmLenStart)

LengthSize(d) ==
    IF IsData(d) /\ d[1] > c_rlpDataIndLenZero THEN d[1] - c_rlpDataIndLenZero
    ELSE IF IsList(d) /\ d[1] > c_rlpListIndLenZero THEN d[1] - c_rlpListIndLenZero
    ELSE 0
PayloadOffset(d) == IF IsSingleByte(d) THEN 0 ELSE 1 + LengthSize(d)

\* A length of its own has no leading zero and says no less than a header byte cannot.
IndirectLength_Any(d) ==
    LET n == LengthSize(d)
        ret == FromBigEndian(SubSeq(d, 2, n + 1)) IN
    IF Len(d) <= n \/ d[2] = 0 \/ ret >= ByteBase ^ c_rlpMaxLengthBytes - 1 THEN Throw ELSE ret
IndirectLength(d) ==
    LET n == LengthSize(d)
        ret == FromBigEndian(SubSeq(d, 2, n + 1)) IN
    IF Len(d) <= n \/ d[2] = 0 THEN Throw
    ELSE IF ret < (IF IsData(d) THEN c_rlpDataImmLenCount ELSE c_rlpListImmLenCount) THEN Throw
    ELSE IF ret >= ByteBase ^ c_rlpMaxLengthBytes - 1 THEN Throw
    ELSE ret

RLPLength(d) ==
    IF IsNull(d) THEN 0
    ELSE IF ~Good(d) THEN Throw
    ELSE IF IsSingleByte(d) THEN 1
    ELSE IF LengthSize(d) > 0 THEN IndirectLength(d)
    ELSE d[1] - (IF IsData(d) THEN c_rlpDataImmLenStart ELSE c_rlpListStart)

WithHeader(d, length) == IF length = Throw THEN Throw ELSE PayloadOffset(d) + length
ActualSize(d) ==
    IF IsNull(d) THEN 0
    ELSE IF IsSingleByte(d) THEN 1
    ELSE WithHeader(d, RLPLength(d))

\* The constructor RLP(_d, _s).
OfSize(d, size, flags) ==
    LET failed == \/ FailIfTooBig \in flags /\ size < Len(d)
                  \/ FailIfTooSmall \in flags /\ size > Len(d) IN
    IF size = Throw THEN Thrown
    ELSE IF ~failed THEN d
    ELSE IF ThrowOnFail \in flags THEN Thrown ELSE <<>>
New(d, flags) ==
    IF {FailIfTooBig, FailIfTooSmall} \cap flags = {} THEN d ELSE OfSize(d, ActualSize(d), flags)

SizeAsEncoded(d) == IF New(d, {ThrowOnFail, FailIfTooSmall}) = Thrown THEN Throw ELSE ActualSize(d)

Behind(d, length) ==
    IF length = Throw \/ length > Len(d) THEN Thrown ELSE Cropped(d, PayloadOffset(d), length)
Payload(d) == Behind(d, RLPLength(d))

\* What an iteration from begin() to end() yields, each item as its bytes; RLP::items
\* counts the same steps.  The item in hand is cut from what remains of the payload.
ItemsIn(payload) ==
    LET from[p \in 0 .. Len(payload)] ==
            LET rest == SubSeq(payload, p + 1, Len(payload))
                After(size) == IF size = Throw THEN <<Thrown>>
                               ELSE <<Cropped(rest, 0, size)>> \o from[p + size]
            IN IF rest = <<>> THEN <<>> ELSE After(SizeAsEncoded(rest))
    IN IF payload = Thrown THEN <<Thrown>> ELSE from[0]
ListItems(d) == ItemsIn(Payload(d))

\* isInt: no leading zero.
LeadingByte(d) == d[IF LengthSize(d) > 0 THEN 2 + LengthSize(d) ELSE IF IsSingleByte(d) THEN 1 ELSE 2]
IsInt(d) == IsData(d) /\ (d[1] # c_rlpDataImmLenStart => LeadingByte(d) # 0)

\* toInt for an integer of size bytes, toHash for a hash of size bytes.  The length in
\* front of the payload has been checked by the constructor.
IntOf(d, p, size, flags) ==
    IF ~Good(d) \/ p = Thrown \/ IsList(d) THEN Throw
    ELSE IF ~IsInt(d) /\ AllowNonCanon \notin flags THEN (IF ThrowOnFail \in flags THEN Throw ELSE 0)
    ELSE IF Len(p) > size /\ FailIfTooBig \in flags THEN (IF ThrowOnFail \in flags THEN Throw ELSE 0)
    ELSE FromBigEndian(p) % ByteBase ^ size
ToInt(d, size, flags) == IntOf(d, Payload(d), size, flags)

HashOf(d, p, size, flags) ==
    LET l == Len(p)
        zero == [i \in 1 .. size |-> 0]
        s == IF l < size THEN l ELSE size IN
    IF ~Good(d) \/ p = Thrown THEN Thrown
    ELSE IF \/ ~IsData(d)
            \/ l > size /\ FailIfTooBig \in flags
            \/ l < size /\ FailIfTooSmall \in flags
         THEN (IF ThrowOnFail \in flags THEN Thrown ELSE zero)
    ELSE SubSeq(zero, 1, size - s) \o SubSeq(p, 1, s)
ToHash(d, size, flags) == HashOf(d, Payload(d), size, flags)

ToBytes(d, flags) == IF IsData(d) THEN Payload(d) ELSE IF ThrowOnFail \in flags THEN Thrown ELSE <<>>

-----------------------------------------------------------------------------
(* Writing: a stream is [out, listStack], with the items still due and the *)
(* place of the first of them for every list that is open.                 *)

Stream(out, listStack) == [out |-> out, listStack |-> listStack]

\* noteAppended, when the innermost list is complete: its header goes in front of what
\* was written since its place p.
ListHeader(s) ==
    IF s < c_rlpListImmLenCount THEN <<c_rlpListStart + s>>
    ELSE <<c_rlpListIndLenZero + BytesRequired(s)>> \o ToBigEndian(s, BytesRequired(s))
Closed(out, p) ==
    SubSeq(out, 1, p) \o ListHeader(Len(out) - p) \o SubSeq(out, p + 1, Len(out))

RECURSIVE NoteAppended(_, _)
NoteAppended(stream, itemCount) ==
    LET depth == Len(stream.listStack)
        left == stream.listStack[depth].items - itemCount IN
    IF itemCount = 0 \/ depth = 0 THEN stream
    ELSE IF left < 0 THEN Stream(Thrown, <<>>)
    ELSE IF left > 0 THEN [stream EXCEPT !.listStack[depth].items = left]
    ELSE NoteAppended(Stream(Closed(stream.out, stream.listStack[depth].place),
                             SubSeq(stream.listStack, 1, depth - 1)), 1)

\* appendRaw
AppendRaw(stream, rlp, itemCount) ==
    NoteAppended([stream EXCEPT !.out = @ \o rlp], itemCount)

PushCount(count, base) == <<BytesRequired(count) + base>> \o ToBigEndian(count, BytesRequired(count))

\* append(bytesConstRef, _compact)
DataHeader(s) == IF s < c_rlpDataImmLenCount THEN <<s + c_rlpDataImmLenStart>> ELSE PushCount(s, c_rlpDataIndLenZero)
Compacted(d) == LET zeros == {i \in 0 .. Len(d) : \A j \in 1 .. i : d[j] = 0}
                IN SubSeq(d, 1 + (CHOOSE i \in zeros : \A j \in zeros : j <= i), Len(d))
AppendBytes(stream, data, compact) ==
    LET d == IF compact THEN Compacted(data) ELSE data IN
    IF Len(d) = 1 /\ d[1] < c_rlpDataImmLenStart THEN NoteAppended([stream EXCEPT !.out = @ \o d], 1)
    ELSE NoteAppended([stream EXCEPT !.out = @ \o DataHeader(Len(d)) \o d], 1)

\* append(bigint)
AppendInt(stream, i) ==
    LET br == BytesRequired(i) IN
    NoteAppended([stream EXCEPT !.out = @ \o
        (IF i = 0 THEN <<c_rlpDataImmLenStart>>
         ELSE IF i < c_rlpDataImmLenStart THEN <<i>>
         ELSE DataHeader(br) \o ToBigEndian(i, br))], 1)

\* appendList of a number of items, and of the bytes of a list written elsewhere
AppendListBytes(stream, rlp) ==
    AppendRaw([stream EXCEPT !.out = @ \o (IF Len(rlp) < c_rlpListImmLenCount
                                           THEN <<Len(rlp) + c_rlpListStart>>
                                           ELSE PushCount(Len(rlp), c_rlpListIndLenZero))], rlp, 1)
AppendList(stream, items) ==
    IF items = 0 THEN AppendListBytes(stream, <<>>)
    ELSE [stream EXCEPT !.listStack = Append(@, [items |-> items, place |-> Len(stream.out)])]

=============================================================================
