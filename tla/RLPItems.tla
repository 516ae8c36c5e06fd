------------------------------ MODULE RLPItems ------------------------------
\* RLP as programs use it: RLP objects that read a byte string, and RLPStream,
\* which writes one.
EXTENDS RLP

(***************************************************************************)
(* RLP objects over every short byte string: the strings the constructor   *)
(* and the reading functions accept, and operator[], which keeps the item  *)
(* it found last in m_lastIndex, m_lastEnd and m_lastItem.                 *)
(***************************************************************************)
CONSTANT MaxData    \* bound on the length of a byte string

VARIABLES data,     \* m_data of an object made with VeryStrict
          last,     \* m_lastIndex (-1 before the first use), m_lastEnd, m_lastItem
          asked     \* the index last asked for, -1 before the first use

readVars == <<data, last, asked>>

ReadInit ==
    /\ data \in Strings(MaxData)
    /\ last = [index |-> -1, end |-> 0, item |-> <<>>]
    /\ asked = -1

Payloads == Payload(data)
ItemAt(from) ==
    LET rest == SubSeq(Payloads, from + 1, Len(Payloads))
        size == SizeAsEncoded(rest) IN
    IF size = Throw THEN Thrown ELSE Cropped(rest, 0, size)

\* operator[](i): m_lastIndex begins at the largest size_t, so the first use starts over,
\* and so does every use of an index in front of the last.  The loop stops at an empty item.
Found(l, i) ==
    LET first == IF i < l.index \/ l.index = -1
                 THEN [index |-> 0, end |-> Len(ItemAt(0)), item |-> ItemAt(0)] ELSE l
        step[n \in 0 .. i] ==
            IF n <= first.index THEN first
            ELSE LET p == step[n - 1] IN
                 IF p.item \in {<<>>, Thrown} THEN p
                 ELSE [index |-> n, end |-> p.end + Len(ItemAt(p.end)), item |-> ItemAt(p.end)]
    IN step[i]

At(i) ==
    /\ New(data, VeryStrict) # Thrown /\ IsList(data)
    /\ \A n \in DOMAIN ListItems(data) : ListItems(data)[n] # Thrown
    /\ last' = Found(last, i)
    /\ asked' = i
    /\ UNCHANGED data

ReadNext == \E i \in 0 .. MaxData : At(i)
ReadSpec == ReadInit /\ [][ReadNext]_readVars

-----------------------------------------------------------------------------
\* What a string stands for when every part of it is read strictly: "bad", the bytes of
\* a datum or the items of a list.
Item(kind, bytes, items) == [kind |-> kind, bytes |-> bytes, items |-> items]
Decoded[d \in Strings(MaxData)] ==
    LET items == ListItems(d)
        parts == [i \in DOMAIN items |-> Decoded[items[i]]] IN
    IF IsNull(d) \/ New(d, VeryStrict) = Thrown THEN Item("bad", <<>>, <<>>)
    ELSE IF IsData(d) THEN Item("data", ToBytes(d, Strict), <<>>)
    ELSE IF \E i \in DOMAIN items : items[i] = Thrown \/ parts[i].kind = "bad" THEN Item("bad", <<>>, <<>>)
    ELSE Item("list", <<>>, parts)

RECURSIVE Written(_, _)
Written(stream, item) ==
    IF item.kind = "data" THEN AppendBytes(stream, item.bytes, FALSE)
    ELSE LET from[i \in 0 .. Len(item.items)] ==
                 IF i = 0 THEN AppendList(stream, Len(item.items)) ELSE Written(from[i - 1], item.items[i])
         IN from[Len(item.items)]

\* A byte string that RLP reads in full without an exception is the one RLPStream writes
\* for what was read: no second encoding of a block or a transaction, with another hash,
\* is accepted (RLP::length, RLP::requireGood and the VeryStrict constructor).
Canonical ==
    \A item \in {Decoded[data]} : item.kind # "bad" => Written(Stream(<<>>, <<>>), item) = Stream(data, <<>>)

\* operator[] gives the item with that number, or the empty one behind the last, whatever
\* was asked before: the remembered position never goes astray (RLP::operator[]).
IndexedRight ==
    asked >= 0 => last.item = IF asked < Len(ListItems(data)) THEN ListItems(data)[asked + 1] ELSE <<>>

-----------------------------------------------------------------------------
(***************************************************************************)
(* RLPStream as a machine: calls append to m_out, and when the last item   *)
(* of an open list is there the header of that list is put in front of it. *)
(* `open' remembers, for every list that is open, what was appended to it, *)
(* encoded by the definition of the format instead of by the stream.       *)
(***************************************************************************)
CONSTANTS Datum,      \* the byte strings appended
          Number,     \* the integers appended
          HashSize,   \* the bytes of a hash and of an integer
          MaxItems,   \* bound on the items announced by appendList
          MaxDepth,   \* bound on the lists open at once
          MaxOut      \* bound on the bytes written

VARIABLES stream,     \* m_out and m_listStack
          open,       \* the encodings appended to each open list, the outermost first
          typed       \* the values appended with <<, with the kind each is read back as

writeVars == <<stream, open, typed>>

WriteInit ==
    /\ stream = Stream(<<>>, <<>>)
    /\ open = <<<<>>>>
    /\ typed = <<>>

\* The format: a length in front of what it counts.
Prefixed(start, zero, count, s) ==
    (IF Len(s) < count THEN <<start + Len(s)>>
     ELSE <<zero + BytesRequired(Len(s))>> \o ToBigEndian(Len(s), BytesRequired(Len(s)))) \o s
EncodedData(d) ==
    IF Len(d) = 1 /\ d[1] < c_rlpDataImmLenStart THEN d
    ELSE Prefixed(c_rlpDataImmLenStart, c_rlpDataIndLenZero, c_rlpDataImmLenCount, d)
EncodedList(s) == Prefixed(c_rlpListStart, c_rlpListIndLenZero, c_rlpListImmLenCount, s)

\* Adding an encoding of n items to the innermost list completes, for each list on the
\* stack that waits for just that, the list around it.
RECURSIVE Completed(_, _, _, _)
Completed(lists, due, enc, n) ==
    LET depth == Len(due)
        inner == lists[Len(lists)] \o enc IN
    IF depth = 0 \/ due[depth].items > n THEN [lists EXCEPT ![Len(lists)] = inner]
    ELSE Completed(SubSeq(lists, 1, Len(lists) - 1), SubSeq(due, 1, depth - 1), EncodedList(inner), 1)

Room == Len(stream.out) < MaxOut
Top == Len(stream.listStack) = 0

\* At most the items the innermost list waits for; the code throws when there are more.
Fits(n) == Top \/ stream.listStack[Len(stream.listStack)].items >= n

Put(s, enc, n, values) ==
    /\ Room /\ stream.out # Thrown
    /\ stream' = s
    /\ IF Fits(n) THEN open' = Completed(open, stream.listStack, enc, n) ELSE UNCHANGED open
    /\ typed' = IF Top /\ Len(open) = 1 THEN typed \o values ELSE typed

\* append(bytes) and append(FixedHash, _compact)
AppendDatum == \E d \in Datum, compact \in BOOLEAN :
    Put(AppendBytes(stream, d, compact), EncodedData(IF compact THEN Compacted(d) ELSE d), 1,
        <<[kind |-> IF compact THEN "hash" ELSE "bytes", value |-> d]>>)

\* append(u256) and the other integers
AppendNumber == \E n \in Number :
    Put(AppendInt(stream, n), EncodedData(ToBigEndian(n, BytesRequired(n))), 1,
        <<[kind |-> "int", value |-> ToBigEndian(n, HashSize)]>>)

\* append(RLP, _itemCount): two items at once
AppendTwo == \E d \in Datum :
    Put(AppendRaw(stream, EncodedData(d) \o EncodedData(d), 2), EncodedData(d) \o EncodedData(d), 2,
        <<[kind |-> "bytes", value |-> d], [kind |-> "bytes", value |-> d]>>)

\* append(std::vector), and pairs, arrays and sets likewise
AppendVector == \E d \in Datum :
    Put(AppendBytes(AppendBytes(AppendList(stream, 2), d, FALSE), d, FALSE),
        EncodedList(EncodedData(d) \o EncodedData(d)), 1, <<[kind |-> "vector", value |-> d]>>)

OpenList == \E n \in 1 .. MaxItems :
    /\ Len(stream.listStack) < MaxDepth /\ Room /\ stream.out # Thrown
    /\ stream' = AppendList(stream, n)
    /\ open' = Append(open, <<>>)
    /\ typed' = IF Top THEN Append(typed, [kind |-> "list", value |-> <<>>]) ELSE typed

\* appendList(0) and appendList(bytes) of a list written elsewhere
AppendWrittenList == \E rlp \in {<<>>} \cup {EncodedData(d) : d \in Datum} :
    Put(IF rlp = <<>> THEN AppendList(stream, 0) ELSE AppendListBytes(stream, rlp), EncodedList(rlp), 1,
        <<[kind |-> "list", value |-> <<>>]>>)

Clear == stream' = Stream(<<>>, <<>>) /\ open' = <<<<>>>> /\ typed' = <<>>

WriteNext == AppendDatum \/ AppendNumber \/ AppendTwo \/ AppendVector \/ OpenList \/ AppendWrittenList \/ Clear
WriteSpec == WriteInit /\ [][WriteNext]_writeVars

-----------------------------------------------------------------------------
\* out() may be read when every list is complete, and then holds the items appended, each
\* list in front of its items with their length, however the lists were nested and closed:
\* the place kept for an outer list stays right when headers are put in behind it
\* (RLPStream::noteAppended).
StreamEncodes ==
    /\ stream.out # Thrown => Len(open) = Len(stream.listStack) + 1
    /\ Top /\ stream.out # Thrown => stream.out = open[1]

\* toVector, toPair and toArray: every item converted
ToVector(d) == [i \in DOMAIN ListItems(d) |-> ToBytes(ListItems(d)[i], Strict)]

\* convert<T>(Strict) of an item gives the value back.
Converted(item, entry) ==
    CASE entry.kind = "bytes" -> ToBytes(item, Strict) = entry.value
      [] entry.kind = "int" -> ToInt(item, HashSize, Strict) = FromBigEndian(entry.value)
      [] entry.kind = "hash" -> Len(entry.value) = HashSize => ToHash(item, HashSize, Strict) = entry.value
      [] entry.kind = "vector" -> ToVector(item) = <<entry.value, entry.value>>
      [] entry.kind = "list" -> IsList(item)

\* What was appended at the top is read back, as the type it was appended with: an integer
\* of any length below its size, a hash without its leading zeroes (RLP::toInt, RLP::toHash,
\* RLP::toBytes, RLP::toVector).
ReadsBack ==
    LET items == ListItems(AppendListBytes(Stream(<<>>, <<>>), stream.out).out) IN
    Top /\ stream.out # Thrown /\ Len(stream.out) < ByteBase - 1 =>
        Len(items) = Len(typed) /\ \A i \in DOMAIN typed : Converted(items[i], typed[i])
=============================================================================
