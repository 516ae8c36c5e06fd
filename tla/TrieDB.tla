------------------------------- MODULE TrieDB -------------------------------
\* The Merkle trie of libdevcore: the keys of its nodes, and the trie itself.
EXTENDS Integers, Sequences, TLC

(***************************************************************************)
(* GenericTrieDB of libdevcore over a reference-counted MemoryDB.  A node  *)
(* stands for its RLP and for its hash; a node whose RLP is shorter than a *)
(* hash lies inside its parent, any other one lies in the database and its *)
(* parent holds a reference.  Keys are nibbles and have one length, as in  *)
(* the tries the program opens, whose keys are hashes or addresses: no key *)
(* is then the beginning of another and no branch holds a value.           *)
(***************************************************************************)
CONSTANTS Radix,      \* 16 in the code
          Key,        \* the keys used, sequences over 0 .. Radix - 1
          Value,      \* the values, numbers other than 0
          Big,        \* the values too long to lie in a parent
          HashSize,   \* 32 in the code
          MaxChanges  \* bound on the calls that change the trie

VARIABLES root,       \* m_root
          db,         \* m_main of the MemoryDB: the references counted for each node
          contents,   \* what was inserted and not removed
          changes

trieVars == <<root, db, contents, changes>>

Node(t, k, v, c) == [t |-> t, k |-> k, v |-> v, c |-> c]
Nil == Node("nil", <<>>, 0, <<>>)
Leaf(k, v) == Node("leaf", k, v, <<>>)
Ext(k, c) == Node("ext", k, 0, <<c>>)
Branch(c, v) == Node("branch", <<>>, v, c)
Ref(n) == Node("hash", <<>>, 0, <<n>>)

\* The length of the RLP: a header, half a byte for a nibble, the items.
RECURSIVE Size(_)
Size(n) ==
    LET items[i \in 0 .. Len(n.c)] == IF i = 0 THEN 0 ELSE items[i - 1] + Size(n.c[i]) IN
    CASE n.t = "nil" -> 1
      [] n.t = "hash" -> HashSize + 1
      [] n.t = "leaf" -> 2 + Len(n.k) \div 2 + (IF n.v \in Big THEN HashSize ELSE 1)
      [] OTHER -> 2 + Len(n.k) \div 2 + items[Len(n.c)]

From(s, n) == SubSeq(s, n + 1, Len(s))
Shared(s, t) ==
    LET same == {n \in 0 .. Len(s) : n <= Len(t) /\ \A i \in 1 .. n : s[i] = t[i]}
    IN CHOOSE n \in same : \A m \in same : m <= n
Contains(s, prefix) == Shared(s, prefix) = Len(prefix)

-----------------------------------------------------------------------------
(* MemoryDB: a node whose references are gone stays until purge.           *)

MemoryInsert(d, n) == IF n \in DOMAIN d THEN [d EXCEPT ![n] = @ + 1] ELSE (n :> 1) @@ d
MemoryKill(d, n) == IF n \in DOMAIN d /\ d[n] > 0 THEN [d EXCEPT ![n] = @ - 1] ELSE d

\* The database holds what a reference is looked up for; the assertions behind lookup say so.
Deref(item) == IF item.t = "hash" THEN item.c[1] ELSE item

KillNode(d, n) == IF Size(n) >= HashSize THEN MemoryKill(d, n) ELSE d

\* A change returns the new node, the database behind it and whether there was a change.
Result(n, d, changed) == [n |-> n, db |-> d, changed |-> changed]
StreamNode(r) ==
    IF Size(r.n) < HashSize THEN r ELSE [r EXCEPT !.n = Ref(r.n), !.db = MemoryInsert(r.db, r.n)]

-----------------------------------------------------------------------------
(* insert *)

Place(d, orig, k, v) ==
    Result(IF orig.t = "nil" THEN Leaf(k, v) ELSE [orig EXCEPT !.v = v], KillNode(d, orig), TRUE)

\* [K1 & K2, V] becomes [K1, [K2, V]].
Cleve(d, orig, s) ==
    LET bottom == StreamNode(Result([orig EXCEPT !.k = From(@, s)], KillNode(d, orig), TRUE))
    IN [bottom EXCEPT !.n = Ext(SubSeq(orig.k, 1, s), bottom.n)]

\* [k{i}K, V] becomes a branch with [K, V] at i.
MakeBranch(d, orig) ==
    LET killed == KillNode(d, orig)
        below == IF orig.t = "leaf" \/ Len(orig.k) > 1
                 THEN StreamNode(Result([orig EXCEPT !.k = From(@, 1)], killed, TRUE))
                 ELSE Result(orig.c[1], killed, TRUE)
        none == [i \in 1 .. Radix |-> Nil] IN
    IF orig.k = <<>> THEN Result(Branch(none, orig.v), killed, TRUE)
    ELSE [below EXCEPT !.n = Branch([none EXCEPT ![orig.k[1] + 1] = below.n], 0)]

\* mergeAt, with mergeAtAux where it goes down an item
RECURSIVE MergeAt(_, _, _, _, _)
MergeAtAux(d, item, k, v) == StreamNode(MergeAt(d, Deref(item), k, v, item.t # "hash"))
MergeAt(d, orig, k, v, inLine) ==
    LET killed == IF inLine THEN d ELSE KillNode(d, orig)
        sh == Shared(k, orig.k) IN
    CASE orig.t = "nil" \/ (orig.t = "leaf" /\ orig.k = k) \/ (orig.t = "branch" /\ k = <<>>) ->
            Place(d, orig, k, v)
      [] orig.t = "ext" /\ sh = Len(orig.k) ->
            LET below == MergeAtAux(killed, orig.c[1], From(k, sh), v)
            IN [below EXCEPT !.n = Ext(orig.k, below.n)]
      [] orig.t = "branch" /\ k # <<>> ->
            LET below == MergeAtAux(killed, orig.c[k[1] + 1], From(k, 1), v)
            IN [below EXCEPT !.n = [orig EXCEPT !.c[k[1] + 1] = below.n]]
      [] OTHER ->
            LET split == IF sh > 0 THEN Cleve(d, orig, sh) ELSE MakeBranch(d, orig)
            IN MergeAt(split.db, split.n, k, v, TRUE)

\* The root is looked up by its hash however short it is.
Rooted(d, old, n) == MemoryInsert(IF Size(old) < HashSize THEN MemoryKill(d, old) ELSE d, n)

Insert(k, v) ==
    LET r == MergeAt(db, root, k, v, FALSE) IN
    /\ changes < MaxChanges
    /\ root' = r.n
    /\ db' = Rooted(r.db, root, r.n)
    /\ contents' = (k :> v) @@ contents
    /\ changes' = changes + 1

-----------------------------------------------------------------------------
(* remove *)

IsTwoItemNode(item) == Deref(item).t \in {"leaf", "ext"}

\* [K1, [K2, V]] becomes [K1 & K2, V].
Graft(r) ==
    LET n == Deref(r.n.c[1]) IN
    Result([n EXCEPT !.k = r.n.k \o @], IF r.n.c[1].t = "hash" THEN MemoryKill(r.db, n) ELSE r.db, TRUE)
Grafted(r) == IF IsTwoItemNode(r.n.c[1]) THEN Graft(r) ELSE r

\* The only item in use of a branch; Radix is its value, -1 says there are more.
UniqueInUse(n, except) ==
    LET used == {i \in 0 .. Radix - 1 : i # except /\ n.c[i + 1] # Nil}
                    \cup (IF except # Radix /\ n.v # 0 THEN {Radix} ELSE {})
    IN IF \E i \in used : used = {i} THEN CHOOSE i \in used : TRUE ELSE -1

Merge(n, i) == IF i = Radix THEN Leaf(<<>>, n.v) ELSE Ext(<<i>>, n.c[i + 1])
Merged_NoGraft(r, i) == IF i = -1 THEN r ELSE [r EXCEPT !.n = Merge(r.n, i)]
Merged(r, i) ==
    IF i = -1 THEN r
    ELSE IF i = Radix THEN [r EXCEPT !.n = Merge(r.n, i)]
    ELSE Grafted([r EXCEPT !.n = Merge(r.n, i)])

RECURSIVE DeleteAt(_, _, _)
DeleteAtAux(d, item, k) ==
    IF item = Nil THEN Result(item, d, FALSE)
    ELSE LET r == DeleteAt(d, Deref(item), k) IN IF r.changed THEN StreamNode(r) ELSE r
DeleteAt(d, orig, k) ==
    LET same == Result(orig, d, FALSE) IN
    CASE orig.t = "leaf" -> IF orig.k = k THEN Result(Nil, KillNode(d, orig), TRUE) ELSE same
      [] orig.t = "ext" /\ Contains(k, orig.k) ->
            LET below == DeleteAtAux(d, orig.c[1], From(k, Len(orig.k))) IN
            IF ~below.changed THEN same
            ELSE Grafted(Result(Ext(orig.k, below.n), KillNode(below.db, orig), TRUE))
      [] orig.t = "branch" /\ k = <<>> /\ orig.v # 0 ->
            LET none == Result([orig EXCEPT !.v = 0], KillNode(d, orig), TRUE)
            IN Merged(none, UniqueInUse(orig, Radix))
      [] orig.t = "branch" /\ k # <<>> ->
            LET below == DeleteAtAux(d, orig.c[k[1] + 1], From(k, 1))
                left == [orig EXCEPT !.c[k[1] + 1] = below.n] IN
            IF ~below.changed THEN same
            ELSE Merged(Result(left, KillNode(below.db, orig), TRUE), UniqueInUse(left, -1))
      [] OTHER -> same

Remove(k) ==
    LET r == DeleteAt(db, root, k) IN
    /\ changes < MaxChanges
    /\ root' = r.n
    /\ db' = IF r.changed THEN Rooted(r.db, root, r.n) ELSE db
    /\ contents' = [x \in DOMAIN contents \ {k} |-> contents[x]]
    /\ changes' = changes + 1

\* MemoryDB::purge
Purge ==
    /\ db' = [n \in {m \in DOMAIN db : db[m] > 0} |-> db[n]]
    /\ UNCHANGED <<root, contents, changes>>

-----------------------------------------------------------------------------
(* Reading *)

RECURSIVE AtAux(_, _)
AtAux(here, k) ==
    CASE here.t = "leaf" /\ here.k = k -> here.v
      [] here.t = "ext" /\ Contains(k, here.k) -> AtAux(Deref(here.c[1]), From(k, Len(here.k)))
      [] here.t = "branch" -> IF k = <<>> THEN here.v ELSE AtAux(Deref(here.c[k[1] + 1]), From(k, 1))
      [] OTHER -> 0

\* An iterator is the trail of nodes above its place.  In a branch it goes from its value
\* to the children in order; -1 says that the node is being entered.
Visit(n, key) == [node |-> n, key |-> key, child |-> -1]
IncrementChild(child) == IF child = Radix THEN 0 ELSE IF child = Radix - 1 THEN Radix + 1 ELSE child + 1

RECURSIVE IsEarlierThan(_, _)
IsEarlierThan(s, k) ==
    IF k = <<>> THEN FALSE
    ELSE IF s = <<>> THEN TRUE
    ELSE s[1] < k[1] \/ (s[1] = k[1] /\ IsEarlierThan(Tail(s), Tail(k)))

\* next(_key): k is what is left of the key looked for, empty once the place is behind it.
\* next() does the same with no key.
RECURSIVE Advance(_, _)
RECURSIVE Scan(_, _, _)
Scan(up, b, k) ==
    LET item == IF b.child < Radix THEN b.node.c[b.child + 1] ELSE Nil IN
    IF b.child > Radix THEN Advance(up, <<>>)
    ELSE IF b.child = Radix /\ b.node.v # 0 THEN Append(up, b)
    ELSE IF item # Nil THEN Advance(Append(Append(up, b), Visit(Deref(item), Append(b.key, b.child))), k)
    ELSE Scan(up, [b EXCEPT !.child = IncrementChild(@)], <<>>)
Advance(trail, k) ==
    LET b == trail[Len(trail)]
        up == SubSeq(trail, 1, Len(trail) - 1)
        contained == Contains(k, b.node.k)
        rest == IF contained THEN From(k, Len(b.node.k)) ELSE <<>>
        here == [b EXCEPT !.key = @ \o b.node.k] IN
    IF trail = <<>> THEN <<>>
    ELSE IF b.child # -1 THEN
        (IF b.node.t = "branch" THEN Scan(up, [b EXCEPT !.child = IncrementChild(@)], k) ELSE Advance(up, <<>>))
    ELSE IF b.node.t = "nil" THEN Advance(up, <<>>)
    ELSE IF b.node.t = "branch" THEN
        (IF k = <<>> THEN Scan(up, [b EXCEPT !.child = Radix], k)
         ELSE Scan(up, [b EXCEPT !.child = k[1]], From(k, 1)))
    ELSE IF ~contained /\ ~IsEarlierThan(k, b.node.k) THEN Advance(up, <<>>)
    ELSE IF b.node.t = "ext" THEN Advance(Append(up, Visit(Deref(b.node.c[1]), here.key)), rest)
    ELSE IF rest = <<>> THEN Append(up, [here EXCEPT !.child = 0]) ELSE Advance(up, <<>>)

LowerBound(k) == Advance(<<Visit(root, <<>>)>>, k)
RECURSIVE Iterated(_)
Iterated(trail) ==
    IF trail = <<>> THEN <<>> ELSE <<trail[Len(trail)].key>> \o Iterated(Advance(trail, <<>>))

-----------------------------------------------------------------------------
\* hash256rlp of TrieHash.cpp: the trie of a map, built from all its keys at once.  s are
\* the keys of a subtree, that agree in their first `pre' nibbles.
RECURSIVE Hash256rlp(_, _, _)
Hash256aux(m, s, pre) == LET n == Hash256rlp(m, s, pre) IN IF Size(n) < HashSize THEN n ELSE Ref(n)
Hash256rlp(m, s, pre) ==
    LET first == CHOOSE k \in s : TRUE
        sharedPre == CHOOSE n \in {Shared(first, k) : k \in s} : \A k \in s : n <= Shared(first, k) IN
    IF s = {} THEN Nil
    ELSE IF s = {first} THEN Leaf(From(first, pre), m[first])
    ELSE IF sharedPre > pre THEN Ext(SubSeq(first, pre + 1, sharedPre), Hash256aux(m, s, sharedPre))
    ELSE Branch([i \in 1 .. Radix |-> LET t == {k \in s : Len(k) > pre /\ k[pre + 1] = i - 1}
                                      IN IF t = {} THEN Nil ELSE Hash256aux(m, t, pre + 1)],
                IF \E k \in s : Len(k) = pre THEN m[CHOOSE k \in s : Len(k) = pre] ELSE 0)

\* The paths from n that end at the stored node m.
RECURSIVE Paths(_, _)
Paths(n, m) ==
    LET items[i \in 0 .. Len(n.c)] == IF i = 0 THEN 0 ELSE items[i - 1] + Paths(n.c[i], m) IN
    (IF n.t = "hash" /\ n.c[1] = m THEN 1 ELSE 0) + items[Len(n.c)]

RECURSIVE Stored(_)
Stored(n) == UNION {Stored(n.c[i]) : i \in DOMAIN n.c} \cup (IF n.t = "hash" THEN {n.c[1]} ELSE {})

\* A trie that init() and insertions made, with any contents.
TrieInit ==
    /\ \E keys \in SUBSET Key : contents \in [keys -> Value]
    /\ root = Hash256rlp(contents, DOMAIN contents, 0)
    /\ db = [m \in Stored(Ref(root)) |-> Paths(Ref(root), m)]
    /\ changes = 0

TrieNext == (\E k \in Key : (\E v \in Value : Insert(k, v)) \/ Remove(k)) \/ Purge
TrieSpec == TrieInit /\ [][TrieNext]_trieVars

-----------------------------------------------------------------------------
\* The root says what is in the trie and nothing else: whatever was inserted, overwritten
\* and removed before, it is the root that hash256 computes from the contents alone, so
\* nodes that come to the same state agree on its hash (mergeAt, deleteAt, hash256rlp).
RootOfContents == root = Hash256rlp(contents, DOMAIN contents, 0)

\* A node is counted once for every path that leads to it.  Commit writes the nodes whose
\* count is not zero, so none that the root leads to is lost, and check(true) finds none
\* that is left over, equal subtrees included (killNode, forceInsertNode, leftOvers).
ReferencesCounted ==
    \A m \in DOMAIN db :
        /\ db[m] = Paths(Ref(root), m)
        /\ db[m] > 0 => \A i \in DOMAIN m.c : m.c[i].t = "hash" => m.c[i].c[1] \in DOMAIN db

\* at() finds what was inserted last, an iteration gives the keys in order, and
\* lower_bound the first key that is not smaller, between nodes of every shape
\* (atAux, iterator::next).
ReadsContents ==
    LET inOrder == Iterated(LowerBound(<<>>)) IN
    /\ \A k \in Key : AtAux(root, k) = IF k \in DOMAIN contents THEN contents[k] ELSE 0
    /\ {inOrder[i] : i \in DOMAIN inOrder} = DOMAIN contents
    /\ \A i, j \in DOMAIN inOrder : i < j => IsEarlierThan(inOrder[i], inOrder[j])
    /\ \A k \in Key :
        LET later == {x \in DOMAIN contents : ~IsEarlierThan(x, k)} IN
        IF later = {} THEN LowerBound(k) = <<>>
        ELSE LowerBound(k) # <<>> /\ LET found == LowerBound(k)[Len(LowerBound(k))].key IN
                                     found \in later /\ \A x \in later : ~IsEarlierThan(x, found)

-----------------------------------------------------------------------------
(***************************************************************************)
(* The keys of trie nodes (libdevcore/TrieCommon): views of byte strings   *)
(* as nibbles from an offset on, and the hex-prefix encoding that turns a  *)
(* key with its leaf mark back into bytes.  Three functions of the code    *)
(* encode; a node written by one is read or rebuilt through another.       *)
(***************************************************************************)
CONSTANTS NibbleBase,   \* 16 in the code, at least 4 for the two flags
          MaxBytes      \* bound on the length of a byte string

VARIABLES d1, o1, d2, o2,   \* two views, bytes and offset
          leaf

keyVars == <<d1, o1, d2, o2, leaf>>

Byte == 0 .. NibbleBase * NibbleBase - 1
Nibble(data, i) ==
    IF i % 2 = 1 THEN data[i \div 2 + 1] % NibbleBase ELSE data[i \div 2 + 1] \div NibbleBase
Nibbles(data, begin, end) == [i \in 1 .. end - begin |-> Nibble(data, begin + i - 1)]
\* NibbleSlice(data, offset)
Slice(data, offset) == Nibbles(data, offset, 2 * Len(data))

Flags(isLeaf, odd) == (IF isLeaf THEN 2 ELSE 0) + (IF odd THEN 1 ELSE 0)

\* hexPrefixEncode of a vector that has a nibble in each of its bytes
EncodeVector(hex, isLeaf, begin, end) ==
    LET odd == (end - begin) % 2 = 1
        first == IF odd THEN begin + 1 ELSE begin IN
    <<Flags(isLeaf, odd) * NibbleBase + (IF odd THEN hex[begin + 1] ELSE 0)>>
        \o [j \in 1 .. (end - first) \div 2 |-> hex[first + 2 * j - 1] * NibbleBase + hex[first + 2 * j]]

\* The loop of the other two: d counts nibbles, an odd one goes into the last byte.
Pushed(start, nibbles) ==
    LET ret[i \in 0 .. Len(nibbles)] ==
            IF i = 0 THEN [bytes |-> <<start.byte>>, d |-> start.d]
            ELSE LET r == ret[i - 1]
                     n == nibbles[i] IN
                 IF r.d % 2 = 1 THEN [bytes |-> [r.bytes EXCEPT ![Len(r.bytes)] = @ + n], d |-> r.d + 1]
                 ELSE [bytes |-> Append(r.bytes, n * NibbleBase), d |-> r.d + 1]
    IN ret[Len(nibbles)].bytes
Start(isLeaf, odd) == [byte |-> Flags(isLeaf, odd) * NibbleBase, d |-> IF odd THEN 1 ELSE 2]

\* hexPrefixEncode(_data, _leaf, _beginNibble, _endNibble, _offset): a negative end counts
\* from behind the last nibble
EncodeData(data, isLeaf, beginNibble, endNibble, offset) ==
    LET begin == beginNibble + offset
        end == (IF endNibble < 0 THEN 2 * Len(data) - offset + 1 + endNibble ELSE endNibble) + offset
    IN Pushed(Start(isLeaf, (end - begin) % 2 = 1), Nibbles(data, begin, end))

\* hexPrefixEncode(_d1, _o1, _d2, _o2, _leaf): one key behind the other
EncodeTwo(x, ox, y, oy, isLeaf) ==
    Pushed(Start(isLeaf, (2 * Len(x) - ox + 2 * Len(y) - oy) % 2 = 1), Slice(x, ox) \o Slice(y, oy))

\* keyOf and isLeaf
KeyOf(hpe) == Slice(hpe, IF hpe = <<>> THEN 0 ELSE IF (hpe[1] \div NibbleBase) % 2 = 1 THEN 1 ELSE 2)
IsLeaf(hpe) == (hpe[1] \div NibbleBase) \div 2 % 2 = 1

Bytes == UNION {[1 .. n -> Byte] : n \in 0 .. MaxBytes}
KeyInit ==
    /\ d1 \in Bytes /\ o1 \in 0 .. 2 * Len(d1)
    /\ d2 \in Bytes /\ o2 \in 0 .. 2 * Len(d2)
    /\ leaf \in BOOLEAN
KeyNext == UNCHANGED keyVars
KeySpec == KeyInit /\ [][KeyNext]_keyVars

-----------------------------------------------------------------------------
\* A key that was put together from two views, odd or even, is read back as the nibbles of
\* the first and then of the second, with the leaf mark it was given (keyOf, isLeaf,
\* hexPrefixEncode).
KeysJoin ==
    LET joined == EncodeTwo(d1, o1, d2, o2, leaf) IN
    KeyOf(joined) = Slice(d1, o1) \o Slice(d2, o2) /\ IsLeaf(joined) = leaf

\* The three encoders write the same bytes for the same nibbles: the trie built by calls
\* and the one hash256 builds agree byte for byte (hexPrefixEncode).
EncodersAgree ==
    LET hex == Slice(d1, 0) IN
    \A begin \in 0 .. Len(Slice(d1, o1)), end \in -1 .. Len(Slice(d1, o1)) :
        LET stop == IF end < 0 THEN Len(Slice(d1, o1)) ELSE end IN
        begin <= stop =>
            /\ EncodeData(d1, leaf, begin, end, o1) = EncodeVector(hex, leaf, begin + o1, stop + o1)
            /\ end < 0 => EncodeData(d1, leaf, begin, end, o1) = EncodeTwo(d1, o1 + begin, <<>>, 0, leaf)
=============================================================================
