---------------------------- MODULE TxPoolProofs ----------------------------
(***************************************************************************)
(* Proofs about TxPool.  The facts about the nonces of the chain are       *)
(* stated for any chain c first; the inductive invariant PoolInv then says *)
(* in which states of the sealer and of the two committing threads the     *)
(* transactions in preparation are known to be new.                        *)
(***************************************************************************)
EXTENDS TxPool, FiniteSetTheorems, TLAPS

TxChain == Seq(SUBSET Tx)

\* KeysOf for any chain.
Span(c, a, b) == UNION {Keys(c[i]) : i \in (a..b) \cap (1..Len(c))}

\* Some block of a..b has a transaction with the nonce k.
Spent(c, k, a, b) == \E i \in 1..Len(c) : a <= i /\ i <= b /\ \E t \in c[i] : k = NonceKey[t]

\* The block limit of t is in order for the block after number n.
LimitOk(n, t) == n < BlockLimit[t] /\ BlockLimit[t] <= n + MaxBlockLimit

Limits(c) == \A i \in 1..Len(c) : \A t \in c[i] : LimitOk(i - 1, t)

\* NoReplay for any chain.
Unrepeated(c) ==
    \A i, j \in 1..Len(c) : \A t \in c[i], u \in c[j] :
        NonceKey[t] = NonceKey[u] /\ i <= j =>
            \/ i = j /\ (t = u \/ NonceKey[t] \in Span(c, 1, i - MaxBlockLimit - 2))
            \/ i + MaxBlockLimit + 1 < j /\ t # u

\* What a block needs that goes on top of the chain c: its transactions are within
\* their block limits, and the last MaxBlockLimit + 1 blocks do not have their nonces.
Fresh(c, txs) ==
    \A t \in txs : /\ LimitOk(Len(c), t)
                   /\ NonceKey[t] \notin Span(c, FirstBlock(Len(c)), Len(c))

\* A nonce that was never spent is in one transaction at most.
Once(c, txs) ==
    \A t, u \in txs : NonceKey[t] = NonceKey[u] /\ NonceKey[t] \notin Span(c, 1, Len(c)) => t = u

-----------------------------------------------------------------------------
(* The nonces of a chain *)

LEMMA FirstBlockIs ==
    ASSUME NEW n \in Nat
    PROVE  /\ FirstBlock(n) \in Nat /\ FirstBlock(n) <= n
           /\ n <= MaxBlockLimit => FirstBlock(n) = 0
           /\ n > MaxBlockLimit => FirstBlock(n) = n - MaxBlockLimit
BY LimitAssumption DEF FirstBlock

LEMMA SpanIs ==
    ASSUME NEW c \in TxChain, NEW a \in Int, NEW b \in Int, NEW k
    PROVE  k \in Span(c, a, b) <=> Spent(c, k, a, b)
BY DEF Span, Spent, Keys, TxChain

LEMMA AppendIs ==
    ASSUME NEW c \in TxChain, NEW txs \in SUBSET Tx
    PROVE  /\ Append(c, txs) \in TxChain /\ Len(Append(c, txs)) = Len(c) + 1 /\ Len(c) \in Nat
           /\ \A i \in 1..Len(c) : Append(c, txs)[i] = c[i]
           /\ Append(c, txs)[Len(c) + 1] = txs
BY DEF TxChain

LEMMA AppendSpan ==
    ASSUME NEW c \in TxChain, NEW txs \in SUBSET Tx
    PROVE  /\ \A a, b \in Int : b <= Len(c) => Span(Append(c, txs), a, b) = Span(c, a, b)
           /\ Span(Append(c, txs), 1, Len(c) + 1) = Span(c, 1, Len(c)) \cup Keys(txs)
<1> DEFINE d == Append(c, txs)
<1>1. /\ d \in TxChain /\ Len(d) = Len(c) + 1 /\ Len(c) \in Nat
      /\ \A i \in 1..Len(c) : d[i] = c[i]
      /\ d[Len(c) + 1] = txs
  BY AppendIs
<1> HIDE DEF d
<1>2. ASSUME NEW a \in Int, NEW b \in Int, b <= Len(c) PROVE Span(d, a, b) = Span(c, a, b)
  <2>1. ASSUME NEW k PROVE k \in Span(d, a, b) <=> k \in Span(c, a, b)
    BY <1>1, <1>2, SpanIs DEF Spent
  <2> QED  BY <2>1
<1>3. Span(d, 1, Len(c) + 1) = Span(c, 1, Len(c)) \cup Keys(txs)
  <2>1. ASSUME NEW k PROVE k \in Span(d, 1, Len(c) + 1) <=> k \in Span(c, 1, Len(c)) \/ k \in Keys(txs)
    <3>1. k \in Span(d, 1, Len(c) + 1) <=> \E i \in 1..(Len(c) + 1) : \E t \in d[i] : k = NonceKey[t]
      BY <1>1, SpanIs DEF Spent
    <3>2. k \in Span(c, 1, Len(c)) <=> \E i \in 1..Len(c) : \E t \in c[i] : k = NonceKey[t]
      BY <1>1, SpanIs DEF Spent
    <3>3. k \in Keys(txs) <=> \E t \in txs : k = NonceKey[t]  BY DEF Keys
    <3> QED  BY <1>1, <3>1, <3>2, <3>3
  <2> QED  BY <2>1
<1> QED  BY <1>2, <1>3 DEF d

\* A fresh block keeps the chain free of repetitions.
LEMMA AppendFresh ==
    ASSUME NEW c \in TxChain, NEW txs \in SUBSET Tx,
           Limits(c), Unrepeated(c), Fresh(c, txs), Once(c, txs)
    PROVE  Limits(Append(c, txs)) /\ Unrepeated(Append(c, txs))
<1> DEFINE d == Append(c, txs)
           n == Len(c)
           M == MaxBlockLimit
<1>1. /\ d \in TxChain /\ Len(d) = n + 1 /\ n \in Nat
      /\ \A i \in 1..n : d[i] = c[i]
      /\ d[n + 1] = txs
  BY AppendIs
<1>2. \A a, b \in Int : b <= n => Span(d, a, b) = Span(c, a, b)  BY AppendSpan
<1>3. M \in Nat  BY LimitAssumption
<1>t. \A i \in 1..n : c[i] \in SUBSET Tx  BY DEF TxChain
<1>b. \A t \in Tx : BlockLimit[t] \in Nat  BY TxAssumption
<1>4. ASSUME NEW i \in 1..n, NEW t \in c[i], NEW u \in txs, NonceKey[t] = NonceKey[u]
      PROVE  i + M + 1 < n + 1 /\ t # u
  <2>1. NonceKey[u] \notin Span(c, FirstBlock(n), n) /\ LimitOk(n, u)  BY DEF Fresh
  <2>2. /\ FirstBlock(n) \in Nat
        /\ n <= M => FirstBlock(n) = 0
        /\ n > M => FirstBlock(n) = n - M
    BY <1>1, FirstBlockIs, Zenon
  <2>3. ~(FirstBlock(n) <= i)  BY <1>1, <1>4, <2>1, <2>2, SpanIs DEF Spent
  <2>4. n > M /\ i < n - M  BY <1>1, <1>3, <2>2, <2>3
  <2>5. LimitOk(i - 1, t)  BY DEF Limits
  <2>6. BlockLimit[t] \in Nat /\ BlockLimit[u] \in Nat  BY <1>t, <1>b
  <2>7. BlockLimit[t] # BlockLimit[u]  BY <1>1, <1>3, <2>1, <2>4, <2>5, <2>6 DEF LimitOk
  <2> QED  BY <1>1, <1>3, <2>4, <2>7
<1>5. ASSUME NEW t \in txs, NEW u \in txs, NonceKey[t] = NonceKey[u], t # u
      PROVE  NonceKey[t] \in Span(c, 1, n + 1 - M - 2)
  <2>1. NonceKey[t] \in Span(c, 1, n)  BY <1>5 DEF Once
  <2>2. PICK i \in 1..n : \E v \in c[i] : NonceKey[t] = NonceKey[v]  BY <1>1, <2>1, SpanIs DEF Spent
  <2>3. PICK v \in c[i] : NonceKey[t] = NonceKey[v]  BY <2>2
  <2>4. i + M + 1 < n + 1  BY <1>4, <2>3
  <2> QED  BY <1>1, <1>3, <2>3, <2>4, SpanIs DEF Spent
<1>6. Limits(d)
  <2> HIDE DEF d
  <2>1. ASSUME NEW i \in 1..(n + 1), NEW t \in d[i] PROVE LimitOk(i - 1, t)
    <3>1. CASE i = n + 1  BY <1>1, <3>1 DEF Fresh
    <3>2. CASE i \in 1..n  BY <1>1, <3>2 DEF Limits
    <3> QED  BY <1>1, <3>1, <3>2
  <2> QED  BY <1>1, <2>1 DEF Limits
<1>7. ASSUME NEW i \in 1..(n + 1), NEW j \in 1..(n + 1), NEW t \in d[i], NEW u \in d[j],
             NonceKey[t] = NonceKey[u], i <= j
      PROVE  \/ i = j /\ (t = u \/ NonceKey[t] \in Span(d, 1, i - M - 2))
             \/ i + M + 1 < j /\ t # u
  <2> HIDE DEF d
  <2>1. CASE j = n + 1 /\ i = n + 1
    <3>1. n + 1 - M - 2 \in Int /\ n + 1 - M - 2 <= n /\ 1 \in Int  BY <1>1, <1>3
    <3>2. Span(d, 1, n + 1 - M - 2) = Span(c, 1, n + 1 - M - 2)  BY <1>2, <3>1
    <3>3. t \in txs /\ u \in txs  BY <1>1, <2>1
    <3>4. CASE t = u  BY <2>1, <3>4
    <3>5. CASE t # u
      <4>1. NonceKey[t] \in Span(d, 1, n + 1 - M - 2)  BY <1>5, <1>7, <3>2, <3>3, <3>5, Zenon
      <4>2. n + 1 - M - 2 = i - M - 2  BY <1>1, <1>3, <2>1
      <4>3. NonceKey[t] \in Span(d, 1, i - M - 2)  BY <4>1, <4>2, Zenon
      <4> QED  BY <2>1, <4>3
    <3> QED  BY <3>4, <3>5
  <2>2. CASE j = n + 1 /\ i \in 1..n  BY <1>1, <1>4, <1>7, <2>2
  <2>3. CASE j \in 1..n
    <3>1. i \in 1..n /\ d[i] = c[i] /\ d[j] = c[j]  BY <1>1, <1>7, <2>3
    <3>2. i - M - 2 \in Int /\ i - M - 2 <= n /\ 1 \in Int  BY <1>1, <1>3, <3>1
    <3>3. Span(d, 1, i - M - 2) = Span(c, 1, i - M - 2)  BY <1>2, <3>2
    <3> QED  BY <1>7, <2>3, <3>1, <3>3 DEF Unrepeated
  <2> QED  BY <1>1, <1>7, <2>1, <2>2, <2>3
<1> QED  BY <1>1, <1>6, <1>7, Zenon DEF Unrepeated

\* updateCache moves the window [FirstBlock(e), e] to the end of the chain.
LEMMA WindowMoves ==
    ASSUME NEW c \in TxChain, NEW e \in Nat, e <= Len(c), Unrepeated(c)
    PROVE  LET f == FirstBlock(Len(c))
           IN  (Span(c, FirstBlock(e), e) \ Span(c, FirstBlock(e), f - 1))
                   \cup Span(c, IF e + 1 > f THEN e + 1 ELSE f, Len(c))
               = Span(c, f, Len(c))
<1> DEFINE n == Len(c)
           f == FirstBlock(n)
           s == FirstBlock(e)
           g == IF e + 1 > f THEN e + 1 ELSE f
           M == MaxBlockLimit
<1>1. n \in Nat /\ M \in Nat  BY LimitAssumption DEF TxChain
<1>2. f \in Nat /\ s \in Nat /\ g \in Nat /\ s <= f /\ f <= n /\ s <= e /\ e - s <= M
  <2>1. f \in Nat /\ (n <= M => f = 0) /\ (n > M => f = n - M)  BY <1>1, FirstBlockIs, Zenon
  <2>2. s \in Nat /\ (e <= M => s = 0) /\ (e > M => s = e - M)  BY FirstBlockIs, Zenon
  <2> HIDE DEF f, s
  <2> QED  BY <1>1, <2>1, <2>2
<1>g. (g = e + 1 \/ g = f) /\ g >= e + 1 /\ g >= f  BY <1>2
<1> HIDE DEF f, s, g
<1>3. ASSUME NEW k PROVE k \in (Span(c, s, e) \ Span(c, s, f - 1)) \cup Span(c, g, n)
                         <=> k \in Span(c, f, n)
  <2>1. f - 1 \in Int  BY <1>2
  <2>2. /\ k \in Span(c, s, e) <=> Spent(c, k, s, e)
        /\ k \in Span(c, s, f - 1) <=> Spent(c, k, s, f - 1)
        /\ k \in Span(c, g, n) <=> Spent(c, k, g, n)
        /\ k \in Span(c, f, n) <=> Spent(c, k, f, n)
    <3>1. s \in Int /\ e \in Int /\ g \in Int /\ f \in Int /\ n \in Int  BY <1>1, <1>2
    <3> QED  BY <2>1, <3>1, SpanIs, Zenon
  <2>3. ASSUME NEW i \in 1..n, f <= i, i <= e, NEW t \in c[i], k = NonceKey[t]
        PROVE  k \notin Span(c, s, f - 1)
    <3> SUFFICES ASSUME NEW j \in 1..n, s <= j, j <= f - 1, NEW u \in c[j], k = NonceKey[u] PROVE FALSE
      BY <2>2 DEF Spent
    <3>1. j <= i /\ j # i /\ ~(j + M + 1 < i)  BY <1>1, <1>2, <2>3
    <3>2. NonceKey[u] = NonceKey[t]  BY <2>3
    <3> QED  BY <3>1, <3>2, Zenon DEF Unrepeated
  <2>4. ASSUME k \in Span(c, f, n) PROVE k \in (Span(c, s, e) \ Span(c, s, f - 1)) \cup Span(c, g, n)
    <3>1. PICK i \in 1..n : f <= i /\ i <= n /\ \E t \in c[i] : k = NonceKey[t]  BY <2>2, <2>4 DEF Spent
    <3>2. CASE i <= e
      <4>1. k \in Span(c, s, e)  BY <1>2, <2>2, <3>1, <3>2 DEF Spent
      <4>2. k \notin Span(c, s, f - 1)  BY <2>3, <3>1, <3>2
      <4> QED  BY <4>1, <4>2
    <3>3. CASE e < i
      <4>1. g <= i  BY <1>2, <1>g, <3>1, <3>3
      <4> QED  BY <2>2, <3>1, <4>1 DEF Spent
    <3> QED  BY <1>1, <3>1, <3>2, <3>3
  <2>5. ASSUME k \in Span(c, s, e), k \notin Span(c, s, f - 1) PROVE k \in Span(c, f, n)
    <3>1. PICK i \in 1..n : s <= i /\ i <= e /\ \E t \in c[i] : k = NonceKey[t]  BY <2>2, <2>5 DEF Spent
    <3>2. f <= i  BY <1>2, <2>2, <2>5, <3>1 DEF Spent
    <3> QED  BY <2>2, <3>1, <3>2 DEF Spent
  <2>6. ASSUME k \in Span(c, g, n) PROVE k \in Span(c, f, n)
    <3>1. f <= g  BY <1>2, <1>g
    <3>2. PICK i \in 1..n : g <= i /\ i <= n /\ \E t \in c[i] : k = NonceKey[t]  BY <2>2, <2>6 DEF Spent
    <3>3. f <= i  BY <1>2, <3>1, <3>2
    <3> QED  BY <2>2, <3>2, <3>3 DEF Spent
  <2> QED  BY <2>4, <2>5, <2>6
<1> QED  BY <1>3 DEF f, s, g

-----------------------------------------------------------------------------
(* The inductive invariant *)

Nonces == {NonceKey[t] : t \in Tx}
Step == {"done", "ready", "update", "drop", "delete"}
Call == [pc : Step, txs : SUBSET Tx]
Blocks == [number : Nat, txs : SUBSET Tx, sealed : BOOLEAN]

Types ==
    /\ chain \in TxChain /\ number <= MaxNumber
    /\ queue \subseteq Tx /\ dropped \subseteq Tx
    /\ poolNonces \subseteq Nonces /\ chainNonces \subseteq Nonces
    /\ startblk \in Nat /\ endblk \in Nat
    /\ reported \in Nat /\ consNum \in Nat /\ lockHeight \in Nat
    /\ importing \in Tx \cup {None}
    /\ committer \in [Worker -> Call]
    /\ syncing \in BOOLEAN /\ syncBlock \in BOOLEAN
    /\ sealer \in {"top", "report", "reset", "seal", "load", "handle", "retry"}
    /\ sealing \in Blocks /\ proposal \in Blocks

\* import checks the size of the pool before it is alone with it.
Roomy ==
    /\ IsFiniteSet(queue) /\ Cardinality(queue) <= Limit
    /\ importing # None => Cardinality(queue) < Limit

ChainOK == Limits(chain) /\ Unrepeated(chain)

\* The window ends at a block of the chain, the newest one unless a thread has
\* committed a block and not yet reached updateCache.
WindowOK ==
    /\ chainNonces = Span(chain, startblk, endblk)
    /\ startblk = FirstBlock(endblk) /\ endblk <= number
    /\ endblk = number \/ \E w \in Worker : committer[w].pc \in {"ready", "update"}

\* While the engine works on its commit its lock is at the height it works on;
\* while sync does, its state is not Idle.  What dropBlockTrans deletes is spent.
CommitsOK ==
    /\ committer["engine"].pc # "done" => lockHeight = consNum
    /\ committer["sync"].pc # "done" => syncing
    /\ \A w \in Worker : Keys(committer[w].txs) \subseteq Span(chain, 1, number)

HeightsOK ==
    /\ sealing.number <= number + 1 /\ proposal.number <= number + 1
    /\ reported <= number /\ consNum <= number + 1 /\ lockHeight <= number

\* A block in preparation that can still be proposed for the next height was
\* filled when the window ended at the newest block.
SealerOK ==
    /\ sealing.number > number =>
        /\ Fresh(chain, sealing.txs)
        /\ sealer = "load" => \A w \in Worker : committer[w].pc \notin {"ready", "update"}
    /\ proposal.number > number => Fresh(chain, proposal.txs) /\ Once(chain, proposal.txs)

\* The transactions the pool answers for: the queue, and the block in preparation
\* as long as it can be proposed, whether or not they are still in the queue.
Held(c, q, s) == IF s.number > Len(c) THEN q \cup s.txs ELSE q

Covered(c, held, nonces) ==
    \A t \in held :
        NonceKey[t] \notin Span(c, 1, Len(c)) =>
            /\ NonceKey[t] \in nonces
            /\ \A u \in held : NonceKey[u] = NonceKey[t] => u = t

HeldOK == Covered(chain, Held(chain, queue, sealing), poolNonces)

PoolInv == Types /\ Roomy /\ ChainOK /\ WindowOK /\ CommitsOK /\ HeightsOK /\ SealerOK /\ HeldOK

-----------------------------------------------------------------------------
(* What the actions have in common *)

LEMMA NumberNat == Types => number \in Nat /\ number = Len(chain)
BY DEF Types, TxChain, number

LEMMA EmptyBlock == ASSUME NEW n \in Nat PROVE Sealing(n) \in Blocks /\ Sealing(n).number = n /\ Sealing(n).txs = {}
BY DEF Sealing, Blocks

\* The pool only loses transactions.
LEMMA Shrinks ==
    ASSUME Types, Roomy, queue' \subseteq queue, importing' = importing \/ importing' = None
    PROVE  Roomy'
<1>1. IsFiniteSet(queue') /\ Cardinality(queue') <= Cardinality(queue)
  BY FS_Subset, Zenon DEF Roomy
<1>2. Cardinality(queue) \in Nat /\ Cardinality(queue') \in Nat
  BY <1>1, FS_CardinalityType, Zenon DEF Roomy
<1> QED  BY <1>1, <1>2, LimitAssumption DEF Roomy

\* A thread goes on to its next step.
LEMMA NextStep ==
    ASSUME committer \in [Worker -> Call], NEW w \in Worker, NEW p \in Step,
           committer' = [committer EXCEPT ![w].pc = p]
    PROVE  /\ committer' \in [Worker -> Call]
           /\ committer'[w].pc = p
           /\ \A v \in Worker : v # w => committer'[v] = committer[v]
           /\ \A v \in Worker : committer'[v].txs = committer[v].txs
<1>1. committer[w] \in Call  OBVIOUS
<1>2. PICK r : r = [committer[w] EXCEPT !.pc = p]  BY Zenon
<1>3. r \in Call /\ r.pc = p /\ r.txs = committer[w].txs  BY <1>1, <1>2 DEF Call
<1>4. committer' = [committer EXCEPT ![w] = r]  BY <1>2
<1> QED  BY <1>3, <1>4

LEMMA EmptyIsFresh == \A c : Fresh(c, {})
BY DEF Fresh

LEMMA SpanNonces == ASSUME NEW c \in TxChain, NEW a, NEW b PROVE Span(c, a, b) \subseteq Nonces
BY DEF Span, Keys, Nonces, TxChain

LEMMA NextCache ==
    ASSUME Types, ChainOK, WindowOK, UpdateCache(FALSE)
    PROVE  /\ chainNonces' = Span(chain, FirstBlock(number), number)
           /\ startblk' = FirstBlock(number) /\ endblk' = number
           /\ startblk' \in Nat
<1>1. number \in Nat /\ number = Len(chain) /\ chain \in TxChain  BY NumberNat DEF Types
<1>2. FirstBlock(number) \in Nat  BY <1>1, FirstBlockIs
<1>3. \A a, b : KeysOf(a, b) = Span(chain, a, b)  BY <1>1 DEF KeysOf, Span
<1>4. chainNonces' = (chainNonces \ Span(chain, startblk, FirstBlock(number) - 1)) \cup
          Span(chain, IF endblk + 1 > FirstBlock(number) THEN endblk + 1 ELSE FirstBlock(number), number)
  BY <1>3 DEF UpdateCache
<1>5. endblk \in Nat /\ endblk <= Len(chain) /\ Unrepeated(chain)
  BY <1>1 DEF Types, ChainOK, WindowOK
<1>6. chainNonces' = Span(chain, FirstBlock(number), number)
  BY <1>1, <1>4, <1>5, WindowMoves, Zenon DEF WindowOK
<1> QED  BY <1>2, <1>6 DEF UpdateCache

-----------------------------------------------------------------------------
(* One lemma for each action *)

LEMMA ImportVerifyKeeps == ASSUME PoolInv, NEW t \in Tx, NEW policy, ImportVerify(t, policy) PROVE PoolInv'
<1>1. Types'  BY DEF PoolInv, Types, ImportVerify, pool, window, seal, engine, number
<1>2. Roomy'
  <2>1. Cardinality(queue) \in Nat  BY FS_CardinalityType DEF PoolInv, Roomy
  <2>2. ~(Cardinality(queue) >= Limit)  BY DEF ImportVerify, ImportResult
  <2> QED  BY <2>1, <2>2, LimitAssumption DEF PoolInv, Roomy, ImportVerify, pool
<1>3. ChainOK'  BY DEF PoolInv, ChainOK, ImportVerify
<1>4. WindowOK'  BY DEF PoolInv, WindowOK, ImportVerify, window, number
<1>5. CommitsOK'  BY DEF PoolInv, CommitsOK, ImportVerify, engine, number
<1>6. HeightsOK'  BY DEF PoolInv, HeightsOK, ImportVerify, seal, engine, number
<1>7. SealerOK'  BY DEF PoolInv, SealerOK, ImportVerify, seal, number
<1>8. HeldOK'  BY DEF PoolInv, HeldOK, ImportVerify, pool, seal, Covered
<1> QED  BY <1>1, <1>2, <1>3, <1>4, <1>5, <1>6, <1>7, <1>8 DEF PoolInv

LEMMA ImportInsertKeeps == ASSUME PoolInv, ImportInsert PROVE PoolInv'
<1>1. Types'
  <2>1. importing \in Tx /\ NonceKey[importing] \in Nonces  BY DEF PoolInv, Types, ImportInsert, Nonces
  <2>2. queue' \subseteq Tx /\ poolNonces' \subseteq Nonces /\ importing' \in Tx \cup {None}
    BY <2>1 DEF PoolInv, Types, ImportInsert
  <2> QED  BY <2>2, Zenon DEF PoolInv, Types, ImportInsert, window, seal, engine, number
<1>2. Roomy'
  <2>1. CASE queue' = queue  BY <2>1, Shrinks DEF PoolInv, ImportInsert
  <2>2. CASE queue' = queue \cup {importing}
    <3>0. /\ IsFiniteSet(queue') /\ Cardinality(queue) \in Nat
          /\ Cardinality(queue') = IF importing \in queue THEN Cardinality(queue) ELSE Cardinality(queue) + 1
      BY <2>2, FS_AddElement, FS_CardinalityType, Zenon DEF PoolInv, Roomy
    <3>1. IsFiniteSet(queue') /\ Cardinality(queue') <= Cardinality(queue) + 1  BY <3>0
    <3>2. Cardinality(queue) \in Nat /\ Cardinality(queue') \in Nat /\ Cardinality(queue) < Limit
      BY <3>1, FS_CardinalityType DEF PoolInv, Roomy, ImportInsert
    <3>3. importing' = None  BY DEF ImportInsert
    <3> QED  BY <3>1, <3>2, <3>3, LimitAssumption DEF Roomy
  <2> QED  BY <2>1, <2>2 DEF ImportInsert
<1>3. ChainOK'  BY DEF PoolInv, ChainOK, ImportInsert
<1>4. WindowOK'  BY DEF PoolInv, WindowOK, ImportInsert, window, number
<1>5. CommitsOK'  BY DEF PoolInv, CommitsOK, ImportInsert, engine, number
<1>6. HeightsOK'  BY DEF PoolInv, HeightsOK, ImportInsert, seal, engine, number
<1>7. SealerOK'  BY DEF PoolInv, SealerOK, ImportInsert, seal, number
<1>8. HeldOK'  BY DEF PoolInv, Types, Call, Blocks, HeldOK, ImportInsert, seal, Covered, Held
<1> QED  BY <1>1, <1>2, <1>3, <1>4, <1>5, <1>6, <1>7, <1>8 DEF PoolInv

LEMMA DropKeeps == ASSUME PoolInv, NEW t \in Tx, Drop(t) PROVE PoolInv'
<1>1. Types'  BY DEF PoolInv, Types, Drop, window, seal, engine, number
<1>2. Roomy'  BY Shrinks DEF PoolInv, Drop
<1>3. ChainOK'  BY DEF PoolInv, ChainOK, Drop
<1>4. WindowOK'  BY DEF PoolInv, WindowOK, Drop, window, number
<1>5. CommitsOK'  BY DEF PoolInv, CommitsOK, Drop, engine, number
<1>6. HeightsOK'  BY DEF PoolInv, HeightsOK, Drop, seal, engine, number
<1>7. SealerOK'  BY DEF PoolInv, SealerOK, Drop, seal, number
<1>8. HeldOK'  BY DEF PoolInv, Types, Call, Blocks, HeldOK, Drop, seal, Covered, Held
<1> QED  BY <1>1, <1>2, <1>3, <1>4, <1>5, <1>6, <1>7, <1>8 DEF PoolInv

LEMMA SealerTopKeeps == ASSUME PoolInv, SealerTop PROVE PoolInv'
<1>1. Types'
  <2>1. number \in Nat  BY NumberNat DEF PoolInv
  <2>2. reported' \in Nat /\ sealer' \in {"top", "report", "reset", "seal", "load", "handle", "retry"}
    BY <2>1 DEF SealerTop
  <2>3. syncBlock' \in BOOLEAN  BY Zenon DEF SealerTop
  <2> QED  BY <2>2, <2>3, Zenon DEF PoolInv, Types, SealerTop, pool, window, engine, number
<1>2. Roomy'  BY DEF PoolInv, Roomy, SealerTop, pool
<1>3. ChainOK'  BY DEF PoolInv, ChainOK, SealerTop
<1>4. WindowOK'  BY DEF PoolInv, WindowOK, SealerTop, window, number
<1>5. CommitsOK'  BY DEF PoolInv, CommitsOK, SealerTop, engine, number
<1>6. HeightsOK'  BY DEF PoolInv, HeightsOK, SealerTop, engine, number
<1>7. SealerOK'  BY DEF PoolInv, SealerOK, SealerTop, number
<1>8. HeldOK'  BY DEF PoolInv, HeldOK, SealerTop, pool, Covered
<1> QED  BY <1>1, <1>2, <1>3, <1>4, <1>5, <1>6, <1>7, <1>8 DEF PoolInv

LEMMA SealerReportKeeps == ASSUME PoolInv, SealerReport PROVE PoolInv'
<1>1. Types'  BY DEF PoolInv, Types, SealerReport, pool, window, number
<1>2. Roomy'  BY DEF PoolInv, Roomy, SealerReport, pool
<1>3. ChainOK'  BY DEF PoolInv, ChainOK, SealerReport
<1>4. WindowOK'  BY DEF PoolInv, WindowOK, SealerReport, window, number
<1>5. CommitsOK'  BY DEF PoolInv, Types, Call, Blocks, CommitsOK, SealerReport, number, EngineFree
<1>6. HeightsOK'  BY DEF PoolInv, Types, Call, Blocks, HeightsOK, SealerReport, number, EngineFree, TxChain
<1>7. SealerOK'  BY DEF PoolInv, SealerOK, SealerReport, number
<1>8. HeldOK'  BY DEF PoolInv, HeldOK, SealerReport, pool, Covered
<1> QED  BY <1>1, <1>2, <1>3, <1>4, <1>5, <1>6, <1>7, <1>8 DEF PoolInv

LEMMA SealerResetKeeps == ASSUME PoolInv, SealerReset PROVE PoolInv'
<1>1. Types'
  <2>1. sealing' \in Blocks
    <3>1. number + 1 \in Nat  BY NumberNat DEF PoolInv
    <3> QED  BY <3>1, EmptyBlock, Zenon DEF PoolInv, Types, SealerReset, ResetSealing
  <2>2. sealer' \in {"top", "report", "reset", "seal", "load", "handle", "retry"}  BY DEF SealerReset
  <2> QED  BY <2>1, <2>2, Zenon DEF PoolInv, Types, SealerReset, pool, window, engine, number
<1>2. Roomy'  BY DEF PoolInv, Roomy, SealerReset, pool
<1>3. ChainOK'  BY DEF PoolInv, ChainOK, SealerReset
<1>4. WindowOK'  BY DEF PoolInv, WindowOK, SealerReset, window, number
<1>5. CommitsOK'  BY DEF PoolInv, CommitsOK, SealerReset, engine, number
<1>6. HeightsOK'
  <2>1. number \in Nat /\ number + 1 \in Nat  BY NumberNat DEF PoolInv
  <2>2. sealing'.number = number + 1 \/ sealing' = sealing
    BY <2>1, EmptyBlock, Zenon DEF SealerReset, ResetSealing
  <2>3. number' = number /\ UNCHANGED <<proposal, reported, consNum, lockHeight>>
    BY DEF SealerReset, engine, number
  <2> QED  BY <2>1, <2>2, <2>3 DEF PoolInv, HeightsOK
<1>7. SealerOK'
  <2>1. sealing' = sealing \/ sealing'.txs = {}  BY DEF SealerReset, ResetSealing, Sealing
  <2>2. Fresh(chain, {})  BY EmptyIsFresh
  <2> QED  BY <2>1, <2>2, Zenon DEF PoolInv, SealerOK, SealerReset, number
<1>8. HeldOK'  BY DEF PoolInv, Types, Call, Blocks, HeldOK, SealerReset, pool, Covered, Held, ResetSealing, Sealing
<1> QED  BY <1>1, <1>2, <1>3, <1>4, <1>5, <1>6, <1>7, <1>8 DEF PoolInv

LEMMA ShouldSealKeeps == ASSUME PoolInv, ShouldSeal PROVE PoolInv'
<1>1. Types'  BY DEF PoolInv, Types, ShouldSeal, SealerGoesOn, pool, window, engine, number
<1>2. Roomy'  BY DEF PoolInv, Roomy, ShouldSeal, SealerGoesOn, pool
<1>3. ChainOK'  BY DEF PoolInv, ChainOK, ShouldSeal, SealerGoesOn
<1>4. WindowOK'  BY DEF PoolInv, WindowOK, ShouldSeal, SealerGoesOn, window, number
<1>5. CommitsOK'  BY DEF PoolInv, CommitsOK, ShouldSeal, SealerGoesOn, engine, number
<1>6. HeightsOK'  BY DEF PoolInv, HeightsOK, ShouldSeal, SealerGoesOn, engine, number
<1>7. SealerOK'
  <2>1. sealer' = "load" => ~syncing /\ lockHeight # consNum  BY DEF ShouldSeal, SealerGoesOn
  <2>2. sealer' = "load" => \A w \in Worker : committer[w].pc = "done"
    BY <2>1 DEF PoolInv, CommitsOK, Worker
  <2> QED  BY <2>2 DEF PoolInv, SealerOK, ShouldSeal, SealerGoesOn, number
<1>8. HeldOK'  BY DEF PoolInv, HeldOK, ShouldSeal, SealerGoesOn, pool, Covered
<1> QED  BY <1>1, <1>2, <1>3, <1>4, <1>5, <1>6, <1>7, <1>8 DEF PoolInv

LEMMA LoadTransactionsKeeps == ASSUME PoolInv, LoadTransactions PROVE PoolInv'
<1>0. PICK top \in TopTransactions(MaxTxs - Cardinality(sealing.txs), sealing.txs) :
        /\ sealer = "load"
        /\ importing = None
        /\ sealing' = [sealing EXCEPT !.txs = @ \cup top.txs]
        /\ queue' = queue \ top.invalid
        /\ dropped' = dropped \cup top.invalid
        /\ poolNonces' = poolNonces \ Keys(top.invalid)
        /\ sealer' \in {"top", "handle"}
        /\ UNCHANGED <<chain, window, importing, committer, syncing, syncBlock, proposal,
                       reported, engine>>
  BY Zenon DEF LoadTransactions
<1>b. /\ \A t \in top.txs : t \in queue /\ isBlockLimitOrNonceOk(t)
      /\ \A t \in top.invalid : t \in queue /\ ~isBlockLimitOrNonceOk(t)
  BY <1>0 DEF TopTransactions
<1>c. sealing.number > number => chainNonces = Span(chain, FirstBlock(number), number)
  <2>1. sealing.number > number => endblk = number
    BY <1>0, Zenon DEF PoolInv, SealerOK, WindowOK
  <2> QED  BY <2>1, Zenon DEF PoolInv, WindowOK
<1>a. sealing.number > number => \A t \in top.txs :
          LimitOk(Len(chain), t) /\ NonceKey[t] \notin Span(chain, FirstBlock(Len(chain)), Len(chain))
  BY <1>b, <1>c DEF isBlockLimitOrNonceOk, isBlockLimitOk, LimitOk, number
<1>1. Types'  BY DEF PoolInv, Types, Call, Blocks, LoadTransactions, window, engine, number, TopTransactions, TxChain
<1>2. Roomy'  BY Shrinks DEF PoolInv, LoadTransactions
<1>3. ChainOK'  BY DEF PoolInv, ChainOK, LoadTransactions
<1>4. WindowOK'  BY DEF PoolInv, WindowOK, LoadTransactions, window, number
<1>5. CommitsOK'  BY DEF PoolInv, CommitsOK, LoadTransactions, engine, number
<1>6. HeightsOK'  BY DEF PoolInv, HeightsOK, LoadTransactions, engine, number
<1>7. SealerOK'
  <2> SUFFICES ASSUME sealing.number > number PROVE Fresh(chain, sealing.txs \cup top.txs)
    <3>1. sealing'.number = sealing.number /\ sealing'.txs = sealing.txs \cup top.txs
      BY <1>0 DEF PoolInv, Types, Blocks
    <3> QED  BY <1>0, <3>1 DEF PoolInv, SealerOK, number
  <2> QED  BY <1>a DEF PoolInv, SealerOK, Fresh
<1>8. HeldOK'
  <2> DEFINE held == Held(chain, queue, sealing)
             next == Held(chain, queue', sealing')
  <2>1. sealing'.number = sealing.number /\ sealing'.txs = sealing.txs \cup top.txs
    BY <1>0 DEF PoolInv, Types, Blocks
  <2>2. next \subseteq held  BY <1>0, <1>b, <2>1 DEF Held
  <2>3. ASSUME NEW t \in next, t \in top.invalid PROVE FALSE
    <3>1. t \notin queue'  BY <1>0, <2>3
    <3>2. sealing.number > number /\ t \in sealing.txs \cup top.txs  BY <2>1, <2>3, <3>1 DEF Held, number
    <3>3. isBlockLimitOrNonceOk(t)
      <4>1. CASE t \in top.txs  BY <1>b, <4>1
      <4>2. CASE t \in sealing.txs
        <5>1. LimitOk(Len(chain), t) /\ NonceKey[t] \notin chainNonces
          BY <1>c, <3>2, <4>2, Zenon DEF PoolInv, SealerOK, Fresh, number
        <5> QED  BY <5>1 DEF isBlockLimitOrNonceOk, isBlockLimitOk, LimitOk, number
      <4> QED  BY <3>2, <4>1, <4>2
    <3> QED  BY <1>b, <2>3, <3>3
  <2>4. ASSUME NEW t \in next, NonceKey[t] \notin Span(chain, 1, Len(chain))
        PROVE  /\ NonceKey[t] \in poolNonces'
               /\ \A u \in next : NonceKey[u] = NonceKey[t] => u = t
    <3>1. NonceKey[t] \in poolNonces /\ \A u \in held : NonceKey[u] = NonceKey[t] => u = t
      BY <2>2, <2>4 DEF PoolInv, HeldOK, Covered
    <3>2. \A v \in top.invalid : v \in held  BY <1>b DEF Held
    <3>3. NonceKey[t] \notin Keys(top.invalid)  BY <2>3, <3>1, <3>2 DEF Keys
    <3> QED  BY <1>0, <2>2, <3>1, <3>3, Zenon
  <2>5. chain' = chain  BY <1>0
  <2> QED  BY <2>4, <2>5 DEF HeldOK, Covered
<1> QED  BY <1>1, <1>2, <1>3, <1>4, <1>5, <1>6, <1>7, <1>8 DEF PoolInv

LEMMA PackAtIntervalKeeps == ASSUME PoolInv, PackAtInterval PROVE PoolInv'
<1>1. Types'  BY DEF PoolInv, Types, PackAtInterval, pool, window, engine, number
<1>2. Roomy'  BY DEF PoolInv, Roomy, PackAtInterval, pool
<1>3. ChainOK'  BY DEF PoolInv, ChainOK, PackAtInterval
<1>4. WindowOK'  BY DEF PoolInv, WindowOK, PackAtInterval, window, number
<1>5. CommitsOK'  BY DEF PoolInv, CommitsOK, PackAtInterval, engine, number
<1>6. HeightsOK'  BY DEF PoolInv, HeightsOK, PackAtInterval, engine, number
<1>7. SealerOK'  BY DEF PoolInv, SealerOK, PackAtInterval, number
<1>8. HeldOK'  BY DEF PoolInv, HeldOK, PackAtInterval, pool, Covered
<1> QED  BY <1>1, <1>2, <1>3, <1>4, <1>5, <1>6, <1>7, <1>8 DEF PoolInv

LEMMA HandleBlockKeeps == ASSUME PoolInv, HandleBlock PROVE PoolInv'
<1>1. Types'
  <2>1. sealing' \in Blocks /\ proposal' \in Blocks
    BY Zenon DEF PoolInv, Types, Blocks, HandleBlock
  <2>2. sealer' \in {"top", "report", "reset", "seal", "load", "handle", "retry"}  BY DEF HandleBlock
  <2> QED  BY <2>1, <2>2, Zenon DEF PoolInv, Types, HandleBlock, pool, window, engine, number
<1>2. Roomy'  BY DEF PoolInv, Roomy, HandleBlock, pool
<1>3. ChainOK'  BY DEF PoolInv, ChainOK, HandleBlock
<1>4. WindowOK'  BY DEF PoolInv, WindowOK, HandleBlock, window, number
<1>5. CommitsOK'  BY DEF PoolInv, CommitsOK, HandleBlock, engine, number
<1>6. HeightsOK'  BY DEF PoolInv, Types, Call, Blocks, HeightsOK, HandleBlock, engine, number, EngineFree, TxChain
<1>7. SealerOK'
  <2>1. sealing.number > number => Once(chain, sealing.txs)
    BY DEF PoolInv, HeldOK, Covered, Held, Once, number
  <2>2. CASE proposal' = sealing /\ sealing' = [sealing EXCEPT !.sealed = TRUE]
    <3>1. sealing'.number = sealing.number /\ sealing'.txs = sealing.txs /\ sealer' # "load"
      BY <2>2 DEF PoolInv, Types, Blocks, HandleBlock
    <3> QED  BY <2>1, <2>2, <3>1 DEF PoolInv, SealerOK, HandleBlock, number
  <2>3. CASE UNCHANGED <<sealing, proposal>>  BY <2>3 DEF PoolInv, SealerOK, HandleBlock, number
  <2> QED  BY <2>2, <2>3 DEF HandleBlock
<1>8. HeldOK'  BY DEF PoolInv, Types, Call, Blocks, HeldOK, HandleBlock, pool, Covered, Held, EngineFree
<1> QED  BY <1>1, <1>2, <1>3, <1>4, <1>5, <1>6, <1>7, <1>8 DEF PoolInv

LEMMA ResetAfterHandleKeeps == ASSUME PoolInv, ResetAfterHandle PROVE PoolInv'
<1>1. Types'
  <2>1. sealing' \in Blocks
    <3>1. number + 1 \in Nat  BY NumberNat DEF PoolInv
    <3> QED  BY <3>1, EmptyBlock, Zenon DEF ResetAfterHandle
  <2>2. sealer' \in {"top", "report", "reset", "seal", "load", "handle", "retry"}  BY DEF ResetAfterHandle
  <2> QED  BY <2>1, <2>2, Zenon DEF PoolInv, Types, ResetAfterHandle, pool, window, engine, number
<1>2. Roomy'  BY DEF PoolInv, Roomy, ResetAfterHandle, pool
<1>3. ChainOK'  BY DEF PoolInv, ChainOK, ResetAfterHandle
<1>4. WindowOK'  BY DEF PoolInv, WindowOK, ResetAfterHandle, window, number
<1>5. CommitsOK'  BY DEF PoolInv, CommitsOK, ResetAfterHandle, engine, number
<1>6. HeightsOK'  BY DEF PoolInv, Types, Call, Blocks, HeightsOK, ResetAfterHandle, engine, number, Sealing, TxChain
<1>7. SealerOK'
  <2>1. sealing' = sealing \/ sealing'.txs = {}  BY DEF ResetAfterHandle, ResetSealing, Sealing
  <2>2. Fresh(chain, {})  BY EmptyIsFresh
  <2> QED  BY <2>1, <2>2, Zenon DEF PoolInv, SealerOK, ResetAfterHandle, number
<1>8. HeldOK'  BY DEF PoolInv, Types, Call, Blocks, HeldOK, ResetAfterHandle, pool, Covered, Held, Sealing
<1> QED  BY <1>1, <1>2, <1>3, <1>4, <1>5, <1>6, <1>7, <1>8 DEF PoolInv

LEMMA OnViewChangeKeeps == ASSUME PoolInv, OnViewChange, [NoViewChangeBeforeLoad]_vars PROVE PoolInv'
<1>1. Types'
  <2>1. sealing' \in Blocks
    <3>1. number + 1 \in Nat  BY NumberNat DEF PoolInv
    <3> QED  BY <3>1, EmptyBlock, Zenon DEF PoolInv, Types, OnViewChange, ResetSealing
  <2> QED  BY <2>1, Zenon DEF PoolInv, Types, OnViewChange, pool, window, engine, number
<1>2. Roomy'  BY DEF PoolInv, Roomy, OnViewChange, pool
<1>3. ChainOK'  BY DEF PoolInv, ChainOK, OnViewChange
<1>4. WindowOK'  BY DEF PoolInv, WindowOK, OnViewChange, window, number
<1>5. CommitsOK'  BY DEF PoolInv, CommitsOK, OnViewChange, engine, number
<1>6. HeightsOK'
  <2>1. number \in Nat /\ number + 1 \in Nat  BY NumberNat DEF PoolInv
  <2>2. sealing'.number = number + 1 \/ sealing' = sealing
    BY <2>1, EmptyBlock, Zenon DEF OnViewChange, ResetSealing
  <2>3. number' = number /\ UNCHANGED <<proposal, reported, consNum, lockHeight>>
    BY DEF OnViewChange, engine, number
  <2> QED  BY <2>1, <2>2, <2>3 DEF PoolInv, HeightsOK
<1>7. SealerOK'
  <2>1. sealing' = sealing \/ sealing'.txs = {}  BY DEF OnViewChange, ResetSealing, Sealing
  <2>2. Fresh(chain, {})  BY EmptyIsFresh
  <2>3. sealer' # "load"  BY DEF OnViewChange, NoViewChangeBeforeLoad, vars, seal
  <2> QED  BY <2>1, <2>2, <2>3, Zenon DEF PoolInv, SealerOK, OnViewChange, number
<1>8. HeldOK'  BY DEF PoolInv, Types, Call, Blocks, HeldOK, OnViewChange, pool, Covered, Held, ResetSealing, Sealing, NoViewChangeBeforeLoad, EngineFree
<1> QED  BY <1>1, <1>2, <1>3, <1>4, <1>5, <1>6, <1>7, <1>8 DEF PoolInv

LEMMA OnReadyKeeps == ASSUME PoolInv, NEW w \in Worker, OnReady(w) PROVE PoolInv'
<1>1. Types'
  <2>1. committer' \in [Worker -> Call]
    <3>1. "update" \in Step  BY DEF Step
    <3> QED  BY <3>1, NextStep, Zenon DEF PoolInv, Types, OnReady
  <2>2. syncBlock' \in BOOLEAN  BY DEF OnReady
  <2> QED  BY <2>1, <2>2, Zenon DEF PoolInv, Types, OnReady, pool, window, engine, seal, number
<1>2. Roomy'  BY DEF PoolInv, Roomy, OnReady, pool
<1>3. ChainOK'  BY DEF PoolInv, ChainOK, OnReady
<1>4. WindowOK'  BY DEF PoolInv, WindowOK, OnReady, window, number
<1>5. CommitsOK'  BY DEF PoolInv, CommitsOK, OnReady, engine, number
<1>6. HeightsOK'  BY DEF PoolInv, HeightsOK, OnReady, engine, number
<1>7. SealerOK'  BY DEF PoolInv, SealerOK, OnReady, number
<1>8. HeldOK'  BY DEF PoolInv, HeldOK, OnReady, pool, Covered
<1> QED  BY <1>1, <1>2, <1>3, <1>4, <1>5, <1>6, <1>7, <1>8 DEF PoolInv

LEMMA UpdateChainNoncesKeeps == ASSUME PoolInv, NEW w \in Worker, UpdateChainNonces(w) PROVE PoolInv'
<1>1. Types'
  <2>1. committer' \in [Worker -> Call]
    <3>1. "drop" \in Step  BY DEF Step
    <3> QED  BY <3>1, NextStep, Zenon DEF PoolInv, Types, UpdateChainNonces
  <2>2. chainNonces' \subseteq Nonces /\ startblk' \in Nat /\ endblk' \in Nat
    BY NextCache, NumberNat, SpanNonces DEF PoolInv, Types, UpdateChainNonces
  <2> QED  BY <2>1, <2>2, Zenon DEF PoolInv, Types, UpdateChainNonces, pool, seal, engine, number
<1>2. Roomy'  BY DEF PoolInv, Roomy, UpdateChainNonces, pool
<1>3. ChainOK'  BY DEF PoolInv, ChainOK, UpdateChainNonces
<1>4. WindowOK'
  <2>1. /\ chainNonces' = Span(chain, FirstBlock(number), number)
        /\ startblk' = FirstBlock(number) /\ endblk' = number
    BY NextCache, Zenon DEF PoolInv, UpdateChainNonces
  <2>2. chain' = chain /\ number' = number /\ number \in Nat
    BY NumberNat DEF PoolInv, UpdateChainNonces, number
  <2> QED  BY <2>1, <2>2 DEF WindowOK
<1>5. CommitsOK'  BY DEF PoolInv, CommitsOK, UpdateChainNonces, engine, number
<1>6. HeightsOK'  BY DEF PoolInv, HeightsOK, UpdateChainNonces, seal, engine, number
<1>7. SealerOK'  BY DEF PoolInv, SealerOK, UpdateChainNonces, seal, number
<1>8. HeldOK'  BY DEF PoolInv, HeldOK, UpdateChainNonces, pool, seal, Covered
<1> QED  BY <1>1, <1>2, <1>3, <1>4, <1>5, <1>6, <1>7, <1>8 DEF PoolInv

LEMMA DropTransactionsKeeps == ASSUME PoolInv, NEW w \in Worker, DropTransactions(w) PROVE PoolInv'
<1>1. Types'
  <2>1. committer' \in [Worker -> Call]
    <3>1. "delete" \in Step  BY DEF Step
    <3> QED  BY <3>1, NextStep, Zenon DEF PoolInv, Types, DropTransactions
  <2>2. queue' \subseteq Tx  BY DEF PoolInv, Types, DropTransactions
  <2> QED  BY <2>1, <2>2, Zenon DEF PoolInv, Types, DropTransactions, pool, window, engine, seal, number
<1>2. Roomy'  BY Shrinks DEF PoolInv, DropTransactions
<1>3. ChainOK'  BY DEF PoolInv, ChainOK, DropTransactions
<1>4. WindowOK'  BY DEF PoolInv, WindowOK, DropTransactions, window, number
<1>5. CommitsOK'  BY DEF PoolInv, CommitsOK, DropTransactions, engine, number
<1>6. HeightsOK'  BY DEF PoolInv, HeightsOK, DropTransactions, seal, engine, number
<1>7. SealerOK'  BY DEF PoolInv, SealerOK, DropTransactions, seal, number
<1>8. HeldOK'  BY DEF PoolInv, Types, Call, Blocks, HeldOK, DropTransactions, seal, Covered, Held
<1> QED  BY <1>1, <1>2, <1>3, <1>4, <1>5, <1>6, <1>7, <1>8 DEF PoolInv

LEMMA DelPoolNoncesKeeps == ASSUME PoolInv, NEW w \in Worker, DelPoolNonces(w) PROVE PoolInv'
<1>1. Types'
  <2>1. Done \in Call  BY DEF Done, Call, Step
  <2>2. committer' \in [Worker -> Call]  BY <2>1 DEF PoolInv, Types, DelPoolNonces
  <2>3. poolNonces' \subseteq Nonces  BY DEF PoolInv, Types, DelPoolNonces
  <2> QED  BY <2>2, <2>3, Zenon DEF PoolInv, Types, DelPoolNonces, window, engine, seal, number
<1>2. Roomy'  BY DEF PoolInv, Roomy, DelPoolNonces
<1>3. ChainOK'  BY DEF PoolInv, ChainOK, DelPoolNonces
<1>4. WindowOK'  BY DEF PoolInv, WindowOK, DelPoolNonces, window, number
<1>5. CommitsOK'
  <2>1. Done.pc = "done" /\ Keys(Done.txs) = {}  BY DEF Done, Keys
  <2>2. \A v \in Worker : committer'[v] = IF v = w THEN Done ELSE committer[v]
    BY DEF PoolInv, Types, DelPoolNonces
  <2>3. "engine" \in Worker /\ "sync" \in Worker  BY DEF Worker
  <2> QED  BY <2>1, <2>2, <2>3 DEF PoolInv, CommitsOK, DelPoolNonces, engine, number
<1>6. HeightsOK'  BY DEF PoolInv, HeightsOK, DelPoolNonces, seal, engine, number
<1>7. SealerOK'  BY DEF PoolInv, Types, Call, Blocks, SealerOK, DelPoolNonces, seal, number, Done
<1>8. HeldOK'
  <2>1. Keys(committer[w].txs) \subseteq Span(chain, 1, Len(chain))  BY DEF PoolInv, CommitsOK, number
  <2> QED  BY <2>1 DEF PoolInv, HeldOK, Covered, DelPoolNonces, seal
<1> QED  BY <1>1, <1>2, <1>3, <1>4, <1>5, <1>6, <1>7, <1>8 DEF PoolInv

LEMMA SyncStateKeeps == ASSUME PoolInv, SyncState PROVE PoolInv'
<1>1. Types'  BY DEF PoolInv, Types, SyncState, pool, window, seal, engine, number
<1>2. Roomy'  BY DEF PoolInv, Roomy, SyncState, pool
<1>3. ChainOK'  BY DEF PoolInv, ChainOK, SyncState
<1>4. WindowOK'  BY DEF PoolInv, WindowOK, SyncState, window, number
<1>5. CommitsOK'  BY DEF PoolInv, CommitsOK, SyncState, engine, number
<1>6. HeightsOK'  BY DEF PoolInv, HeightsOK, SyncState, seal, engine, number
<1>7. SealerOK'  BY DEF PoolInv, SealerOK, SyncState, seal, number
<1>8. HeldOK'  BY DEF PoolInv, HeldOK, SyncState, pool, seal, Covered
<1> QED  BY <1>1, <1>2, <1>3, <1>4, <1>5, <1>6, <1>7, <1>8 DEF PoolInv

\* A fresh block goes on the chain.  What the sealer prepared is for a height
\* that is taken now.
LEMMA CommitKeeps ==
    ASSUME PoolInv, NEW w \in Worker, NEW txs \in SUBSET Tx, Commit(w, txs),
           w = "engine" => consNum = number + 1, w = "sync" => syncing,
           Fresh(chain, txs), Once(chain, txs)
    PROVE  PoolInv'
<1> DEFINE call == [pc |-> "ready", txs |-> txs]
<1>1. /\ number \in Nat /\ number = Len(chain) /\ chain \in TxChain
      /\ chain' = Append(chain, txs) /\ number < MaxNumber
  BY NumberNat DEF PoolInv, Types, Commit
<1>2. /\ chain' \in TxChain /\ number' = number + 1 /\ number' = Len(chain')
  BY <1>1, AppendIs DEF number
<1>3. Span(chain', 1, number') = Span(chain, 1, number) \cup Keys(txs)
  BY <1>1, <1>2, AppendSpan
<1>4. call \in Call /\ call.pc = "ready" /\ call.txs = txs  BY DEF Call, Step
<1> HIDE DEF call
<1>5. /\ committer' \in [Worker -> Call]
      /\ \A v \in Worker : committer'[v] = IF v = w THEN call ELSE committer[v]
  BY <1>4 DEF PoolInv, Types, Commit, call
<1>6. lockHeight' = IF w = "engine" THEN number + 1 ELSE lockHeight  BY DEF Commit
<1>7. /\ UNCHANGED <<queue, dropped, poolNonces>> /\ UNCHANGED <<chainNonces, startblk, endblk>>
      /\ UNCHANGED <<importing, syncing, syncBlock, sealer, sealing, proposal, reported, consNum>>
  BY DEF Commit, pool, window, seal
<1>8. Types'
  <2>1. lockHeight' \in Nat  BY <1>1, <1>6 DEF PoolInv, Types
  <2>2. number' <= MaxNumber  BY <1>1, <1>2, LimitAssumption
  <2> QED  BY <1>2, <1>5, <1>7, <2>1, <2>2, Zenon DEF PoolInv, Types
<1>9. Roomy'  BY <1>7, Shrinks, Zenon DEF PoolInv
<1>10. ChainOK'  BY <1>1, AppendFresh, Zenon DEF PoolInv, ChainOK
<1>11. WindowOK'
  <2>1. Span(chain', startblk, endblk) = Span(chain, startblk, endblk)
    <3>1. startblk \in Int /\ endblk \in Int /\ endblk <= Len(chain)
      BY <1>1 DEF PoolInv, Types, WindowOK
    <3>2. \A a, b \in Int : b <= Len(chain) => Span(Append(chain, txs), a, b) = Span(chain, a, b)
      BY <1>1, AppendSpan
    <3> QED  BY <1>1, <3>1, <3>2
  <2>2. endblk <= number'  BY <1>1, <1>2 DEF PoolInv, Types, WindowOK
  <2>3. committer'[w].pc \in {"ready", "update"}  BY <1>4, <1>5
  <2>4. chainNonces' = Span(chain', startblk', endblk') /\ startblk' = FirstBlock(endblk')
    BY <1>7, <2>1, Zenon DEF PoolInv, WindowOK
  <2> QED  BY <1>7, <2>2, <2>3, <2>4, Zenon DEF WindowOK
<1>12. CommitsOK'
  <2>1. committer'["engine"].pc # "done" => lockHeight' = consNum'
    BY <1>5, <1>6, <1>7 DEF PoolInv, CommitsOK, Worker
  <2>2. committer'["sync"].pc # "done" => syncing'
    BY <1>5, <1>7, Zenon DEF PoolInv, CommitsOK, Worker
  <2>3. \A v \in Worker : Keys(committer'[v].txs) \subseteq Span(chain', 1, number')
    BY <1>3, <1>4, <1>5 DEF PoolInv, CommitsOK
  <2> QED  BY <2>1, <2>2, <2>3, Zenon DEF CommitsOK
<1>13. /\ number' = number + 1 /\ number \in Nat
       /\ sealing'.number \in Nat /\ sealing'.number <= number + 1
       /\ proposal'.number \in Nat /\ proposal'.number <= number + 1
  <2>1. sealing' = sealing /\ proposal' = proposal  BY <1>7
  <2>2. sealing.number \in Nat /\ proposal.number \in Nat  BY DEF PoolInv, Types, Blocks
  <2>3. sealing.number <= number + 1 /\ proposal.number <= number + 1  BY DEF PoolInv, HeightsOK
  <2> QED  BY <1>1, <1>2, <2>1, <2>2, <2>3, Zenon
<1>14. ~(sealing'.number > number') /\ ~(proposal'.number > number')  BY <1>13
<1>15. HeightsOK' /\ SealerOK'
  <2>1. /\ reported' \in Nat /\ consNum' \in Nat /\ lockHeight \in Nat
        /\ reported' <= number /\ consNum' <= number + 1 /\ lockHeight <= number
    BY <1>7 DEF PoolInv, Types, HeightsOK
  <2>2. HeightsOK'  BY <1>6, <1>13, <2>1 DEF HeightsOK
  <2>3. SealerOK'  BY <1>14, Zenon DEF SealerOK
  <2> QED  BY <2>2, <2>3
<1>16. HeldOK'
  <2>1. Held(chain', queue', sealing') = queue  BY <1>2, <1>7, <1>14, Zenon DEF Held
  <2>2. \A t \in queue : t \in Held(chain, queue, sealing)  BY DEF Held
  <2>3. \A k : k \notin Span(chain', 1, Len(chain')) => k \notin Span(chain, 1, Len(chain))
    BY <1>1, <1>2, <1>3
  <2>4. Covered(chain', queue, poolNonces)  BY <2>2, <2>3, Zenon DEF PoolInv, HeldOK, Covered
  <2> QED  BY <1>7, <2>1, <2>4, Zenon DEF HeldOK
<1> QED  BY <1>8, <1>9, <1>10, <1>11, <1>12, <1>15, <1>16 DEF PoolInv

\* The blocks of the other nodes are fresh.
LEMMA OthersAreFresh ==
    ASSUME Types, NEW txs \in OthersBlocks
    PROVE  txs \in SUBSET Tx /\ Fresh(chain, txs) /\ Once(chain, txs)
<1>1. \A a, b : KeysOf(a, b) = Span(chain, a, b)  BY DEF KeysOf, Span, number
<1>2. CASE txs = {}  BY <1>2 DEF Fresh, Once
<1>3. ASSUME NEW t \in Tx, txs = {t}, isBlockLimitOk(t),
             NonceKey[t] \notin KeysOf(FirstBlock(number), number)
      PROVE  txs \in SUBSET Tx /\ Fresh(chain, txs) /\ Once(chain, txs)
  <2>1. LimitOk(Len(chain), t) /\ NonceKey[t] \notin Span(chain, FirstBlock(Len(chain)), Len(chain))
    BY <1>1, <1>3 DEF isBlockLimitOk, LimitOk, number
  <2> QED  BY <1>3, <2>1 DEF Fresh, Once
<1> QED  BY <1>2, <1>3 DEF OthersBlocks

LEMMA CommitsKeep ==
    ASSUME PoolInv,
           CommitOwn \/ \E txs \in OthersBlocks : CommitOther(txs) \/ CommitDownloaded(txs)
    PROVE  PoolInv'
<1>0. "engine" \in Worker /\ "sync" \in Worker /\ "engine" # "sync"  BY DEF Worker
<1>1. CASE CommitOwn
  <2>1. proposal.txs \in SUBSET Tx /\ proposal.number > number
    BY <1>1, NumberNat, SMTT(30) DEF PoolInv, Types, Blocks, CommitOwn
  <2>2. Fresh(chain, proposal.txs) /\ Once(chain, proposal.txs)  BY <2>1 DEF PoolInv, SealerOK
  <2>3. Commit("engine", proposal.txs) /\ consNum = number + 1  BY <1>1 DEF CommitOwn
  <2> QED  BY <1>0, <2>1, <2>2, <2>3, CommitKeeps, Zenon
<1>2. ASSUME NEW txs \in OthersBlocks, CommitOther(txs) PROVE PoolInv'
  <2>1. txs \in SUBSET Tx /\ Fresh(chain, txs) /\ Once(chain, txs)
    BY OthersAreFresh, Zenon DEF PoolInv
  <2>2. Commit("engine", txs) /\ consNum = number + 1  BY <1>2 DEF CommitOther
  <2> QED  BY <1>0, <2>1, <2>2, CommitKeeps, Zenon
<1>3. ASSUME NEW txs \in OthersBlocks, CommitDownloaded(txs) PROVE PoolInv'
  <2>1. txs \in SUBSET Tx /\ Fresh(chain, txs) /\ Once(chain, txs)
    BY OthersAreFresh, Zenon DEF PoolInv
  <2>2. Commit("sync", txs) /\ syncing  BY <1>3 DEF CommitDownloaded
  <2> QED  BY <1>0, <2>1, <2>2, CommitKeeps, Zenon
<1> QED  BY <1>1, <1>2, <1>3

LEMMA NoCalls ==
    /\ [w \in Worker |-> Done] \in [Worker -> Call]
    /\ \A w \in Worker : [v \in Worker |-> Done][w].pc = "done" /\ Keys([v \in Worker |-> Done][w].txs) = {}
BY DEF Done, Call, Step, Keys

LEMMA RestartKeeps == ASSUME PoolInv, Restart PROVE PoolInv'
<1>1. /\ number \in Nat /\ number = Len(chain) /\ chain \in TxChain /\ chain' = chain /\ number' = number
      /\ number <= MaxNumber
  BY NumberNat DEF PoolInv, Types, Restart, number
<1>2. /\ chainNonces' = Span(chain, FirstBlock(number), number)
      /\ startblk' = FirstBlock(number) /\ endblk' = number /\ FirstBlock(number) \in Nat
  <2>1. FirstBlock(number) \in Nat /\ FirstBlock(number) <= number  BY <1>1, FirstBlockIs
  <2>2. \A a, b : KeysOf(a, b) = Span(chain, a, b)  BY <1>1 DEF KeysOf, Span
  <2>3. chainNonces' = Span(chain, IF 1 > FirstBlock(number) THEN 1 ELSE FirstBlock(number), number)
    BY <2>2 DEF Restart, UpdateCache
  <2>4. Span(chain, 1, number) = Span(chain, 0, number)  BY <1>1 DEF Span
  <2> QED  BY <2>1, <2>3, <2>4, SMTT(30) DEF Restart, UpdateCache
<1>3. /\ queue' = {} /\ dropped' = {} /\ poolNonces' = {} /\ importing' = None
      /\ committer' = [w \in Worker |-> Done] /\ syncing' = FALSE /\ syncBlock' = FALSE
      /\ sealer' = "top" /\ sealing' = Sealing(number + 1) /\ proposal' = Sealing(0)
      /\ reported' = 0 /\ consNum' = number + 1 /\ lockHeight' = lockHeight
  BY DEF Restart
<1>4. number + 1 \in Nat /\ 0 \in Nat  BY <1>1
<1>5. /\ sealing' \in Blocks /\ sealing'.number = number + 1 /\ sealing'.txs = {}
      /\ proposal' \in Blocks /\ proposal'.number = 0 /\ proposal'.txs = {}
  BY <1>3, <1>4, EmptyBlock
<1>6. /\ committer' \in [Worker -> Call]
      /\ \A w \in Worker : committer'[w].pc = "done" /\ Keys(committer'[w].txs) = {}
  BY <1>3, NoCalls
<1>7. Types'
  <2>1. chainNonces' \subseteq Nonces  BY <1>1, <1>2, SpanNonces
  <2>2. /\ startblk' \in Nat /\ endblk' \in Nat /\ reported' \in Nat /\ consNum' \in Nat
        /\ queue' \subseteq Tx /\ dropped' \subseteq Tx /\ poolNonces' \subseteq Nonces
        /\ importing' \in Tx \cup {None} /\ chain' \in TxChain /\ number' <= MaxNumber
    BY <1>1, <1>2, <1>3
  <2>3. syncing' \in BOOLEAN /\ syncBlock' \in BOOLEAN  BY <1>3, Zenon
  <2>4. sealer' \in {"top", "report", "reset", "seal", "load", "handle", "retry"} /\ lockHeight' \in Nat
    BY <1>3 DEF PoolInv, Types
  <2> QED  BY <1>5, <1>6, <2>1, <2>2, <2>3, <2>4, Zenon DEF Types
<1>8. Roomy'  BY <1>3, FS_EmptySet, LimitAssumption DEF Roomy
<1>9. ChainOK'  BY <1>1, Zenon DEF PoolInv, ChainOK
<1>10. WindowOK'  BY <1>1, <1>2 DEF WindowOK
<1>11. CommitsOK'
  <2>1. "engine" \in Worker /\ "sync" \in Worker  BY DEF Worker
  <2>2. \A S : {} \subseteq S  OBVIOUS
  <2> QED  BY <1>6, <2>1, <2>2, Zenon DEF CommitsOK
<1>12. HeightsOK'
  <2>1. /\ number' = number /\ number \in Nat
        /\ sealing'.number = number + 1 /\ proposal'.number = 0
        /\ reported' = 0 /\ consNum' = number + 1 /\ lockHeight' = lockHeight
    BY <1>1, <1>3, <1>5, Zenon
  <2>2. lockHeight <= number  BY DEF PoolInv, HeightsOK
  <2> QED  BY <2>1, <2>2 DEF HeightsOK
<1>13. SealerOK'
  <2>1. ~(proposal'.number > number') /\ sealer' # "load"  BY <1>1, <1>3, <1>5, SMTT(30)
  <2>2. Fresh(chain', sealing'.txs)  BY <1>5, EmptyIsFresh
  <2> QED  BY <2>1, <2>2, Zenon DEF SealerOK
<1>14. HeldOK'
  <2>1. Held(chain', queue', sealing') = {}  BY <1>3, <1>5 DEF Held
  <2> QED  BY <2>1 DEF HeldOK, Covered
<1> QED  BY <1>7, <1>8, <1>9, <1>10, <1>11, <1>12, <1>13, <1>14 DEF PoolInv

LEMMA InitInv == Init => PoolInv
<1> SUFFICES ASSUME Init PROVE PoolInv
  OBVIOUS
<1>1. chain = <<>> /\ number = 0 /\ chain \in TxChain /\ Len(chain) = 0  BY DEF Init, number, TxChain
<1>2. \A a, b : Span(chain, a, b) = {}  BY <1>1 DEF Span
<1>3. FirstBlock(0) = 0  BY FirstBlockIs, LimitAssumption
<1>4. /\ sealing \in Blocks /\ sealing.number = 1 /\ sealing.txs = {}
      /\ proposal \in Blocks /\ proposal.number = 0 /\ proposal.txs = {}
  BY EmptyBlock DEF Init
<1>5. /\ committer \in [Worker -> Call]
      /\ \A w \in Worker : committer[w].pc = "done" /\ Keys(committer[w].txs) = {}
  BY NoCalls DEF Init
<1>6. Types
  <2>1. syncing \in BOOLEAN /\ syncBlock \in BOOLEAN  BY Zenon DEF Init
  <2>2. /\ queue \subseteq Tx /\ dropped \subseteq Tx /\ poolNonces \subseteq Nonces
        /\ chainNonces \subseteq Nonces /\ startblk \in Nat /\ endblk \in Nat /\ reported \in Nat
        /\ consNum \in Nat /\ lockHeight \in Nat /\ importing \in Tx \cup {None} /\ number <= MaxNumber
        /\ sealer \in {"top", "report", "reset", "seal", "load", "handle", "retry"}
    BY <1>1, LimitAssumption DEF Init
  <2> QED  BY <1>1, <1>4, <1>5, <2>1, <2>2, Zenon DEF Types
<1>7. Roomy  BY FS_EmptySet, LimitAssumption DEF Roomy, Init
<1>8. ChainOK  BY <1>1 DEF ChainOK, Limits, Unrepeated
<1>9. WindowOK  BY <1>1, <1>2, <1>3 DEF WindowOK, Init
<1>10. CommitsOK
  <2>1. "engine" \in Worker /\ "sync" \in Worker  BY DEF Worker
  <2>2. \A S : {} \subseteq S  OBVIOUS
  <2> QED  BY <1>5, <2>1, <2>2, Zenon DEF CommitsOK
<1>11. HeightsOK  BY <1>1, <1>4, SMTT(30) DEF HeightsOK, Init
<1>12. SealerOK
  <2>1. ~(proposal.number > number) /\ sealer # "load"  BY <1>1, <1>4 DEF Init
  <2>2. Fresh(chain, sealing.txs)  BY <1>4, EmptyIsFresh
  <2> QED  BY <2>1, <2>2, Zenon DEF SealerOK
<1>13. HeldOK
  <2>1. Held(chain, queue, sealing) = {}  BY <1>4 DEF Held, Init
  <2> QED  BY <2>1 DEF HeldOK, Covered
<1> QED  BY <1>6, <1>7, <1>8, <1>9, <1>10, <1>11, <1>12, <1>13 DEF PoolInv

LEMMA StutterKeeps == ASSUME PoolInv, UNCHANGED vars PROVE PoolInv'
<1> USE DEF PoolInv, number, vars, pool, window, seal, engine
<1>1. Types'  BY DEF Types
<1>2. Roomy' /\ ChainOK'  BY DEF Roomy, ChainOK
<1>3. WindowOK' /\ CommitsOK'  BY DEF WindowOK, CommitsOK
<1>4. HeightsOK' /\ SealerOK' /\ HeldOK'  BY DEF HeightsOK, SealerOK, HeldOK
<1> QED  BY <1>1, <1>2, <1>3, <1>4

LEMMA NextKeeps == ASSUME PoolInv, [Next]_vars, [NoViewChangeBeforeLoad]_vars PROVE PoolInv'
<1>1. CASE Import  BY <1>1, ImportInsertKeeps, ImportVerifyKeeps DEF Import
<1>2. CASE \E t \in Tx : Drop(t)  BY <1>2, DropKeeps
<1>3. CASE SealerStep
  BY <1>3, SealerTopKeeps, SealerReportKeeps, SealerResetKeeps, ShouldSealKeeps,
     LoadTransactionsKeeps, PackAtIntervalKeeps, HandleBlockKeeps, ResetAfterHandleKeeps DEF SealerStep
<1>4. CASE EngineStep  BY <1>4, CommitsKeep, OnViewChangeKeeps DEF EngineStep
<1>5. CASE SyncStep  BY <1>5, CommitsKeep, SyncStateKeeps DEF SyncStep
<1>6. CASE \E w \in Worker : DropBlockTrans(w)
  BY <1>6, OnReadyKeeps, UpdateChainNoncesKeeps, DropTransactionsKeeps, DelPoolNoncesKeeps
     DEF DropBlockTrans
<1>7. CASE Restart  BY <1>7, RestartKeeps
<1>8. CASE UNCHANGED vars  BY <1>8, StutterKeeps
<1> QED  BY <1>1, <1>2, <1>3, <1>4, <1>5, <1>6, <1>7, <1>8 DEF Next

-----------------------------------------------------------------------------
(* The theorems *)

\* Every fact of PoolInv holds as long as no view change resets the block in
\* preparation between shouldSeal and loadTransactions.
THEOREM PoolInvariant == Spec /\ [][NoViewChangeBeforeLoad]_vars => []PoolInv
<1> QED  BY InitInv, NextKeeps, PTL DEF Spec

\* No transaction gets into the chain twice and no nonce is spent twice within the
\* blocks that the chain nonces cover, for any transactions, limits and chain
\* length, any interleaving of the threads and any restarts.
THEOREM NonceSpentOnce == Spec /\ [][NoViewChangeBeforeLoad]_vars => []NoReplay
<1>1. PoolInv => NoReplay
  <2>1. \A a, b : KeysOf(a, b) = Span(chain, a, b)  BY DEF KeysOf, Span, number
  <2>2. PoolInv => Unrepeated(chain)  BY DEF PoolInv, ChainOK
  <2> QED  BY <2>1, <2>2, ZenonT(30) DEF NoReplay, Unrepeated, number
<1> QED  BY <1>1, PoolInvariant, PTL

\* updateCache keeps exactly the nonces of the blocks it says it covers, the pool
\* keeps the nonce of every transaction that is still to be spent, and the pool
\* never exceeds its limit.
THEOREM PoolSound ==
    Spec /\ [][NoViewChangeBeforeLoad]_vars => [](TypeOK /\ WindowIsExact /\ PoolNoncesUnique)
<1>1. PoolInv => TypeOK /\ WindowIsExact /\ PoolNoncesUnique
  <2> SUFFICES ASSUME PoolInv PROVE TypeOK /\ WindowIsExact /\ PoolNoncesUnique
    OBVIOUS
  <2>1. \A a, b : KeysOf(a, b) = Span(chain, a, b)  BY DEF KeysOf, Span, number
  <2>2. TypeOK
    <3>1. number \in Nat /\ number <= MaxNumber  BY NumberNat DEF PoolInv, Types
    <3>2. startblk <= endblk /\ endblk <= number  BY FirstBlockIs DEF PoolInv, Types, WindowOK
    <3>3. {startblk, endblk, reported, consNum, lockHeight} \subseteq 0..MaxNumber + 1
      BY <3>1, <3>2, LimitAssumption DEF PoolInv, Types, HeightsOK
    <3>4. {syncing, syncBlock} \subseteq BOOLEAN  BY Zenon DEF PoolInv, Types
    <3>5. {sealing, proposal} \subseteq [number : Nat, txs : SUBSET Tx, sealed : BOOLEAN]
      BY Zenon DEF PoolInv, Types, Blocks
    <3>6. poolNonces \cup chainNonces \subseteq {NonceKey[t] : t \in Tx}  BY DEF PoolInv, Types, Nonces
    <3>7. Cardinality(queue) <= Limit  BY DEF PoolInv, Roomy
    <3> QED  BY <3>3, <3>4, <3>5, <3>6, <3>7, Zenon DEF PoolInv, Types, TypeOK, TxChain, Call, Step
  <2>3. WindowIsExact  BY <2>1 DEF WindowIsExact, PoolInv, WindowOK
  <2>4. PoolNoncesUnique
    <3>1. \A t \in queue : t \in Held(chain, queue, sealing)  BY DEF Held
    <3> QED  BY <2>1, <3>1, Zenon DEF PoolNoncesUnique, PoolInv, HeldOK, Covered, number
  <2> QED  BY <2>2, <2>3, <2>4
<1> QED  BY <1>1, PoolInvariant, PTL

-----------------------------------------------------------------------------
(* The nonces of the pool are let go *)

\* drop forgets every transaction it has dropped once they are Limit many, and with
\* them why a nonce is still kept.
DroppedFits == Cardinality(dropped) < Limit

\* A thread that has nothing to drop holds no transactions.
IdleIsEmpty == \A w \in Worker : committer[w].pc = "done" => committer[w].txs = {}

Kept(key) ==
    \/ key \in Keys(queue)
    \/ \E t \in dropped : NonceKey[t] = key
    \/ \E w \in Worker : key \in Keys(committer[w].txs)

\* What a step may do with the nonces: it adds that of a pooled transaction, and what
\* it no longer has a reason to keep it deletes.
LEMMA StillKept ==
    ASSUME NoncesReleased,
           poolNonces' \subseteq poolNonces \cup Keys(queue'),
           \A key \in poolNonces : Kept(key) /\ key \in poolNonces' => Kept(key)'
    PROVE  NoncesReleased'
<1> SUFFICES ASSUME NEW key \in poolNonces' PROVE Kept(key)'
  BY DEF NoncesReleased, Kept
<1>1. CASE key \in poolNonces  BY <1>1 DEF NoncesReleased, Kept
<1>2. CASE key \in Keys(queue')  BY <1>2 DEF Kept
<1> QED  BY <1>1, <1>2

LEMMA CommitReleases ==
    ASSUME PoolInv, IdleIsEmpty, NoncesReleased, NEW w \in Worker, NEW txs, Commit(w, txs)
    PROVE  IdleIsEmpty' /\ NoncesReleased'
<1>1. committer[w].txs = {}  BY DEF Commit, IdleIsEmpty
<1>2. committer' = [committer EXCEPT ![w] = [pc |-> "ready", txs |-> txs]] /\ UNCHANGED pool
  BY DEF Commit
<1>3. /\ committer'[w] = [pc |-> "ready", txs |-> txs]
      /\ \A v \in Worker : v # w => committer'[v] = committer[v]
  BY <1>2 DEF PoolInv, Types
<1>4. IdleIsEmpty'
  <2>1. [pc |-> "ready", txs |-> txs].pc = "ready"  OBVIOUS
  <2>2. committer'[w].pc = "ready"  BY <1>3, <2>1, Zenon
  <2> QED  BY <1>3, <2>2, Zenon DEF IdleIsEmpty
<1>5. \A v \in Worker : committer[v].txs # {} => committer'[v] = committer[v]  BY <1>1, <1>3
<1>6. \A key : Kept(key) => Kept(key)'
  <2> SUFFICES ASSUME NEW key, Kept(key) PROVE Kept(key)'
    OBVIOUS
  <2>1. \A S : key \in Keys(S) => S # {}  BY DEF Keys
  <2> QED  BY <1>2, <1>5, <2>1 DEF Kept, pool
<1>7. NoncesReleased'  BY <1>2, <1>6, StillKept DEF pool
<1> QED  BY <1>4, <1>7

LEMMA DropBlockTransReleases ==
    ASSUME PoolInv, IdleIsEmpty, NoncesReleased, NEW w \in Worker, DropBlockTrans(w)
    PROVE  IdleIsEmpty' /\ NoncesReleased'
<1> USE DEF pool
<1>1. CASE \E p \in {"update", "drop", "delete"} :
              /\ committer' = [committer EXCEPT ![w].pc = p]
              /\ UNCHANGED <<dropped, poolNonces>>
              /\ queue' = queue \/ queue' = queue \ committer[w].txs
  <2>1. PICK p \in {"update", "drop", "delete"} :
              /\ committer' = [committer EXCEPT ![w].pc = p]
              /\ UNCHANGED <<dropped, poolNonces>>
              /\ queue' = queue \/ queue' = queue \ committer[w].txs
    BY <1>1
  <2>2. /\ committer'[w].pc = p
        /\ \A v \in Worker : v # w => committer'[v] = committer[v]
        /\ \A v \in Worker : committer'[v].txs = committer[v].txs
    <3>1. p \in Step /\ committer \in [Worker -> Call]  BY DEF Step, PoolInv, Types
    <3> QED  BY <2>1, <3>1, NextStep, Zenon
  <2>3. IdleIsEmpty'  BY <2>2 DEF IdleIsEmpty
  <2>4. \A key : Kept(key) => Kept(key)'
    <3>1. \A key : key \in Keys(queue) => key \in Keys(queue') \/ key \in Keys(committer[w].txs)
      BY <2>1 DEF Keys
    <3> QED  BY <2>1, <2>2, <3>1 DEF Kept
  <2> QED  BY <2>1, <2>3, <2>4, StillKept
<1>2. CASE DelPoolNonces(w)
  <2>1. /\ committer' = [committer EXCEPT ![w] = Done]
        /\ poolNonces' = poolNonces \ Keys(committer[w].txs)
        /\ UNCHANGED <<queue, dropped>>
    BY <1>2 DEF DelPoolNonces
  <2>2. committer'[w] = Done /\ \A v \in Worker : v # w => committer'[v] = committer[v]
    BY <2>1 DEF PoolInv, Types
  <2>3. IdleIsEmpty'
    <3>1. Done.txs = {}  BY DEF Done
    <3> QED  BY <2>2, <3>1, Zenon DEF IdleIsEmpty
  <2>4. \A key \in poolNonces' : Kept(key) => Kept(key)'  BY <2>1, <2>2 DEF Kept
  <2> QED  BY <2>1, <2>3, <2>4, StillKept
<1> QED  BY <1>1, <1>2 DEF DropBlockTrans, OnReady, UpdateChainNonces, DropTransactions

LEMMA NextReleases ==
    ASSUME PoolInv, DroppedFits, IdleIsEmpty, NoncesReleased, [Next]_vars
    PROVE  IdleIsEmpty' /\ NoncesReleased'
<1> USE DEF pool
<1>1. CASE UNCHANGED committer /\ UNCHANGED pool
  BY <1>1 DEF IdleIsEmpty, NoncesReleased
<1>2. CASE ImportInsert
  <2>1. UNCHANGED committer /\ dropped' = dropped  BY <1>2 DEF ImportInsert
  <2>2. queue \subseteq queue' /\ poolNonces' \subseteq poolNonces \cup Keys(queue')
    BY <1>2 DEF ImportInsert, Keys
  <2>3. \A key : Kept(key) => Kept(key)'  BY <2>1, <2>2 DEF Kept, Keys
  <2>4. NoncesReleased'  BY <2>2, <2>3, StillKept
  <2> QED  BY <2>1, <2>4 DEF IdleIsEmpty
<1>3. CASE \E t \in Tx : Drop(t)
  <2>1. PICK t \in Tx : Drop(t)  BY <1>3
  <2>2. /\ UNCHANGED committer /\ poolNonces' = poolNonces
        /\ queue' = queue \ {t} /\ dropped' = dropped \cup {t}
    BY <2>1 DEF Drop, DroppedFits
  <2>3. \A key : Kept(key) => Kept(key)'  BY <2>2 DEF Kept, Keys
  <2>4. NoncesReleased'  BY <2>2, <2>3, StillKept
  <2> QED  BY <2>2, <2>4 DEF IdleIsEmpty
<1>4. CASE LoadTransactions
  <2>1. PICK top : /\ queue' = queue \ top.invalid /\ dropped' = dropped \cup top.invalid
                   /\ poolNonces' = poolNonces \ Keys(top.invalid)
    BY <1>4 DEF LoadTransactions
  <2>2. UNCHANGED committer  BY <1>4 DEF LoadTransactions
  <2>3. \A key \in poolNonces' : Kept(key) => Kept(key)'  BY <2>1, <2>2 DEF Kept, Keys
  <2>4. NoncesReleased'  BY <2>1, <2>3, StillKept
  <2> QED  BY <2>2, <2>4 DEF IdleIsEmpty
<1>5. CASE \E w \in Worker : \E txs : Commit(w, txs)  BY <1>5, CommitReleases
<1>6. CASE \E w \in Worker : DropBlockTrans(w)  BY <1>6, DropBlockTransReleases
<1>7. CASE Restart
  <2>1. poolNonces' = {} /\ committer' = [w \in Worker |-> Done]  BY <1>7 DEF Restart
  <2> QED  BY <2>1 DEF IdleIsEmpty, NoncesReleased, Done
<1>8. CASE Import
  <2>1. CASE \E t \in Tx, policy \in {"Ignore", "Retry"} : ImportVerify(t, policy)
    BY <1>1, <2>1 DEF ImportVerify
  <2> QED  BY <1>2, <1>8, <2>1 DEF Import
<1>9. CASE SealerStep
  <2>1. LoadTransactions \/ (UNCHANGED committer /\ UNCHANGED pool)
    BY <1>9 DEF SealerStep, SealerTop, SealerReport, SealerReset, ShouldSeal, SealerGoesOn,
                PackAtInterval, HandleBlock, ResetAfterHandle
  <2> QED  BY <1>1, <1>4, <2>1
<1>10. CASE EngineStep \/ SyncStep
  <2>1. \/ UNCHANGED committer /\ UNCHANGED pool
        \/ \E w \in Worker : \E txs : Commit(w, txs)
    BY <1>10 DEF EngineStep, SyncStep, OnViewChange, SyncState, CommitOwn, CommitOther,
                 CommitDownloaded, Worker
  <2> QED  BY <1>1, <1>5, <2>1
<1>11. CASE UNCHANGED vars  BY <1>1, <1>11 DEF vars
<1> QED  BY <1>3, <1>6, <1>7, <1>8, <1>9, <1>10, <1>11 DEF Next

\* The pool, its nonces and the window of the chain's nonces agree, for any
\* transactions, limits and interleaving of the threads, as long as fewer than Limit
\* transactions have been dropped (drop forgets them when they are more): a nonce that
\* the pool keeps is that of a pooled or of a dropped transaction, or dropBlockTrans is
\* about to delete it.
THEOREM PoolAgrees ==
    Spec /\ [][NoViewChangeBeforeLoad]_vars /\ []DroppedFits => []NoncesAgree
<1>1. Init => IdleIsEmpty /\ NoncesReleased
  <2> SUFFICES ASSUME Init PROVE IdleIsEmpty /\ NoncesReleased
    OBVIOUS
  <2>1. poolNonces = {} /\ \A w \in Worker : committer[w] = Done  BY DEF Init
  <2>2. Done.txs = {}  BY DEF Done
  <2> QED  BY <2>1, <2>2, Zenon DEF IdleIsEmpty, NoncesReleased
<1>2. PoolInv /\ DroppedFits /\ IdleIsEmpty /\ NoncesReleased /\ [Next]_vars
          => (IdleIsEmpty /\ NoncesReleased)'
  BY NextReleases
<1>3. TypeOK /\ WindowIsExact /\ PoolNoncesUnique /\ NoncesReleased => NoncesAgree
  BY DEF NoncesAgree
<1> QED  BY <1>1, <1>2, <1>3, PoolInvariant, PoolSound, PTL DEF Spec
=============================================================================
