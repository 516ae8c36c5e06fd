--------------------------- MODULE PBFTLockProofs ---------------------------
(***************************************************************************)
(* Proofs about PBFTLock for any number of miners, any set of seals and    *)
(* any chain length: nodes never vote twice at a height, and their chains  *)
(* agree.                                                                  *)
(***************************************************************************)
EXTENDS PBFTLock, FiniteSetTheorems, SequenceTheorems, TLAPS

(* Blocks are sequences, and prefixes of blocks are blocks. *)

LEMMA BlockIsSeq ==
    ASSUME NEW b
    PROVE  b \in Block <=> b \in Seq(Seal) /\ Len(b) \in 0..MaxNumber
<1>1. ASSUME b \in Block PROVE b \in Seq(Seal) /\ Len(b) \in 0..MaxNumber
  <2>1. PICK n \in 0..MaxNumber : b \in [1..n -> Seal]  BY <1>1 DEF Block
  <2>2. n \in Nat  BY <2>1, MaxNumberAssumption
  <2>3. b \in Seq(Seal) /\ Len(b) = n  BY <2>1, <2>2, SMT
  <2> QED  BY <2>1, <2>3
<1>2. ASSUME b \in Seq(Seal), Len(b) \in 0..MaxNumber PROVE b \in Block
  BY <1>2, LenProperties DEF Block
<1> QED  BY <1>1, <1>2

LEMMA Prefix ==
    ASSUME NEW b \in Block, NEW k \in 0..Len(b)
    PROVE  /\ SubSeq(b, 1, k) \in Block
           /\ Len(SubSeq(b, 1, k)) = k
           /\ \A h \in 0..k : SubSeq(SubSeq(b, 1, k), 1, h) = SubSeq(b, 1, h)
<1> DEFINE c == SubSeq(b, 1, k)
<1>1. b \in Seq(Seal) /\ Len(b) \in Nat /\ Len(b) <= MaxNumber /\ k \in Nat
  BY BlockIsSeq, MaxNumberAssumption
<1>2. \A j \in 1..k : b[j] \in Seal  BY <1>1, ElementOfSeq
<1>3. /\ c \in Seq(Seal) /\ Len(c) = k
      /\ \A j \in 1..k : c[j] = b[j]
  BY <1>1, <1>2, SubSeqProperties
<1>4. c \in Block
  <2>1. k \in 0..MaxNumber  BY <1>1, MaxNumberAssumption
  <2>2. c \in Seq(Seal) /\ Len(c) \in 0..MaxNumber  BY <2>1, <1>3
  <2> HIDE DEF c
  <2> QED  BY <2>2, BlockIsSeq
<1>5. ASSUME NEW h \in 0..k PROVE SubSeq(c, 1, h) = SubSeq(b, 1, h)
  <2> DEFINE d == SubSeq(c, 1, h)
             e == SubSeq(b, 1, h)
  <2>1. \A j \in 1..h : c[j] \in Seal /\ b[j] \in Seal /\ c[j] = b[j]
    BY <1>1, <1>2, <1>3
  <2>2. /\ d \in Seq(Seal) /\ Len(d) = h
        /\ \A j \in 1..h : d[j] = c[j]
    BY <2>1, <1>1, SubSeqProperties
  <2>3. /\ e \in Seq(Seal) /\ Len(e) = h
        /\ \A j \in 1..h : e[j] = b[j]
    BY <2>1, <1>1, SubSeqProperties
  <2> QED  BY <2>1, <2>2, <2>3, SeqEqual
<1> QED  BY <1>3, <1>4, <1>5

LEMMA FullPrefix ==
    ASSUME NEW b \in Block
    PROVE  SubSeq(b, 1, Len(b)) = b /\ Len(b) \in 0..MaxNumber
BY BlockIsSeq, SubSeqFull

LEMMA Genesis == <<>> \in Block /\ Len(<<>>) = 0
<1>1. <<>> \in Seq(Seal) /\ Len(<<>>) = 0  BY EmptySeq
<1>2. 0 \in 0..MaxNumber  BY MaxNumberAssumption
<1> QED  BY <1>1, <1>2, BlockIsSeq

(* Quorums. *)

LEMMA NodeFinite == IsFiniteSet(Node) /\ Cardinality(Node) = N
BY NAssumption, FS_Interval DEF Node

\* Two quorums have a node in common: f is a third of the nodes, rounded down.
LEMMA QuorumsMeet ==
    ASSUME NEW V, NEW b, NEW c, Chosen(V, b), Chosen(V, c)
    PROVE  \E i \in Node : <<i, b>> \in V /\ <<i, c>> \in V
<1> DEFINE B == Voters(V, b)
           C == Voters(V, c)
<1>1. B \subseteq Node /\ C \subseteq Node  BY DEF Voters
<1>2. /\ IsFiniteSet(B) /\ IsFiniteSet(C) /\ IsFiniteSet(B \cup C)
      /\ Cardinality(B \cup C) <= Cardinality(Node)
  BY <1>1, NodeFinite, FS_Subset, FS_Union
<1>3. Cardinality(B \cup C) = Cardinality(B) + Cardinality(C) - Cardinality(B \cap C)
  BY <1>2, FS_Union
<1>4. F \in Nat /\ 2 * F < N  BY NAssumption DEF F
<1>5. /\ Cardinality(B) \in Nat /\ Cardinality(C) \in Nat
      /\ IsFiniteSet(B \cap C) /\ Cardinality(B \cap C) \in Nat
  BY <1>2, FS_CardinalityType, FS_Subset
<1>6. Cardinality(B) >= N - F /\ Cardinality(C) >= N - F  BY DEF Chosen, MinValidNodes
<1>7. Cardinality(B \cap C) # 0
  BY <1>2, <1>3, <1>4, <1>5, <1>6, NodeFinite, NAssumption
<1>8. B \cap C # {}  BY <1>7, FS_EmptySet
<1> QED  BY <1>8 DEF Voters

\* More votes never take a quorum away.
LEMMA ChosenMonotone ==
    ASSUME NEW V, NEW W, V \subseteq W, NEW b, Chosen(V, b)
    PROVE  Chosen(W, b)
<1>1. Voters(V, b) \subseteq Voters(W, b) /\ Voters(W, b) \subseteq Node  BY DEF Voters
<1>2. IsFiniteSet(Voters(W, b))  BY <1>1, NodeFinite, FS_Subset
<1>3. /\ Cardinality(Voters(V, b)) <= Cardinality(Voters(W, b))
      /\ Cardinality(Voters(V, b)) \in Nat /\ Cardinality(Voters(W, b)) \in Nat
  BY <1>1, <1>2, FS_Subset, FS_CardinalityType
<1>4. N - F \in Int  BY NAssumption DEF F
<1> QED  BY <1>3, <1>4 DEF Chosen, MinValidNodes

-----------------------------------------------------------------------------
(* Types *)

LEMMA ExtendsLength ==
    ASSUME NEW b \in Block, NEW c \in Block, Extends(b, c)
    PROVE  Len(b) = Len(c) + 1 /\ Len(c) \in Nat /\ SubSeq(b, 1, Len(c)) = c
BY BlockIsSeq DEF Extends

LEMMA TypeStep == TypeOK /\ [Next]_vars => TypeOK'
<1> SUFFICES ASSUME TypeOK, [Next]_vars PROVE TypeOK'
  OBVIOUS
<1>1. ASSUME NEW i \in Node, NEW b \in Block, Vote(i, b) PROVE TypeOK'
  BY <1>1 DEF TypeOK, Vote
<1>2. ASSUME NEW i \in Node, NEW b \in {v[2] : v \in votes}, Save(i, b) PROVE TypeOK'
  <2>1. b \in Block  BY DEF TypeOK
  <2> QED  BY <1>2, <2>1 DEF TypeOK, Save
<1>3. ASSUME NEW i \in Node, NEW j \in Node, Learn(i, j) PROVE TypeOK'
  <2> DEFINE b == SubSeq(chain[j], 1, Len(chain[i]) + 1)
  <2>1. chain[i] \in Block /\ chain[j] \in Block  BY DEF TypeOK
  <2>2. Len(chain[i]) \in Nat /\ Len(chain[j]) \in Nat  BY <2>1, FullPrefix, MaxNumberAssumption
  <2>3. Len(chain[i]) + 1 \in 0..Len(chain[j])  BY <1>3, <2>2 DEF Learn
  <2>4. b \in Block  BY <2>1, <2>3, Prefix
  <2> QED  BY <1>3, <2>4 DEF TypeOK, Learn
<1>4. CASE UNCHANGED vars  BY <1>4 DEF TypeOK, vars
<1> QED  BY <1>1, <1>2, <1>3, <1>4 DEF Next

\* The lock, the votes and the chains stay in their types: no step of a node
\* names a block or a voter that does not exist.
THEOREM TypeInvariant == Spec => []TypeOK
<1>1. Init => TypeOK
  BY Genesis DEF Init, TypeOK
<1> QED  BY <1>1, TypeStep, PTL DEF Spec

-----------------------------------------------------------------------------
(* One vote per height *)

\* Every vote of a node is its lock or below it.
VotesUnderLock ==
    \A i \in Node, b \in Block : <<i, b>> \in votes =>
        Len(b) > 0 /\ (Len(b) < Len(lock[i]) \/ b = lock[i])

LEMMA VotesUnderLockStep == TypeOK /\ VotesUnderLock /\ [Next]_vars => VotesUnderLock'
<1> SUFFICES ASSUME TypeOK, VotesUnderLock, [Next]_vars PROVE VotesUnderLock'
  OBVIOUS
<1>1. ASSUME NEW i \in Node, NEW b \in Block, Vote(i, b) PROVE VotesUnderLock'
  <2> SUFFICES ASSUME NEW j \in Node, NEW c \in Block, <<j, c>> \in votes'
               PROVE  Len(c) > 0 /\ (Len(c) < Len(lock'[j]) \/ c = lock'[j])
    BY DEF VotesUnderLock
  <2>1. lock[i] \in Block /\ lock' = [lock EXCEPT ![i] = b] /\ lock'[i] = b
    BY <1>1 DEF TypeOK, Vote
  <2>2. Len(b) \in Nat /\ Len(c) \in Nat /\ Len(lock[i]) \in Nat
    BY <2>1, FullPrefix, MaxNumberAssumption
  <2>3. CASE j # i
    <3>1. lock'[j] = lock[j]  BY <2>1, <2>3 DEF TypeOK
    <3>2. <<j, c>> \in votes  BY <1>1, <2>3 DEF Vote
    <3> QED  BY <3>1, <3>2 DEF VotesUnderLock
  <2>4. CASE j = i /\ c = b
    BY <1>1, <2>1, <2>2, <2>4 DEF Vote, CanVote
  <2>5. CASE j = i /\ c # b
    <3>1. <<i, c>> \in votes  BY <1>1, <2>5 DEF Vote
    <3>2. Len(c) > 0 /\ (Len(c) < Len(lock[i]) \/ c = lock[i])
      BY <3>1 DEF VotesUnderLock
    <3> QED  BY <1>1, <2>1, <2>2, <2>5, <3>2 DEF Vote, CanVote
  <2> QED  BY <2>3, <2>4, <2>5
<1>2. ASSUME NEW i \in Node, NEW b, Save(i, b) PROVE VotesUnderLock'
  BY <1>2 DEF VotesUnderLock, Save
<1>3. ASSUME NEW i \in Node, NEW j \in Node, Learn(i, j) PROVE VotesUnderLock'
  BY <1>3 DEF VotesUnderLock, Learn
<1>4. CASE UNCHANGED vars  BY <1>4 DEF VotesUnderLock, vars
<1> QED  BY <1>1, <1>2, <1>3, <1>4 DEF Next

LEMMA VotesUnderLockInit == Init => VotesUnderLock
BY DEF Init, VotesUnderLock

\* Two votes of one node never cross: only a vote at the height of the lock can
\* be repeated, and it is for the lock itself.
LEMMA OneVoteStep ==
    TypeOK /\ VotesUnderLock /\ OneVotePerHeight /\ [Next]_vars => OneVotePerHeight'
<1> SUFFICES ASSUME TypeOK, VotesUnderLock, OneVotePerHeight, [Next]_vars
             PROVE  OneVotePerHeight'
  OBVIOUS
<1>1. ASSUME NEW i \in Node, NEW b \in Block, Vote(i, b) PROVE OneVotePerHeight'
  <2>1. ASSUME NEW c \in Block, <<i, c>> \in votes, Len(c) = Len(b) PROVE c = b
    <3>1. lock[i] \in Block  BY DEF TypeOK
    <3>2. Len(b) \in Nat /\ Len(c) \in Nat /\ Len(lock[i]) \in Nat
      BY <3>1, FullPrefix, MaxNumberAssumption
    <3>3. Len(c) < Len(lock[i]) \/ c = lock[i]  BY <2>1 DEF VotesUnderLock
    <3> QED  BY <1>1, <2>1, <3>2, <3>3 DEF Vote, CanVote
  <2>2. SUFFICES ASSUME NEW v \in votes', NEW w \in votes', v[1] = w[1], Len(v[2]) = Len(w[2])
                 PROVE  v[2] = w[2]
    BY DEF OneVotePerHeight
  <2>3. votes \subseteq Node \X Block  BY DEF TypeOK
  <2>4. votes' = votes \cup {<<i, b>>}  BY <1>1 DEF Vote
  <2>5. CASE v \in votes /\ w \in votes  BY <2>2, <2>5 DEF OneVotePerHeight
  <2>6. CASE v \in votes /\ w = <<i, b>>
    <3>1. v[2] \in Block /\ v = <<i, v[2]>>  BY <2>2, <2>3, <2>6
    <3> QED  BY <2>1, <2>2, <2>6, <3>1
  <2>7. CASE w \in votes /\ v = <<i, b>>
    <3>1. w[2] \in Block /\ w = <<i, w[2]>>  BY <2>2, <2>3, <2>7
    <3> QED  BY <2>1, <2>2, <2>7, <3>1
  <2>8. CASE v = <<i, b>> /\ w = <<i, b>>  BY <2>8
  <2> QED  BY <2>2, <2>4, <2>5, <2>6, <2>7, <2>8
<1>2. ASSUME NEW i \in Node, NEW b, Save(i, b) PROVE OneVotePerHeight'
  BY <1>2 DEF OneVotePerHeight, Save
<1>3. ASSUME NEW i \in Node, NEW j \in Node, Learn(i, j) PROVE OneVotePerHeight'
  BY <1>3 DEF OneVotePerHeight, Learn
<1>4. CASE UNCHANGED vars  BY <1>4 DEF OneVotePerHeight, vars
<1> QED  BY <1>1, <1>2, <1>3, <1>4 DEF Next

\* checkAndCommit locks before it votes and isHashSavedAfterCommit binds the node
\* to its lock: for every number of miners, no node votes for two blocks at one
\* height.
THEOREM OneVoteInvariant == Spec => []OneVotePerHeight
<1>1. Init => OneVotePerHeight  BY DEF Init, OneVotePerHeight
<1> QED  BY <1>1, TypeInvariant, VotesUnderLockInit, VotesUnderLockStep, OneVoteStep, PTL DEF Spec

-----------------------------------------------------------------------------
(* Agreement *)

\* Every block of every chain has been voted for by a quorum.
ChainChosen ==
    \A i \in Node : \A h \in 1..Len(chain[i]) : Chosen(votes, SubSeq(chain[i], 1, h))

LEMMA ChainChosenStep == TypeOK /\ ChainChosen /\ [Next]_vars => ChainChosen'
<1> SUFFICES ASSUME TypeOK, ChainChosen, [Next]_vars PROVE ChainChosen'
  OBVIOUS
<1>1. \A i \in Node : chain[i] \in Block  BY DEF TypeOK
<1>2. ASSUME NEW i \in Node, NEW b \in Block, NEW V, votes \subseteq V, CanSave(i, b, V),
             votes' = V, chain' = [chain EXCEPT ![i] = b]
      PROVE  ChainChosen'
  <2> SUFFICES ASSUME NEW j \in Node, NEW h \in 1..Len(chain'[j])
               PROVE  Chosen(V, SubSeq(chain'[j], 1, h))
    BY <1>2 DEF ChainChosen
  <2>1. CASE j # i
    <3>1. chain'[j] = chain[j]  BY <1>2, <2>1 DEF TypeOK
    <3>2. Chosen(votes, SubSeq(chain[j], 1, h))  BY <3>1 DEF ChainChosen
    <3> QED  BY <1>2, <3>1, <3>2, ChosenMonotone
  <2>2. CASE j = i
    <3>1. chain'[j] = b  BY <1>2, <2>2 DEF TypeOK
    <3>2. /\ Len(b) = Len(chain[i]) + 1 /\ Len(chain[i]) \in Nat
          /\ SubSeq(b, 1, Len(chain[i])) = chain[i]
      BY <1>1, <1>2, ExtendsLength DEF CanSave
    <3>3. CASE h = Len(b)
      BY <1>2, <3>1, <3>3, FullPrefix DEF CanSave
    <3>4. CASE h \in 1..Len(chain[i])
      <4>1. SubSeq(chain[i], 1, h) = SubSeq(b, 1, h)  BY <3>2, <3>4, Prefix
      <4>2. Chosen(votes, SubSeq(chain[i], 1, h))  BY <3>4 DEF ChainChosen
      <4> QED  BY <1>2, <3>1, <4>1, <4>2, ChosenMonotone
    <3> QED  BY <3>1, <3>2, <3>3, <3>4
  <2> QED  BY <2>1, <2>2
<1>3. ASSUME NEW i \in Node, NEW b \in Block, Vote(i, b) PROVE ChainChosen'
  <2>1. votes \subseteq votes'  BY <1>3 DEF Vote
  <2>2. CASE UNCHANGED chain
    BY <2>1, <2>2, ChosenMonotone DEF ChainChosen
  <2>3. CASE CanSave(i, b, votes') /\ chain' = [chain EXCEPT ![i] = b]
    BY <1>2, <2>1, <2>3
  <2> QED  BY <1>3, <2>2, <2>3 DEF Vote
<1>4. ASSUME NEW i \in Node, NEW b \in {v[2] : v \in votes}, Save(i, b) PROVE ChainChosen'
  <2>1. b \in Block  BY DEF TypeOK
  <2> QED  BY <1>2, <1>4, <2>1 DEF Save
<1>5. ASSUME NEW i \in Node, NEW j \in Node, Learn(i, j) PROVE ChainChosen'
  <2> DEFINE k == Len(chain[i]) + 1
             b == SubSeq(chain[j], 1, k)
  <2>1. Len(chain[i]) \in Nat /\ Len(chain[j]) \in Nat  BY <1>1, FullPrefix, MaxNumberAssumption
  <2>2. k \in 1..Len(chain[j])  BY <1>5, <2>1 DEF Learn
  <2>3. b \in Block /\ Len(b) = k  BY <1>1, <2>2, Prefix
  <2>4. Chosen(votes, b)  BY <2>2 DEF ChainChosen
  <2>5. Extends(b, chain[i]) /\ chain' = [chain EXCEPT ![i] = b] /\ votes' = votes
    BY <1>5 DEF Learn
  <2> HIDE DEF b
  <2> QED  BY <1>2, <2>3, <2>4, <2>5 DEF CanSave
<1>6. CASE UNCHANGED vars  BY <1>6 DEF ChainChosen, vars
<1> QED  BY <1>3, <1>4, <1>5, <1>6 DEF Next

LEMMA ChainChosenInit == Init => ChainChosen
<1> SUFFICES ASSUME Init, NEW i \in Node PROVE 1..Len(chain[i]) = {}
  BY DEF ChainChosen
<1> QED  BY Genesis DEF Init

LEMMA ChosenAgree == TypeOK /\ OneVotePerHeight /\ ChainChosen => Agreement
<1> SUFFICES ASSUME TypeOK, OneVotePerHeight, ChainChosen,
                    NEW i \in Node, NEW j \in Node, NEW h \in 1..MaxNumber,
                    h <= Len(chain[i]), h <= Len(chain[j])
             PROVE  SubSeq(chain[i], 1, h) = SubSeq(chain[j], 1, h)
  BY DEF Agreement
<1> DEFINE b == SubSeq(chain[i], 1, h)
           c == SubSeq(chain[j], 1, h)
<1>1. chain[i] \in Block /\ chain[j] \in Block  BY DEF TypeOK
<1>2. h \in 1..Len(chain[i]) /\ h \in 1..Len(chain[j])
  BY <1>1, FullPrefix, MaxNumberAssumption
<1>3. Len(b) = h /\ Len(c) = h  BY <1>1, <1>2, Prefix
<1>4. Chosen(votes, b) /\ Chosen(votes, c)  BY <1>2 DEF ChainChosen
<1> HIDE DEF b, c
<1>5. PICK n \in Node : <<n, b>> \in votes /\ <<n, c>> \in votes  BY <1>4, QuorumsMeet
<1>6. b = c  BY <1>3, <1>5 DEF OneVotePerHeight
<1> QED  BY <1>6 DEF b, c

\* For every number of miners and every chain length, two chains are never in
\* conflict: a saved block has a quorum of votes, two quorums share a node, and
\* that node has one vote at the height.
THEOREM AgreementInvariant == Spec => []Agreement
BY TypeInvariant, OneVoteInvariant, ChainChosenInit, ChainChosenStep, ChosenAgree, PTL DEF Spec
=============================================================================
