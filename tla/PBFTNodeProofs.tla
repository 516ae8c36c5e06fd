--------------------------- MODULE PBFTNodeProofs ---------------------------
(***************************************************************************)
(* What the handlers of PBFTEngine do to the state of one node, for any    *)
(* number of miners, any payloads and any bounds: the lemmas on which the  *)
(* proofs about the whole group, in PBFTEngineProofs, rest.                *)
(***************************************************************************)
EXTENDS PBFTEngine, FiniteSetTheorems, TLAPS

(* Arithmetic and counting. *)

LEMMA Quorum == F \in Nat /\ MinValidNodes \in Nat /\ MinValidNodes >= 1 /\ MinValidNodes <= N
BY NAssumption DEF F, MinValidNodes

LEMMA NodeFinite == IsFiniteSet(Node) /\ Cardinality(Node) = N
BY NAssumption, FS_Interval DEF Node

\* A set whose members differ in an index of a node is no larger than the set of
\* those indices.
LEMMA CountByIndex ==
    ASSUME NEW S, NEW T \in SUBSET Node,
           \A r \in S : r.idx \in T,
           \A r, q \in S : r.idx = q.idx => r = q
    PROVE  /\ IsFiniteSet(S) /\ Cardinality(S) \in Nat
           /\ IsFiniteSet(T) /\ Cardinality(T) \in Nat
           /\ Cardinality(S) <= Cardinality(T)
<1> DEFINE f == [r \in S |-> r.idx]
<1>1. f \in [S -> T] /\ \A r, q \in S : f[r] = f[q] => r = q
  OBVIOUS
<1>2. f \in Injection(S, T)
  BY <1>1 DEF Injection, IsInjective
<1>3. IsFiniteSet(T)  BY NodeFinite, FS_Subset
<1> QED  BY <1>2, <1>3, FS_Injection, FS_CardinalityType

LEMMA OneMore ==
    ASSUME NEW S, IsFiniteSet(S), NEW x, NEW T \in SUBSET (S \cup {x})
    PROVE  /\ IsFiniteSet(T) /\ Cardinality(T) \in Nat /\ Cardinality(S) \in Nat
           /\ Cardinality(T) <= Cardinality(S) + 1
<1> DEFINE U == S \cup {x}
<1>1. IsFiniteSet(U) /\ Cardinality(U) = IF x \in S THEN Cardinality(S) ELSE Cardinality(S) + 1
  BY FS_AddElement
<1> HIDE DEF U
<1>2. T \in SUBSET U  BY DEF U
<1>3. IsFiniteSet(T) /\ Cardinality(T) <= Cardinality(U)  BY <1>1, <1>2, FS_Subset
<1>4. Cardinality(S) \in Nat /\ Cardinality(T) \in Nat /\ Cardinality(U) \in Nat
  BY <1>1, <1>3, FS_CardinalityType
<1> QED  BY <1>1, <1>3, <1>4

(* Blocks. *)

LEMMA BlockIsSeq ==
    ASSUME NEW b
    PROVE  b \in Block <=> b \in Seq(Seal) /\ Len(b) \in 0..MaxNumber
<1>1. ASSUME b \in Block PROVE b \in Seq(Seal) /\ Len(b) \in 0..MaxNumber
  <2>1. PICK n \in 0..MaxNumber : b \in [1..n -> Seal]  BY <1>1 DEF Block
  <2>2. n \in Nat  BY <2>1, BoundAssumption
  <2>3. b \in Seq(Seal) /\ Len(b) = n  BY <2>1, <2>2, SMT
  <2> QED  BY <2>1, <2>3
<1>2. ASSUME b \in Seq(Seal), Len(b) \in 0..MaxNumber PROVE b \in Block
  BY <1>2, SMT DEF Block
<1> QED  BY <1>1, <1>2

LEMMA BlockLength == ASSUME NEW b \in Block PROVE Len(b) \in Nat /\ Len(b) <= MaxNumber
BY BlockIsSeq, BoundAssumption

LEMMA Genesis == <<>> \in Block /\ Len(<<>>) = 0
<1>1. <<>> \in Seq(Seal) /\ Len(<<>>) = 0  BY SMT
<1>2. 0 \in 0..MaxNumber  BY BoundAssumption
<1> QED  BY <1>1, <1>2, BlockIsSeq, Zenon

\* Execution changes the last seal only.
LEMMA ExecutedBlock ==
    ASSUME NEW b \in Block, Len(b) > 0
    PROVE  /\ Executed(b) \in Block /\ Len(Executed(b)) = Len(b)
           /\ \A k \in 1..Len(b) : Executed(b)[k] =
                IF k = Len(b) THEN <<b[Len(b)][1], b[Len(b)][2], TRUE>> ELSE b[k]
<1> DEFINE n == Len(b)
           e == <<b[n][1], b[n][2], TRUE>>
<1>1. b \in Seq(Seal) /\ n \in Nat /\ n \in 0..MaxNumber /\ n \in 1..Len(b)
  BY BlockIsSeq, BlockLength
<1>2. b[n] \in Seal  BY <1>1, SMT
<1>3. e \in Seal  BY <1>2, Zenon DEF Seal
<1>4. Executed(b) = [b EXCEPT ![n] = e]  BY DEF Executed
<1>5. /\ Executed(b) \in Seq(Seal) /\ Len(Executed(b)) = n
      /\ \A k \in 1..n : Executed(b)[k] = IF k = n THEN e ELSE b[k]
  <2> HIDE DEF e, n
  <2> QED  BY <1>1, <1>3, <1>4, SMT DEF n
<1> QED  BY <1>1, <1>5, BlockIsSeq, Zenon

LEMMA ExecutedLength ==
    \A b \in Block : Len(b) > 0 => Executed(b) \in Block /\ Len(Executed(b)) = Len(b)
BY ExecutedBlock, Zenon

\* A proposal: a block whose last seal has not been executed.
IsProposal(b) == Len(b) > 0 /\ b[Len(b)][3] = FALSE

\* Two proposals that execute to the same block are the same proposal.
LEMMA ExecutedInjective ==
    ASSUME NEW a \in Block, NEW b \in Block, IsProposal(a), IsProposal(b),
           Executed(a) = Executed(b)
    PROVE  a = b
<1> DEFINE n == Len(a)
<1>1. Len(b) = n /\ n \in Nat /\ n > 0  BY ExecutedBlock, BlockLength, Zenon DEF IsProposal
<1>2. a \in Seq(Seal) /\ b \in Seq(Seal)  BY BlockIsSeq
<1>3. a[n] \in Seal /\ b[n] \in Seal  BY <1>1, <1>2, SMT
<1>4. ASSUME NEW k \in 1..n PROVE a[k] = b[k]
  <2>1. CASE k # n
    <3>1. Executed(a)[k] = a[k] /\ Executed(b)[k] = b[k]  BY <1>1, <2>1, ExecutedBlock, Zenon
    <3> QED  BY <3>1
  <2>2. CASE k = n
    <3>1. /\ Executed(a)[n] = <<a[n][1], a[n][2], TRUE>>
          /\ Executed(b)[n] = <<b[n][1], b[n][2], TRUE>>
      BY <1>1, <2>2, ExecutedBlock, Zenon
    <3>2. a[n][1] = b[n][1] /\ a[n][2] = b[n][2]  BY <3>1
    <3>3. a[n][3] = b[n][3]  BY <1>1, Zenon DEF IsProposal
    <3>4. a[n] = <<a[n][1], a[n][2], a[n][3]>> /\ b[n] = <<b[n][1], b[n][2], b[n][3]>>
      BY <1>3 DEF Seal
    <3> QED  BY <2>2, <3>2, <3>3, <3>4
  <2> QED  BY <2>1, <2>2
<1> QED  BY <1>1, <1>2, <1>4, SMT

-----------------------------------------------------------------------------
(* The state of a node, with what its requests have in common *)

\* A PrepareReq carries a proposal; a SignReq or CommitReq an executed block; the
\* height of a request is the number of its block.
Proposals == {r \in Request : r.height = Len(r.block) /\ IsProposal(r.block)}
Ballots == {r \in Request : r.height = Len(r.block)}
ViewChangeReqs == {r \in ViewChangeRequest : r.height = Len(r.block)}

\* What node i signs: its index is in every request it sends.
Messages(i) ==
         [type : {"prepare"}, req : {r \in Proposals : r.idx = i}, dst : {All}]
    \cup [type : {"sign", "commit"}, req : {r \in Ballots : r.idx = i}, dst : {All}]
    \cup [type : {"viewchange"}, req : {r \in ViewChangeReqs : r.idx = i}, dst : 0..N]

WellFormed(i) ==
    [chain : Block, committedPrepare : Proposals \cup {NoReq}, sent : SUBSET Messages(i),
     reported : BOOLEAN, highest : Block, consNum : 0..(MaxNumber + 1),
     view : 0..MaxView, toView : 0..MaxView, leaderFailed : BOOLEAN,
     rawPrepare : Proposals \cup {NoReq}, prepare : Ballots \cup {NoReq},
     futurePrepare : Proposals \cup {NoReq},
     signCache : SUBSET Ballots, commitCache : SUBSET Ballots,
     viewChanges : SUBSET ViewChangeReqs,
     sealing : Block, sealed : BOOLEAN, sealer : {"idle", "seal", "rehandle"},
     onViewChange : BOOLEAN]

\* The height the engine works on follows the highest block it has been told of,
\* and its lock is never above that height, whatever it restarted through.
Heights(s) ==
    /\ s.consNum = IF s.reported THEN Len(s.highest) + 1 ELSE 0
    /\ ~s.reported => s.prepare = NoReq
    /\ Len(s.highest) <= Len(s.chain)
    /\ s.committedPrepare.height <= (IF s.reported THEN Len(s.highest) ELSE Len(s.chain)) + 1
    /\ s.sealer = "rehandle" => s.committedPrepare # NoReq

\* PrepareIsCurrent at one node, and the lock at this height is the raw prepare.
PrepareCurrent(s) ==
    s.prepare # NoReq =>
        /\ s.prepare.view = s.view /\ s.prepare.height = s.consNum
        /\ s.rawPrepare # NoReq /\ s.prepare.block = Executed(s.rawPrepare.block)
        /\ s.committedPrepare.height = s.consNum => s.committedPrepare.block = s.rawPrepare.block
        /\ \A r \in s.signCache \cup s.commitCache : r.block = s.prepare.block => r.view = s.view

\* The signs for b at the node's height and view.
SignsFor(s, b) == {r \in s.signCache : r.block = b /\ r.view = s.view /\ r.height = s.consNum}

LockedOn(s, b) == s.committedPrepare # NoReq /\ Executed(s.committedPrepare.block) = b

\* A quorum of signs at this height and view, for the current prepare or for one
\* that it displaced, means a lock.
QuorumLocks(s) ==
    \A b \in Block : Cardinality(SignsFor(s, b)) >= MinValidNodes => LockedOn(s, b)

\* The same just before checkAndCommit: the prepare may have reached its quorum.
QuorumReady(s) ==
    \A b \in Block : Cardinality(SignsFor(s, b)) >= MinValidNodes =>
        \/ LockedOn(s, b)
        \/ s.prepare # NoReq /\ b = s.prepare.block /\ Cardinality(SignsFor(s, b)) = MinValidNodes

\* A node has one entry for a block in the commit cache.
OneCommitEach(s) == \A r, q \in s.commitCache : SameKey(r, q) => r = q

\* A node has one entry for a view, on a block not below the highest.
OneViewChangeEach(i, s) ==
    /\ \A r, q \in s.viewChanges : r.view = q.view /\ r.idx = q.idx => r = q
    /\ \A r \in s.viewChanges : r.idx # i /\ r.height >= Len(s.highest)

Consistent(i, s) ==
    s \in WellFormed(i) /\ Heights(s) /\ PrepareCurrent(s) /\ OneCommitEach(s) /\ OneViewChangeEach(i, s)

NodeInv(i, s) == Consistent(i, s) /\ QuorumLocks(s)

(* Requests. *)

LEMMA NoReqFields ==
    /\ NoReq.height = -1 /\ NoReq.view = MaxView + 1 /\ NoReq.block = <<>>
    /\ NoReq \notin Request
BY BoundAssumption DEF NoReq, Request

LEMMA BallotFields ==
    ASSUME NEW r \in Ballots
    PROVE  /\ r.height = Len(r.block) /\ r.height \in 1..MaxNumber /\ r.view \in 0..MaxView
           /\ r.idx \in Node /\ r.block \in Block /\ r # NoReq /\ r \in Request
           /\ r = [height |-> r.height, view |-> r.view, idx |-> r.idx, block |-> r.block]
BY NoReqFields DEF Ballots, Request

LEMMA ProposalIsBallot == Proposals \subseteq Ballots /\ \A r \in Proposals : IsProposal(r.block)
BY DEF Proposals, Ballots

LEMMA ReqIsBallot ==
    ASSUME NEW b \in Block, Len(b) > 0, NEW v \in 0..MaxView, NEW i \in Node
    PROVE  /\ Req(b, v, i) \in Ballots
           /\ IsProposal(b) => Req(b, v, i) \in Proposals
           /\ Req(b, v, i).block = b /\ Req(b, v, i).view = v /\ Req(b, v, i).idx = i
           /\ Req(b, v, i).height = Len(b)
<1>1. Len(b) \in 1..MaxNumber  BY BlockLength
<1> QED  BY <1>1 DEF Req, Ballots, Proposals, Request

LEMMA ReqIsViewChange ==
    ASSUME NEW b \in Block, NEW v \in 0..MaxView, NEW i \in Node
    PROVE  Req(b, v, i) \in ViewChangeReqs /\ Req(b, v, i).idx = i
<1>1. Len(b) \in 0..MaxNumber  BY BlockLength
<1> QED  BY <1>1 DEF Req, ViewChangeReqs, ViewChangeRequest

LEMMA SignsFinite ==
    ASSUME NEW i, NEW s \in WellFormed(i), NEW b
    PROVE  /\ IsFiniteSet(SignsFor(s, b)) /\ Cardinality(SignsFor(s, b)) \in Nat
           /\ \A T \in SUBSET SignsFor(s, b) :
                Cardinality(T) \in Nat /\ Cardinality(T) <= Cardinality(SignsFor(s, b))
<1>1. s.signCache \subseteq Ballots  BY DEF WellFormed
<1>2. \A r \in SignsFor(s, b) : r.idx \in Node  BY <1>1, BallotFields DEF SignsFor
<1>3. \A r, q \in SignsFor(s, b) : r.idx = q.idx => r = q
  BY <1>1, BallotFields DEF SignsFor
<1>4. IsFiniteSet(SignsFor(s, b))  BY <1>2, <1>3, CountByIndex, Zenon
<1> QED  BY <1>4, FS_Subset, FS_CardinalityType

\* The signs counted for the prepare are those at its height and view.
LEMMA PrepareSigns ==
    ASSUME NEW i, NEW s \in WellFormed(i), PrepareCurrent(s), s.prepare # NoReq
    PROVE  ForBlock(s.signCache, s.prepare.block) = SignsFor(s, s.prepare.block)
<1>1. s.signCache \subseteq Ballots /\ s.prepare \in Ballots  BY DEF WellFormed
<1>2. \A r \in ForBlock(s.signCache, s.prepare.block) : r.view = s.view /\ r.height = s.consNum
  BY <1>1, BallotFields DEF ForBlock, PrepareCurrent
<1> QED  BY <1>2 DEF ForBlock, SignsFor

LEMMA Fields ==
    ASSUME NEW i, NEW s \in WellFormed(i)
    PROVE  /\ s.chain \in Block /\ s.highest \in Block /\ s.sealing \in Block
           /\ Len(s.chain) \in Nat /\ Len(s.highest) \in Nat /\ Len(s.sealing) \in Nat
           /\ s.consNum \in Nat /\ s.view \in 0..MaxView /\ s.toView \in 0..MaxView
           /\ s.committedPrepare \in Proposals \cup {NoReq} /\ s.rawPrepare \in Proposals \cup {NoReq}
           /\ s.futurePrepare \in Proposals \cup {NoReq} /\ s.prepare \in Ballots \cup {NoReq}
           /\ s.signCache \subseteq Ballots /\ s.commitCache \subseteq Ballots
           /\ s.viewChanges \subseteq ViewChangeReqs
           /\ s.sent \subseteq Messages(i)
           /\ s.committedPrepare.height \in Int /\ s.prepare.height \in Int
<1>1. /\ s.chain \in Block /\ s.highest \in Block /\ s.sealing \in Block
      /\ s.consNum \in Nat /\ s.view \in 0..MaxView /\ s.toView \in 0..MaxView
      /\ s.committedPrepare \in Proposals \cup {NoReq} /\ s.rawPrepare \in Proposals \cup {NoReq}
      /\ s.futurePrepare \in Proposals \cup {NoReq} /\ s.prepare \in Ballots \cup {NoReq}
      /\ s.signCache \subseteq Ballots /\ s.commitCache \subseteq Ballots
      /\ s.viewChanges \subseteq ViewChangeReqs
      /\ s.sent \subseteq Messages(i)
  BY DEF WellFormed
<1>2. \A r \in Ballots \cup {NoReq} : r.height \in Int  BY BallotFields, NoReqFields
<1>3. Proposals \subseteq Ballots  BY ProposalIsBallot
<1> QED  BY <1>1, <1>2, <1>3, BlockLength

-----------------------------------------------------------------------------
(* Steps that only let go of something *)

\* t differs from s in no field that the invariant ties together, except that
\* caches may have lost entries, the prepare may be cleared and the chain grown.
Calmer(s, t) ==
    /\ t.committedPrepare = s.committedPrepare
    /\ Len(t.chain) >= Len(s.chain)
    /\ t.reported = s.reported /\ t.highest = s.highest /\ t.consNum = s.consNum /\ t.view = s.view
    /\ t.prepare = NoReq \/ (t.prepare = s.prepare /\ t.rawPrepare = s.rawPrepare)
    /\ t.signCache \subseteq s.signCache /\ t.commitCache \subseteq s.commitCache
    /\ t.viewChanges \subseteq s.viewChanges
    /\ t.sealer = "rehandle" => s.sealer = "rehandle"

LEMMA CalmerConsistent ==
    ASSUME NEW i, NEW s, Consistent(i, s), NEW t \in WellFormed(i), Calmer(s, t)
    PROVE  Consistent(i, t)
<1>1. Heights(t)
  <2>1. Heights(s)  BY DEF Consistent
  <2>2. /\ Len(s.chain) \in Nat /\ Len(t.chain) \in Nat /\ Len(s.highest) \in Nat
        /\ s.committedPrepare.height \in Int
    BY Fields DEF Consistent
  <2> QED  BY <2>1, <2>2 DEF Heights, Calmer
<1>2. PrepareCurrent(t)  BY DEF Consistent, PrepareCurrent, Calmer
<1>3. OneCommitEach(t)  BY DEF Consistent, OneCommitEach, Calmer
<1>4. OneViewChangeEach(i, t)  BY DEF Consistent, OneViewChangeEach, Calmer
<1> QED  BY <1>1, <1>2, <1>3, <1>4 DEF Consistent

LEMMA CalmerLocks ==
    ASSUME NEW i, NEW s, NodeInv(i, s), NEW t \in WellFormed(i), Calmer(s, t)
    PROVE  NodeInv(i, t)
<1>1. Consistent(i, t)  BY CalmerConsistent DEF NodeInv
<1>2. ASSUME NEW b \in Block, Cardinality(SignsFor(t, b)) >= MinValidNodes PROVE LockedOn(t, b)
  <2>1. SignsFor(t, b) \in SUBSET SignsFor(s, b)  BY DEF SignsFor, Calmer
  <2>2. s \in WellFormed(i)  BY DEF NodeInv, Consistent
  <2>3. Cardinality(SignsFor(s, b)) >= MinValidNodes
    BY <1>2, <2>1, <2>2, SignsFinite, Quorum
  <2> QED  BY <2>3 DEF NodeInv, QuorumLocks, LockedOn, Calmer
<1> QED  BY <1>1, <1>2 DEF NodeInv, QuorumLocks

(* What a step of node i means for PBFTLock. *)

\* A quorum of the requests in the commit cache is for b, which is saved.
SavesBlock(s, t, b) ==
    t.chain = b /\ Extends(b, s.chain) /\ Cardinality(ForBlock(t.commitCache, b)) >= MinValidNodes

VotesFor(i, s, t, b) ==
    /\ Len(b) > Len(LockOf(s)) \/ (Len(b) > 0 /\ b = LockOf(s))
    /\ LockOf(t) = b /\ VotesOf(i, t) = VotesOf(i, s) \cup {<<i, b>>}
    /\ t.chain = s.chain \/ SavesBlock(s, t, b)

KeepsLock(i, s, t) == LockOf(t) = LockOf(s) /\ VotesOf(i, t) = VotesOf(i, s)

LockStep(i, s, t) ==
    \/ KeepsLock(i, s, t) /\ (t.chain = s.chain \/ \E b \in Block : SavesBlock(s, t, b))
    \/ \E b \in Block : VotesFor(i, s, t, b)

\* What the three-phase handlers do to the state s of node i, when the commit
\* requests of "arrived" have been handed to them.
Acts(i, s, t, arrived) ==
    /\ NodeInv(i, t)
    /\ s.sent \subseteq t.sent
    /\ t.view = s.view /\ t.highest = s.highest
    /\ \A r \in t.commitCache \ s.commitCache : r \in Sent(t, "commit") \/ r \in arrived
    /\ t.viewChanges \subseteq s.viewChanges
    /\ LockStep(i, s, t)

\* Steps that do not touch the lock, the commit votes and the chain.
Quiet(s, t) ==
    /\ t.committedPrepare = s.committedPrepare
    /\ t.chain = s.chain
    /\ Sent(t, "commit") = Sent(s, "commit")

LEMMA QuietLocks ==
    ASSUME NEW i, NEW s, NEW t, Quiet(s, t)
    PROVE  KeepsLock(i, s, t) /\ LockStep(i, s, t)
BY DEF Quiet, KeepsLock, LockStep, LockOf, VotesOf

LEMMA CalmerActs ==
    ASSUME NEW i, NEW s, NodeInv(i, s), NEW t \in WellFormed(i), Calmer(s, t),
           s.sent \subseteq t.sent, Quiet(s, t), NEW arrived
    PROVE  Acts(i, s, t, arrived)
BY CalmerLocks, QuietLocks DEF Acts, Calmer

LEMMA SentOther ==
    ASSUME NEW s, NEW m, NEW t, t.sent = s.sent \cup {m}, m.type # "commit"
    PROVE  Sent(t, "commit") = Sent(s, "commit")
BY DEF Sent

LEMMA SentCommit ==
    ASSUME NEW s, NEW t, NEW req, NEW dst, t.sent = s.sent \cup {Msg("commit", req, dst)}
    PROVE  Sent(t, "commit") = Sent(s, "commit") \cup {req}
<1> DEFINE m == Msg("commit", req, dst)
<1>1. m.type = "commit" /\ m.req = req  BY DEF Msg
<1> HIDE DEF m
<1> QED  BY <1>1 DEF Sent, m

\* A quiet step before or after what a handler does, in the same order as in the
\* code: a message sent first, the sealing block reset last.
LEMMA ActsAfter ==
    ASSUME NEW i, NEW s, NEW t, NEW u, NEW arrived,
           s.sent \subseteq t.sent, Quiet(s, t), t.view = s.view, t.highest = s.highest,
           t.commitCache \subseteq s.commitCache, t.viewChanges \subseteq s.viewChanges,
           Acts(i, t, u, arrived)
    PROVE  Acts(i, s, u, arrived)
<1>1. LockStep(i, s, u)
  <2>1. LockStep(i, t, u)  BY DEF Acts
  <2>2. LockOf(t) = LockOf(s) /\ VotesOf(i, t) = VotesOf(i, s) /\ t.chain = s.chain
    BY DEF Quiet, LockOf, VotesOf
  <2> QED  BY <2>1, <2>2 DEF LockStep, KeepsLock, SavesBlock, VotesFor
<1> QED  BY <1>1 DEF Acts

LEMMA ActsBefore ==
    ASSUME NEW i, NEW s, NEW t, NEW u \in WellFormed(i), NEW arrived,
           Acts(i, s, t, arrived),
           u.sent = t.sent, Quiet(t, u), u.commitCache = t.commitCache, Calmer(t, u)
    PROVE  Acts(i, s, u, arrived)
<1>1. NodeInv(i, u)  BY CalmerLocks DEF Acts
<1>2. LockStep(i, s, u)
  <2>1. LockStep(i, s, t)  BY DEF Acts
  <2>2. LockOf(u) = LockOf(t) /\ VotesOf(i, u) = VotesOf(i, t) /\ u.chain = t.chain
    BY DEF Quiet, LockOf, VotesOf
  <2> QED  BY <2>1, <2>2 DEF LockStep, KeepsLock, SavesBlock, VotesFor
<1>3. Sent(u, "commit") = Sent(t, "commit")  BY DEF Quiet
<1> QED  BY <1>1, <1>2, <1>3 DEF Acts, Calmer

-----------------------------------------------------------------------------
(* Committing and saving *)

LEMMA ClearResult ==
    ASSUME NEW i, NEW s \in WellFormed(i)
    PROVE  LET t == ClearAllExceptCommitCache(s)
           IN  /\ t \in WellFormed(i) /\ Calmer(s, t)
               /\ t.sent = s.sent /\ t.commitCache = s.commitCache /\ t.chain = s.chain
               /\ t.prepare = NoReq /\ t.signCache = {} /\ t.viewChanges = {}
<1> DEFINE t == ClearAllExceptCommitCache(s)
<1>1. t \in WellFormed(i)  BY Zenon DEF WellFormed, ClearAllExceptCommitCache
<1>2. /\ t.sent = s.sent /\ t.commitCache = s.commitCache /\ t.chain = s.chain
      /\ t.prepare = NoReq /\ t.signCache = {} /\ t.viewChanges = {}
      /\ t.committedPrepare = s.committedPrepare /\ t.reported = s.reported
      /\ t.highest = s.highest /\ t.consNum = s.consNum /\ t.view = s.view /\ t.sealer = s.sealer
  BY DEF WellFormed, ClearAllExceptCommitCache
<1>3. Len(s.chain) \in Nat  BY Fields
<1> HIDE DEF t
<1>4. Calmer(s, t)  BY <1>2, <1>3 DEF Calmer
<1> QED  BY <1>1, <1>2, <1>4 DEF t

LEMMA GrowResult ==
    ASSUME NEW i, NEW s \in WellFormed(i), NEW b \in Block, Extends(b, s.chain)
    PROVE  LET t == [s EXCEPT !.chain = b]
           IN  /\ t \in WellFormed(i) /\ Calmer(s, t) /\ t.chain = b
               /\ t.sent = s.sent /\ t.commitCache = s.commitCache
               /\ t.viewChanges = s.viewChanges
<1> DEFINE t == [s EXCEPT !.chain = b]
<1>1. t \in WellFormed(i)  BY DEF WellFormed
<1>2. /\ t.chain = b
      /\ t.sent = s.sent /\ t.commitCache = s.commitCache
      /\ t.prepare = s.prepare /\ t.rawPrepare = s.rawPrepare
      /\ t.signCache = s.signCache /\ t.viewChanges = s.viewChanges
      /\ t.committedPrepare = s.committedPrepare /\ t.reported = s.reported
      /\ t.highest = s.highest /\ t.consNum = s.consNum /\ t.view = s.view /\ t.sealer = s.sealer
  BY DEF WellFormed
<1>3. Len(b) >= Len(s.chain)  BY Fields DEF Extends
<1> HIDE DEF t
<1>4. Calmer(s, t)  BY <1>2, <1>3 DEF Calmer
<1> QED  BY <1>1, <1>2, <1>4 DEF t

LEMMA CalmerTransitive ==
    ASSUME NEW i, NEW s \in WellFormed(i), NEW t \in WellFormed(i), NEW u \in WellFormed(i),
           Calmer(s, t), Calmer(t, u)
    PROVE  Calmer(s, u)
BY Fields DEF Calmer

\* checkAndSave saves only the current prepare, with a quorum in the commit cache.
LEMMA SaveResult ==
    ASSUME NEW i, NEW s, NodeInv(i, s), NEW busy
    PROVE  LET t == CheckAndSave(s, busy)
           IN  /\ NodeInv(i, t) /\ t.sent = s.sent
               /\ t.committedPrepare = s.committedPrepare /\ t.commitCache = s.commitCache
               /\ t.view = s.view /\ t.highest = s.highest /\ t.viewChanges \subseteq s.viewChanges
               /\ \/ t.chain = s.chain
                  \/ s.prepare \in Ballots /\ SavesBlock(s, t, s.prepare.block)
<1> DEFINE b == s.prepare.block
           c == CommitBlock(s, b, busy)
           t == CheckAndSave(s, busy)
           Enough == /\ EnoughReqs(s.signCache, s.prepare.block)
                     /\ EnoughReqs(s.commitCache, s.prepare.block)
                     /\ s.prepare.view = s.view
                     /\ s.prepare.height > Len(s.highest)
<1>1. s \in WellFormed(i)  BY DEF NodeInv, Consistent
<1>2. CASE ~Enough
  <2>1. t = s  BY <1>2 DEF CheckAndSave
  <2> QED  BY <2>1
<1>3. CASE Enough
  <2>1. s.prepare \in Ballots
    BY <1>1, <1>3, Fields, NoReqFields, BoundAssumption
  <2>2. b \in Block  BY <2>1, BallotFields
  <2>3. t = ClearAllExceptCommitCache(c)  BY <1>3 DEF CheckAndSave
  <2>4. /\ c \in WellFormed(i) /\ Calmer(s, c) /\ c.sent = s.sent /\ c.commitCache = s.commitCache
        /\ c.viewChanges = s.viewChanges
        /\ c.chain = s.chain \/ (c.chain = b /\ Extends(b, s.chain))
    <3>1. CASE ~busy /\ Extends(b, s.chain)
      <4>1. c = [s EXCEPT !.chain = b]  BY <3>1 DEF CommitBlock
      <4> QED  BY <1>1, <2>2, <3>1, <4>1, GrowResult
    <3>2. CASE ~(~busy /\ Extends(b, s.chain))
      <4>1. c = s  BY <3>2 DEF CommitBlock
      <4>2. Calmer(s, s)  BY <1>1, Fields DEF Calmer
      <4> QED  BY <1>1, <4>1, <4>2
    <3> QED  BY <3>1, <3>2
  <2> HIDE DEF b, c, t
  <2>5. /\ t \in WellFormed(i) /\ Calmer(c, t) /\ t.sent = c.sent
        /\ t.commitCache = c.commitCache /\ t.chain = c.chain
    BY <2>3, <2>4, ClearResult
  <2>6. Calmer(s, t)  BY <1>1, <2>4, <2>5, CalmerTransitive
  <2>7. NodeInv(i, t)  BY <2>5, <2>6, CalmerLocks
  <2>8. t.chain = s.chain \/ SavesBlock(s, t, b)
    BY <1>3, <2>4, <2>5 DEF SavesBlock, EnoughReqs, b
  <2> QED  BY <2>1, <2>4, <2>5, <2>6, <2>7, <2>8 DEF Calmer, b, t
<1> QED  BY <1>2, <1>3

\* The state in which checkAndCommit has locked the raw prepare and sent the
\* CommitReq.
LEMMA LockResult ==
    ASSUME NEW i \in Node, NEW s, Consistent(i, s), QuorumReady(s), s.prepare # NoReq
    PROVE  LET v == BroadcastCommitReq(i, [s EXCEPT !.committedPrepare = s.rawPrepare])
               req == Req(s.prepare.block, s.prepare.view, i)
           IN  /\ NodeInv(i, v)
               /\ v.committedPrepare = s.rawPrepare /\ v.sent = s.sent \cup {Msg("commit", req, All)}
               /\ v.commitCache = AddReq(s.commitCache, req) /\ v.chain = s.chain
               /\ v.prepare = s.prepare /\ v.view = s.view /\ v.highest = s.highest
               /\ v.viewChanges = s.viewChanges /\ req \in Ballots
<1> DEFINE b == s.prepare.block
           raw == s.rawPrepare
           req == Req(b, s.prepare.view, i)
           u == [s EXCEPT !.committedPrepare = raw]
           v == BroadcastCommitReq(i, u)
           m == Msg("commit", req, All)
<1>1. s \in WellFormed(i) /\ Heights(s) /\ PrepareCurrent(s)  BY DEF Consistent
<1>2. s.prepare \in Ballots /\ raw \in Proposals
  BY <1>1, Fields DEF PrepareCurrent
<1>3. /\ raw.block \in Block /\ Len(raw.block) > 0 /\ raw.height = Len(raw.block)
      /\ IsProposal(raw.block)
  <2>1. raw \in Ballots /\ IsProposal(raw.block)  BY <1>2, ProposalIsBallot
  <2> HIDE DEF raw
  <2> QED  BY <2>1, BallotFields
<1>4. /\ b \in Block /\ Len(b) = s.consNum /\ Len(b) > 0 /\ b = Executed(raw.block)
      /\ raw.height = s.consNum /\ s.prepare.view = s.view /\ s.reported
  <2>1. b = Executed(raw.block) /\ s.prepare.height = s.consNum /\ s.prepare.view = s.view
    BY <1>1 DEF PrepareCurrent
  <2>2. b \in Block /\ Len(b) = s.prepare.height /\ s.prepare.height \in 1..MaxNumber
    BY <1>2, BallotFields
  <2>3. Len(b) = Len(raw.block)  BY <1>3, <2>1, ExecutedLength
  <2> QED  BY <1>1, <1>3, <2>1, <2>2, <2>3 DEF Heights
<1>5. s.view \in 0..MaxView  BY <1>1, Fields
<1>6. /\ req \in Ballots /\ req.block = b /\ req.view = s.view /\ req.idx = i
  <2> HIDE DEF b
  <2> QED  BY <1>4, <1>5, ReqIsBallot
<1>7. m \in Messages(i)
  <2> HIDE DEF req
  <2> QED  BY <1>6 DEF Msg, Messages
<1>8. v = Send([u EXCEPT !.commitCache = AddReq(@, req)], m)
  <2>1. u.prepare = s.prepare  BY <1>1 DEF WellFormed
  <2> QED  BY <2>1 DEF BroadcastCommitReq
<1>9. AddReq(s.commitCache, req) \subseteq Ballots
  <2>1. s.commitCache \subseteq Ballots  BY <1>1, Fields
  <2> HIDE DEF req
  <2> QED  BY <1>6, <2>1 DEF AddReq
<1> HIDE DEF b, raw, req, m, v
<1>10. v \in WellFormed(i)
  BY <1>1, <1>2, <1>7, <1>8, <1>9, Zenon DEF WellFormed, Send
<1>11. /\ v.committedPrepare = raw /\ v.sent = s.sent \cup {m}
       /\ v.commitCache = AddReq(s.commitCache, req)
       /\ v.chain = s.chain /\ v.highest = s.highest /\ v.reported = s.reported
       /\ v.consNum = s.consNum /\ v.view = s.view /\ v.sealer = s.sealer
       /\ v.prepare = s.prepare /\ v.rawPrepare = raw /\ v.signCache = s.signCache
       /\ v.viewChanges = s.viewChanges
  BY <1>1, <1>8 DEF WellFormed, Send, raw
<1>12. Heights(v)
  BY <1>1, <1>2, <1>4, <1>11, Fields, NoReqFields, ProposalIsBallot, BallotFields DEF Heights
<1>13. PrepareCurrent(v)
  <2>1. v.prepare.view = v.view /\ v.prepare.height = v.consNum /\ v.rawPrepare # NoReq
        /\ v.prepare.block = Executed(v.rawPrepare.block)
    BY <1>1, <1>11 DEF PrepareCurrent, raw
  <2>2. ASSUME NEW r \in v.signCache \cup v.commitCache, r.block = v.prepare.block
        PROVE  r.view = v.view
    <3>1. CASE r \in s.signCache \cup s.commitCache
      BY <1>1, <1>11, <2>2, <3>1 DEF PrepareCurrent
    <3>2. CASE r = req  BY <1>6, <1>11, <3>2
    <3> QED  BY <1>11, <3>1, <3>2 DEF AddReq
  <2> QED  BY <1>11, <2>1, <2>2 DEF PrepareCurrent
<1>14. OneCommitEach(v)
  <2>1. OneCommitEach(s)  BY DEF Consistent
  <2> QED  BY <1>11, <2>1 DEF OneCommitEach, AddReq, SameKey
<1>15. OneViewChangeEach(i, v)  BY <1>11 DEF Consistent, OneViewChangeEach
<1>16. QuorumLocks(v)
  <2> SUFFICES ASSUME NEW c \in Block, Cardinality(SignsFor(v, c)) >= MinValidNodes
               PROVE  LockedOn(v, c)
    BY DEF QuorumLocks
  <2>1. SignsFor(v, c) = SignsFor(s, c)  BY <1>11 DEF SignsFor
  <2>2. CASE c = b
    BY <1>2, <1>4, <1>11, <2>2, NoReqFields DEF LockedOn, Proposals
  <2>3. CASE LockedOn(s, c)
    <3>1. SignsFor(s, c) # {}
      <4>1. SignsFor(s, c) = {} => Cardinality(SignsFor(s, c)) = 0  BY FS_EmptySet
      <4> QED  BY <2>1, <4>1, Quorum
    <3>2. PICK r \in s.signCache : r.block = c /\ r.height = s.consNum
      BY <3>1 DEF SignsFor
    <3>3. Len(c) = s.consNum  BY <1>1, <3>2, Fields, BallotFields
    <3> DEFINE q == s.committedPrepare
    <3>4. q \in Proposals /\ Executed(q.block) = c  BY <1>1, <2>3, Fields DEF LockedOn
    <3>5. q.block \in Block /\ q.height = Len(q.block) /\ Len(q.block) > 0
      BY <3>4, ProposalIsBallot, BallotFields DEF IsProposal
    <3>6. q.height = s.consNum  BY <3>3, <3>4, <3>5, ExecutedLength
    <3>7. q.block = raw.block  BY <1>1, <3>6 DEF PrepareCurrent, raw
    <3> QED  BY <1>2, <1>11, <3>4, <3>7, NoReqFields DEF LockedOn, Proposals
  <2> QED  BY <2>1, <2>2, <2>3 DEF QuorumReady, b
<1> QED  BY <1>6, <1>10, <1>11, <1>12, <1>13, <1>14, <1>15, <1>16
         DEF NodeInv, Consistent, b, raw, req, m, v

LEMMA CommitResult ==
    ASSUME NEW i \in Node, NEW s, Consistent(i, s), QuorumReady(s), NEW busy, NEW arrived
    PROVE  Acts(i, s, CheckAndCommit(i, s, busy), arrived)
<1> DEFINE b == s.prepare.block
           t == CheckAndCommit(i, s, busy)
           Fires == /\ Cardinality(ForBlock(s.signCache, s.prepare.block)) = MinValidNodes
                    /\ s.prepare.view = s.view
<1>1. s \in WellFormed(i) /\ Heights(s) /\ PrepareCurrent(s)  BY DEF Consistent
<1>2. CASE ~Fires
  <2>1. t = s  BY <1>2 DEF CheckAndCommit
  <2>2. QuorumLocks(s)
    <3> SUFFICES ASSUME NEW c \in Block, Cardinality(SignsFor(s, c)) >= MinValidNodes,
                        ~LockedOn(s, c)
                 PROVE  FALSE
      BY DEF QuorumLocks
    <3>1. s.prepare # NoReq /\ c = b /\ Cardinality(SignsFor(s, c)) = MinValidNodes
      BY DEF QuorumReady
    <3>2. ForBlock(s.signCache, b) = SignsFor(s, b)  BY <1>1, <3>1, PrepareSigns
    <3> QED  BY <1>1, <1>2, <3>1, <3>2 DEF PrepareCurrent
  <2>3. NodeInv(i, s)  BY <2>2 DEF NodeInv
  <2>4. Calmer(s, s)  BY <1>1, Fields DEF Calmer
  <2> QED  BY <1>1, <2>1, <2>3, <2>4, CalmerActs DEF Quiet
<1>3. CASE Fires
  <2> DEFINE raw == s.rawPrepare
             req == Req(b, s.prepare.view, i)
             v == BroadcastCommitReq(i, [s EXCEPT !.committedPrepare = raw])
  <2>1. s.prepare # NoReq
    BY <1>1, <1>3, Fields, NoReqFields, BoundAssumption
  <2>2. /\ NodeInv(i, v)
        /\ v.committedPrepare = raw /\ v.sent = s.sent \cup {Msg("commit", req, All)}
        /\ v.commitCache = AddReq(s.commitCache, req) /\ v.chain = s.chain
        /\ v.prepare = s.prepare /\ v.view = s.view /\ v.highest = s.highest
        /\ v.viewChanges = s.viewChanges /\ req \in Ballots
    BY <2>1, LockResult
  <2>3. t = CheckAndSave(v, busy)  BY <1>3 DEF CheckAndCommit
  <2>4. s.prepare \in Ballots /\ raw \in Proposals
    BY <1>1, <2>1, Fields DEF PrepareCurrent
  <2>5. /\ b \in Block /\ Len(b) = s.consNum /\ Len(b) > 0 /\ b = Executed(raw.block)
        /\ Len(raw.block) = Len(b) /\ s.reported
    <3>1. b \in Block /\ Len(b) = s.prepare.height /\ s.prepare.height \in 1..MaxNumber
      BY <2>4, BallotFields
    <3>2. raw.block \in Block /\ Len(raw.block) > 0
      BY <2>4, ProposalIsBallot, BallotFields DEF IsProposal
    <3>3. b = Executed(raw.block) /\ s.prepare.height = s.consNum
      BY <1>1, <2>1 DEF PrepareCurrent
    <3> QED  BY <1>1, <2>1, <3>1, <3>2, <3>3, ExecutedLength DEF Heights
  <2> HIDE DEF v, t
  <2>6. /\ NodeInv(i, t) /\ t.sent = v.sent
        /\ t.committedPrepare = v.committedPrepare /\ t.commitCache = v.commitCache
        /\ t.view = v.view /\ t.highest = v.highest /\ t.viewChanges \subseteq v.viewChanges
        /\ t.chain = v.chain \/ SavesBlock(v, t, v.prepare.block)
    BY <2>2, <2>3, SaveResult
  <2>7. Sent(t, "commit") = Sent(s, "commit") \cup {req}
    BY <2>2, <2>6, SentCommit
  <2>8. req.block = b  BY DEF Req
  <2>9. VotesFor(i, s, t, b)
    <3>1. LockOf(t) = b
      <4>1. ~IsEmpty(raw)  BY <2>4, ProposalIsBallot, BallotFields DEF IsEmpty
      <4> QED  BY <2>2, <2>5, <2>6, <4>1 DEF LockOf
    <3>2. VotesOf(i, t) = VotesOf(i, s) \cup {<<i, b>>}
      BY <2>7, <2>8 DEF VotesOf
    <3>3. Len(b) > Len(LockOf(s)) \/ (Len(b) > 0 /\ b = LockOf(s))
      <4> DEFINE q == s.committedPrepare
      <4>1. CASE q = NoReq
        <5>1. LockOf(s) = <<>>  BY <4>1, NoReqFields DEF LockOf, IsEmpty
        <5> QED  BY <2>5, <5>1, Genesis
      <4>2. CASE q \in Proposals
        <5>1. q.block \in Block /\ Len(q.block) > 0 /\ q.height = Len(q.block) /\ q.height # -1
          BY <4>2, ProposalIsBallot, BallotFields DEF IsProposal
        <5>2. LockOf(s) = Executed(q.block)  BY <5>1 DEF LockOf, IsEmpty
        <5>3. Len(LockOf(s)) = q.height  BY <5>1, <5>2, ExecutedLength
        <5>4. q.height <= s.consNum  BY <1>1, <2>5 DEF Heights
        <5>5. CASE q.height = s.consNum
          BY <1>1, <2>1, <2>5, <5>2, <5>5 DEF PrepareCurrent
        <5>6. CASE q.height < s.consNum  BY <2>5, <5>3, <5>6
        <5>7. q.height \in Int /\ s.consNum \in Int  BY <1>1, Fields
        <5> QED  BY <5>4, <5>5, <5>6, <5>7
      <4> QED  BY <1>1, <4>1, <4>2, Fields
    <3>4. t.chain = s.chain \/ SavesBlock(s, t, b)
      BY <2>2, <2>6 DEF SavesBlock
    <3> QED  BY <3>1, <3>2, <3>3, <3>4 DEF VotesFor
  <2>10. \A r \in t.commitCache \ s.commitCache : r \in Sent(t, "commit")
    BY <2>2, <2>6, <2>7 DEF AddReq
  <2>11. LockStep(i, s, t)  BY <2>5, <2>9 DEF LockStep
  <2>12. s.sent \subseteq t.sent  BY <2>2, <2>6
  <2> QED  BY <2>2, <2>6, <2>10, <2>11, <2>12 DEF Acts, t
<1> QED  BY <1>2, <1>3

-----------------------------------------------------------------------------
(* Preparing and signing *)

\* The state in which the proposal req has been accepted, executed and signed.
Signed(i, s, req) ==
    BroadcastSignReq(i, AddPrepareReq(AddRawPrepare(s, req),
                                      Req(Executed(req.block), req.view, req.idx)))

OfView(cache, b, v) == {r \in cache : r.block = b => r.view = v}

LEMMA SignedFields ==
    ASSUME NEW i \in Node, NEW s \in WellFormed(i), NEW req \in Proposals
    PROVE  LET u == Signed(i, s, req)
               b == Executed(req.block)
               own == Req(b, req.view, i)
           IN  /\ u \in WellFormed(i)
               /\ b \in Block /\ Len(b) = req.height /\ Len(b) > 0 /\ own \in Ballots
               /\ u.prepare \in Ballots /\ u.prepare.block = b /\ u.prepare.view = req.view
               /\ u.prepare.height = req.height /\ u.rawPrepare = req
               /\ u.signCache = AddReq(OfView(s.signCache, b, req.view), own)
               /\ u.commitCache = OfView(s.commitCache, b, req.view)
               /\ u.sent = s.sent \cup {Msg("sign", own, All)}
               /\ u.chain = s.chain /\ u.highest = s.highest /\ u.reported = s.reported
               /\ u.consNum = s.consNum /\ u.view = s.view /\ u.sealer = s.sealer
               /\ u.committedPrepare = s.committedPrepare /\ u.viewChanges = s.viewChanges
<1> DEFINE b == Executed(req.block)
           e == Req(b, req.view, req.idx)
           own == Req(b, req.view, i)
           raw == AddRawPrepare(s, req)
           p == AddPrepareReq(raw, e)
           u == Signed(i, s, req)
           m == Msg("sign", own, All)
<1>1. /\ req.block \in Block /\ req.height = Len(req.block) /\ Len(req.block) > 0
      /\ req.view \in 0..MaxView /\ req.idx \in Node
  BY ProposalIsBallot, BallotFields DEF IsProposal
<1>2. b \in Block /\ Len(b) = req.height /\ Len(b) > 0  BY <1>1, ExecutedLength
<1> HIDE DEF b
<1>3. e \in Ballots /\ e.block = b /\ e.view = req.view /\ e.height = req.height
  BY <1>1, <1>2, ReqIsBallot
<1>4. own \in Ballots /\ own.idx = i  BY <1>1, <1>2, ReqIsBallot
<1> HIDE DEF e, own
<1>5. m \in Messages(i)  BY <1>4 DEF Msg, Messages
<1> HIDE DEF m
<1>6. /\ raw \in WellFormed(i) /\ raw.rawPrepare = req
      /\ raw.signCache = s.signCache /\ raw.commitCache = s.commitCache /\ raw.sent = s.sent
      /\ raw.chain = s.chain /\ raw.highest = s.highest /\ raw.reported = s.reported
      /\ raw.consNum = s.consNum /\ raw.view = s.view /\ raw.sealer = s.sealer
      /\ raw.committedPrepare = s.committedPrepare /\ raw.viewChanges = s.viewChanges
  <2> DEFINE x == [s EXCEPT !.rawPrepare = req]
  <2>1. /\ x \in WellFormed(i) /\ x.rawPrepare = req
        /\ x.signCache = s.signCache /\ x.commitCache = s.commitCache /\ x.sent = s.sent
        /\ x.chain = s.chain /\ x.highest = s.highest /\ x.reported = s.reported
        /\ x.consNum = s.consNum /\ x.view = s.view /\ x.sealer = s.sealer
        /\ x.committedPrepare = s.committedPrepare /\ x.viewChanges = s.viewChanges
    BY DEF WellFormed
  <2>2. raw = [x EXCEPT !.prepare = NoReq]  BY DEF AddRawPrepare
  <2> HIDE DEF x, raw
  <2> QED  BY <2>1, <2>2 DEF WellFormed
<1> HIDE DEF raw
<1>7. /\ p \in WellFormed(i) /\ p.rawPrepare = req /\ p.prepare = e
      /\ p.signCache = OfView(s.signCache, b, req.view)
      /\ p.commitCache = OfView(s.commitCache, b, req.view) /\ p.sent = s.sent
      /\ p.chain = s.chain /\ p.highest = s.highest /\ p.reported = s.reported
      /\ p.consNum = s.consNum /\ p.view = s.view /\ p.sealer = s.sealer
      /\ p.committedPrepare = s.committedPrepare /\ p.viewChanges = s.viewChanges
  <2> DEFINE x == [raw EXCEPT !.prepare = e]
             y == RemoveInvalidSignCache(x, e.block, e.view)
  <2>1. /\ x \in WellFormed(i) /\ x.rawPrepare = req /\ x.prepare = e
        /\ x.signCache = s.signCache /\ x.commitCache = s.commitCache /\ x.sent = s.sent
        /\ x.chain = s.chain /\ x.highest = s.highest /\ x.reported = s.reported
        /\ x.consNum = s.consNum /\ x.view = s.view /\ x.sealer = s.sealer
        /\ x.committedPrepare = s.committedPrepare /\ x.viewChanges = s.viewChanges
    BY <1>3, <1>6 DEF WellFormed
  <2> HIDE DEF x
  <2>2. /\ y \in WellFormed(i) /\ y.rawPrepare = req /\ y.prepare = e
        /\ y.signCache = OfView(s.signCache, b, req.view)
        /\ y.commitCache = s.commitCache /\ y.sent = s.sent
        /\ y.chain = s.chain /\ y.highest = s.highest /\ y.reported = s.reported
        /\ y.consNum = s.consNum /\ y.view = s.view /\ y.sealer = s.sealer
        /\ y.committedPrepare = s.committedPrepare /\ y.viewChanges = s.viewChanges
    BY <1>3, <2>1 DEF WellFormed, RemoveInvalidSignCache, OfView
  <2> HIDE DEF y
  <2>3. p = RemoveInvalidCommitCache(y, e.block, e.view)
    BY DEF AddPrepareReq, x, y
  <2> QED  BY <1>3, <2>2, <2>3 DEF WellFormed, RemoveInvalidCommitCache, OfView
<1> HIDE DEF p
<1>8. u = Send([p EXCEPT !.signCache = AddReq(@, own)], m)
  BY <1>3, <1>7 DEF Signed, BroadcastSignReq, p, raw, e, b, own, m
<1> HIDE DEF u
<1>9. AddReq(p.signCache, own) \subseteq Ballots
  BY <1>4, <1>7, Fields DEF AddReq
<1>10. /\ u \in WellFormed(i) /\ u.rawPrepare = req /\ u.prepare = e
       /\ u.signCache = AddReq(p.signCache, own)
       /\ u.commitCache = p.commitCache /\ u.sent = p.sent \cup {m}
       /\ u.chain = p.chain /\ u.highest = p.highest /\ u.reported = p.reported
       /\ u.consNum = p.consNum /\ u.view = p.view /\ u.sealer = p.sealer
       /\ u.committedPrepare = p.committedPrepare /\ u.viewChanges = p.viewChanges
  <2> DEFINE x == [p EXCEPT !.signCache = AddReq(@, own)]
  <2>1. /\ x \in WellFormed(i) /\ x.rawPrepare = req /\ x.prepare = e
        /\ x.signCache = AddReq(p.signCache, own)
        /\ x.commitCache = p.commitCache /\ x.sent = p.sent
        /\ x.chain = p.chain /\ x.highest = p.highest /\ x.reported = p.reported
        /\ x.consNum = p.consNum /\ x.view = p.view /\ x.sealer = p.sealer
        /\ x.committedPrepare = p.committedPrepare /\ x.viewChanges = p.viewChanges
    BY <1>7, <1>9 DEF WellFormed
  <2> HIDE DEF x
  <2>2. u = [x EXCEPT !.sent = @ \cup {m}]  BY <1>8 DEF Send, x
  <2> QED  BY <1>5, <2>1, <2>2 DEF WellFormed
<1> QED  BY <1>2, <1>3, <1>4, <1>7, <1>10 DEF b, own, m, u

\* A valid prepare is at the height and view of the node.
LEMMA ValidPrepare ==
    ASSUME NEW i, NEW s \in WellFormed(i), Heights(s), NEW req \in Proposals, IsValidPrepare(s, req)
    PROVE  /\ req.height = s.consNum /\ req.view = s.view /\ s.reported
           /\ s.committedPrepare.height = s.consNum => s.committedPrepare.block = req.block
<1>1. req.height \in Int /\ req.view \in Int  BY ProposalIsBallot, BallotFields
<1>2. s.consNum \in Int /\ s.view \in Int  BY Fields
<1> QED  BY <1>1, <1>2 DEF IsValidPrepare, HasConsensused, IsFutureBlock, HasLeader,
                           IsHashSavedAfterCommit

\* After a proposal has been signed the node is ready for checkAndCommit: its own
\* sign is at most the one that completes the quorum.
LEMMA SignedReady ==
    ASSUME NEW i \in Node, NEW s, NodeInv(i, s), NEW req \in Proposals, IsValidPrepare(s, req)
    PROVE  Consistent(i, Signed(i, s, req)) /\ QuorumReady(Signed(i, s, req))
<1> DEFINE u == Signed(i, s, req)
           b == Executed(req.block)
           own == Req(b, req.view, i)
<1>1. s \in WellFormed(i) /\ Heights(s) /\ PrepareCurrent(s) /\ QuorumLocks(s)
  BY DEF NodeInv, Consistent
<1>2. /\ req.height = s.consNum /\ req.view = s.view /\ s.reported
      /\ s.committedPrepare.height = s.consNum => s.committedPrepare.block = req.block
  BY <1>1, ValidPrepare
<1>3. /\ u \in WellFormed(i)
      /\ b \in Block /\ Len(b) = req.height /\ Len(b) > 0 /\ own \in Ballots
      /\ u.prepare \in Ballots /\ u.prepare.block = b /\ u.prepare.view = req.view
      /\ u.prepare.height = req.height /\ u.rawPrepare = req
      /\ u.signCache = AddReq(OfView(s.signCache, b, req.view), own)
      /\ u.commitCache = OfView(s.commitCache, b, req.view)
      /\ u.chain = s.chain /\ u.highest = s.highest /\ u.reported = s.reported
      /\ u.consNum = s.consNum /\ u.view = s.view /\ u.sealer = s.sealer
      /\ u.committedPrepare = s.committedPrepare /\ u.viewChanges = s.viewChanges
  BY <1>1, SignedFields, Zenon
<1>4. own.block = b /\ own.view = s.view /\ own.idx = i  BY <1>2, Zenon DEF Req
<1> HIDE DEF u, b, own
<1>5. Heights(u)  BY <1>1, <1>2, <1>3 DEF Heights
<1>6. PrepareCurrent(u)
  <2>1. req # NoReq  BY ProposalIsBallot, BallotFields
  <2>2. \A r \in u.signCache \cup u.commitCache : r.block = b => r.view = s.view
    BY <1>2, <1>3, <1>4 DEF AddReq, OfView
  <2>3. u.prepare.block = Executed(u.rawPrepare.block)  BY <1>3 DEF b
  <2> QED  BY <1>2, <1>3, <2>1, <2>2, <2>3 DEF PrepareCurrent
<1>7. OneCommitEach(u)  BY <1>3 DEF NodeInv, Consistent, OneCommitEach, OfView
<1>8. OneViewChangeEach(i, u)  BY <1>3 DEF NodeInv, Consistent, OneViewChangeEach
<1>9. QuorumReady(u)
  <2> SUFFICES ASSUME NEW c \in Block, Cardinality(SignsFor(u, c)) >= MinValidNodes,
                      ~LockedOn(u, c)
               PROVE  c = b /\ Cardinality(SignsFor(u, c)) = MinValidNodes
    BY <1>3, BallotFields DEF QuorumReady
  <2>1. ~LockedOn(s, c)  BY <1>3 DEF LockedOn
  <2>2. ~(Cardinality(SignsFor(s, c)) >= MinValidNodes)  BY <1>1, <2>1 DEF QuorumLocks
  <2>3. /\ IsFiniteSet(SignsFor(s, c)) /\ Cardinality(SignsFor(s, c)) \in Nat
        /\ IsFiniteSet(SignsFor(u, c)) /\ Cardinality(SignsFor(u, c)) \in Nat
    BY <1>1, <1>3, SignsFinite
  <2>4. CASE c # b
    <3>1. SignsFor(u, c) \in SUBSET SignsFor(s, c)
      BY <1>3, <1>4, <2>4 DEF SignsFor, AddReq, OfView
    <3>2. Cardinality(SignsFor(u, c)) <= Cardinality(SignsFor(s, c))
      BY <1>1, <3>1, SignsFinite
    <3> QED  BY <2>2, <2>3, <3>2, Quorum
  <2>5. CASE c = b
    <3>1. SignsFor(u, c) \in SUBSET (SignsFor(s, c) \cup {own})
      BY <1>3, <1>4, <2>5 DEF SignsFor, AddReq, OfView
    <3>2. Cardinality(SignsFor(u, c)) <= Cardinality(SignsFor(s, c)) + 1
      BY <2>3, <3>1, OneMore, Zenon
    <3> QED  BY <2>2, <2>3, <2>5, <3>2, Quorum
  <2> QED  BY <2>4, <2>5
<1> QED  BY <1>3, <1>5, <1>6, <1>7, <1>8, <1>9 DEF Consistent, u

LEMMA AcceptResult ==
    ASSUME NEW i \in Node, NEW s, NodeInv(i, s), NEW req \in Proposals, IsValidPrepare(s, req),
           NEW busy, NEW arrived
    PROVE  Acts(i, s, AcceptPrepare(i, s, req, busy), arrived)
<1> DEFINE raw == AddRawPrepare(s, req)
           u == Signed(i, s, req)
           t == AcceptPrepare(i, s, req, busy)
<1>1. s \in WellFormed(i)  BY DEF NodeInv, Consistent
<1>2. CASE t = raw
  <2>1. /\ raw \in WellFormed(i) /\ raw.prepare = NoReq
        /\ raw.signCache = s.signCache /\ raw.commitCache = s.commitCache /\ raw.sent = s.sent
        /\ raw.chain = s.chain /\ raw.highest = s.highest /\ raw.reported = s.reported
        /\ raw.consNum = s.consNum /\ raw.view = s.view /\ raw.sealer = s.sealer
        /\ raw.committedPrepare = s.committedPrepare /\ raw.viewChanges = s.viewChanges
    <3> DEFINE x == [s EXCEPT !.rawPrepare = req]
    <3>1. /\ x \in WellFormed(i)
          /\ x.signCache = s.signCache /\ x.commitCache = s.commitCache /\ x.sent = s.sent
          /\ x.chain = s.chain /\ x.highest = s.highest /\ x.reported = s.reported
          /\ x.consNum = s.consNum /\ x.view = s.view /\ x.sealer = s.sealer
          /\ x.committedPrepare = s.committedPrepare /\ x.viewChanges = s.viewChanges
      BY <1>1 DEF WellFormed
    <3>2. raw = [x EXCEPT !.prepare = NoReq]  BY DEF AddRawPrepare
    <3> HIDE DEF x, raw
    <3> QED  BY <3>1, <3>2 DEF WellFormed
  <2> HIDE DEF raw, t
  <2>2. Calmer(s, raw)  BY <1>1, <2>1, Fields DEF Calmer
  <2>3. Quiet(s, raw)  BY <2>1 DEF Quiet, Sent
  <2>4. Acts(i, s, raw, arrived)  BY <2>1, <2>2, <2>3, CalmerActs
  <2> QED  BY <1>2, <2>4 DEF t
<1>3. CASE t = CheckAndCommit(i, u, busy)
  <2>1. Consistent(i, u) /\ QuorumReady(u)  BY SignedReady
  <2> DEFINE own == Req(Executed(req.block), req.view, i)
             m == Msg("sign", own, All)
  <2>2. /\ u.sent = s.sent \cup {m}
        /\ u.commitCache = OfView(s.commitCache, Executed(req.block), req.view)
        /\ u.chain = s.chain /\ u.highest = s.highest /\ u.view = s.view
        /\ u.committedPrepare = s.committedPrepare /\ u.viewChanges = s.viewChanges
    BY <1>1, SignedFields
  <2>3. m.type # "commit"  BY DEF Msg
  <2> HIDE DEF m, u, t
  <2>4. Quiet(s, u)  BY <2>2, <2>3, SentOther DEF Quiet
  <2>5. Acts(i, u, t, arrived)  BY <1>3, <2>1, CommitResult
  <2>6. u.commitCache \subseteq s.commitCache  BY <2>2 DEF OfView
  <2>7. Acts(i, s, t, arrived)  BY <2>2, <2>4, <2>5, <2>6, ActsAfter
  <2> QED  BY <2>7 DEF t
<1>4. t = raw \/ t = CheckAndCommit(i, u, busy)  BY DEF AcceptPrepare, Signed
<1> QED  BY <1>2, <1>3, <1>4

LEMMA PrepareResult ==
    ASSUME NEW i \in Node, NEW s, NodeInv(i, s), NEW req \in Proposals, NEW busy, NEW arrived
    PROVE  Acts(i, s, HandlePrepare(i, s, req, busy), arrived)
<1> DEFINE f == [s EXCEPT !.futurePrepare = req]
           t == HandlePrepare(i, s, req, busy)
<1>1. s \in WellFormed(i)  BY DEF NodeInv, Consistent
<1>2. CASE IsValidPrepare(s, req)
  <2>1. t = AcceptPrepare(i, s, req, busy)  BY <1>2 DEF HandlePrepare
  <2> QED  BY <1>2, <2>1, AcceptResult
<1>3. CASE t = s
  <2>1. Calmer(s, s)  BY <1>1, Fields DEF Calmer
  <2> QED  BY <1>1, <1>3, <2>1, CalmerActs DEF Quiet
<1>4. CASE t = f
  <2>1. /\ f \in WellFormed(i) /\ f.prepare = s.prepare /\ f.rawPrepare = s.rawPrepare
        /\ f.signCache = s.signCache /\ f.commitCache = s.commitCache /\ f.sent = s.sent
        /\ f.chain = s.chain /\ f.highest = s.highest /\ f.reported = s.reported
        /\ f.consNum = s.consNum /\ f.view = s.view /\ f.sealer = s.sealer
        /\ f.committedPrepare = s.committedPrepare /\ f.viewChanges = s.viewChanges
    BY <1>1 DEF WellFormed
  <2> HIDE DEF f, t
  <2>2. Calmer(s, f)  BY <1>1, <2>1, Fields DEF Calmer
  <2>3. Quiet(s, f)  BY <2>1 DEF Quiet, Sent
  <2>4. Acts(i, s, f, arrived)  BY <2>1, <2>2, <2>3, CalmerActs
  <2> QED  BY <1>4, <2>4 DEF t
<1>5. IsValidPrepare(s, req) \/ t = s \/ t = f  BY DEF HandlePrepare, AddFuturePrepare
<1> QED  BY <1>2, <1>3, <1>4, <1>5

\* A sign is counted only for the current prepare; one that is kept for later is
\* not of this height and view.
LEMMA SignResult ==
    ASSUME NEW i \in Node, NEW s, NodeInv(i, s), NEW req \in Ballots, NEW busy, NEW arrived
    PROVE  Acts(i, s, HandleSign(i, s, req, busy), arrived)
<1> DEFINE u == [s EXCEPT !.signCache = AddReq(@, req)]
           t == HandleSign(i, s, req, busy)
<1>1. s \in WellFormed(i) /\ Heights(s) /\ PrepareCurrent(s) /\ QuorumLocks(s)
  BY DEF NodeInv, Consistent
<1>2. CASE t = s
  <2>1. Calmer(s, s)  BY <1>1, Fields DEF Calmer
  <2> QED  BY <1>1, <1>2, <2>1, CalmerActs DEF Quiet
<1>3. ASSUME ~Exists(s.signCache, req), IsFutureReq(s, req) \/ IsValidReq(i, s, req)
      PROVE  /\ Consistent(i, u) /\ QuorumReady(u) /\ Quiet(s, u)
             /\ u.sent = s.sent /\ u.view = s.view /\ u.highest = s.highest
             /\ u.commitCache = s.commitCache /\ u.viewChanges = s.viewChanges
             /\ IsFutureReq(s, req) => QuorumLocks(u)
  <2>1. AddReq(s.signCache, req) = s.signCache \cup {req}
    BY <1>3 DEF AddReq, Exists
  <2>2. /\ req.height = Len(req.block) /\ req.height \in Int /\ req.view \in Int
        /\ s.consNum \in Int /\ s.view \in Int
    BY <1>1, BallotFields, Fields
  <2>3. s.signCache \cup {req} \subseteq Ballots  BY <1>1, Fields
  <2>4. /\ u \in WellFormed(i) /\ u.prepare = s.prepare /\ u.rawPrepare = s.rawPrepare
        /\ u.signCache = s.signCache \cup {req} /\ u.commitCache = s.commitCache
        /\ u.sent = s.sent
        /\ u.chain = s.chain /\ u.highest = s.highest /\ u.reported = s.reported
        /\ u.consNum = s.consNum /\ u.view = s.view /\ u.sealer = s.sealer
        /\ u.committedPrepare = s.committedPrepare /\ u.viewChanges = s.viewChanges
    BY <1>1, <2>1, <2>3 DEF WellFormed
  <2> HIDE DEF u
  <2>5. PrepareCurrent(u)
    BY <1>1, <1>3, <2>4 DEF PrepareCurrent, IsFutureReq, IsValidReq
  <2>6. Heights(u)  BY <1>1, <2>4 DEF Heights
  <2>7. OneCommitEach(u) /\ OneViewChangeEach(i, u)
    BY <2>4 DEF NodeInv, Consistent, OneCommitEach, OneViewChangeEach
  <2>8. Consistent(i, u)  BY <2>4, <2>5, <2>6, <2>7 DEF Consistent
  <2>9. ASSUME NEW c \in Block, Cardinality(SignsFor(u, c)) >= MinValidNodes, ~LockedOn(u, c)
        PROVE  /\ ~IsFutureReq(s, req) /\ s.prepare # NoReq /\ c = s.prepare.block
               /\ Cardinality(SignsFor(u, c)) = MinValidNodes
    <3>1. ~LockedOn(s, c)  BY <2>4, <2>9 DEF LockedOn
    <3>2. ~(Cardinality(SignsFor(s, c)) >= MinValidNodes)  BY <1>1, <3>1 DEF QuorumLocks
    <3>3. IsFiniteSet(SignsFor(s, c)) /\ Cardinality(SignsFor(s, c)) \in Nat
      BY <1>1, SignsFinite
    <3>4. SignsFor(u, c) # SignsFor(s, c)  BY <2>9, <3>2
    <3>5. req.block = c /\ req.view = s.view /\ req.height = s.consNum
      BY <2>4, <3>4 DEF SignsFor
    <3>6. ~IsFutureReq(s, req)  BY <2>2, <3>5 DEF IsFutureReq, IsFutureBlock
    <3>7. s.prepare.block = req.block  BY <1>3, <3>6 DEF IsValidReq
    <3>8. s.prepare # NoReq
      <4>1. Len(req.block) # 0  BY BallotFields
      <4> QED  BY <3>7, <4>1, NoReqFields, Genesis
    <3>9. SignsFor(u, c) \in SUBSET (SignsFor(s, c) \cup {req})  BY <2>4 DEF SignsFor
    <3>10. /\ Cardinality(SignsFor(u, c)) <= Cardinality(SignsFor(s, c)) + 1
           /\ Cardinality(SignsFor(u, c)) \in Nat
      BY <3>3, <3>9, OneMore
    <3>11. Cardinality(SignsFor(u, c)) = MinValidNodes
      BY <2>9, <3>2, <3>3, <3>10, Quorum
    <3> QED  BY <3>5, <3>6, <3>7, <3>8, <3>11
  <2>10. QuorumReady(u)  BY <2>4, <2>9 DEF QuorumReady
  <2>11. IsFutureReq(s, req) => QuorumLocks(u)  BY <2>9 DEF QuorumLocks
  <2>12. Quiet(s, u)  BY <2>4 DEF Quiet, Sent
  <2> QED  BY <2>4, <2>8, <2>10, <2>11, <2>12
<1>4. CASE ~Exists(s.signCache, req) /\ IsFutureReq(s, req)
  <2>1. t = u  BY <1>4 DEF HandleSign
  <2> HIDE DEF u, t
  <2>2. NodeInv(i, u) /\ LockStep(i, s, u)  BY <1>3, <1>4, QuietLocks DEF NodeInv
  <2> QED  BY <1>3, <1>4, <2>1, <2>2 DEF Acts, t
<1>5. CASE ~Exists(s.signCache, req) /\ ~IsFutureReq(s, req) /\ IsValidReq(i, s, req)
  <2>1. t = CheckAndCommit(i, u, busy)  BY <1>5 DEF HandleSign
  <2> HIDE DEF u, t
  <2>2. Acts(i, u, t, arrived)  BY <1>3, <1>5, <2>1, CommitResult
  <2> QED  BY <1>3, <1>5, <2>2, ActsAfter DEF t
<1> QED  BY <1>2, <1>4, <1>5 DEF HandleSign

LEMMA CommitMsgResult ==
    ASSUME NEW i \in Node, NEW s, NodeInv(i, s), NEW req \in Ballots, NEW busy,
           NEW arrived, req \in arrived
    PROVE  Acts(i, s, HandleCommit(i, s, req, busy), arrived)
<1> DEFINE u == [s EXCEPT !.commitCache = AddReq(@, req)]
           t == HandleCommit(i, s, req, busy)
<1>1. s \in WellFormed(i) /\ Heights(s) /\ PrepareCurrent(s) /\ QuorumLocks(s)
  BY DEF NodeInv, Consistent
<1>2. CASE t = s
  <2>1. Calmer(s, s)  BY <1>1, Fields DEF Calmer
  <2> QED  BY <1>1, <1>2, <2>1, CalmerActs DEF Quiet
<1>3. ASSUME ~Exists(s.commitCache, req), IsFutureReq(s, req) \/ IsValidReq(i, s, req)
      PROVE  /\ NodeInv(i, u) /\ u.chain = s.chain /\ u.committedPrepare = s.committedPrepare
             /\ u.sent = s.sent /\ u.view = s.view /\ u.highest = s.highest
             /\ u.commitCache = s.commitCache \cup {req} /\ u.viewChanges = s.viewChanges
  <2>1. AddReq(s.commitCache, req) = s.commitCache \cup {req}
    BY <1>3 DEF AddReq, Exists
  <2>2. s.commitCache \cup {req} \subseteq Ballots  BY <1>1, Fields
  <2>3. /\ u \in WellFormed(i) /\ u.prepare = s.prepare /\ u.rawPrepare = s.rawPrepare
        /\ u.commitCache = s.commitCache \cup {req} /\ u.signCache = s.signCache
        /\ u.sent = s.sent
        /\ u.chain = s.chain /\ u.highest = s.highest /\ u.reported = s.reported
        /\ u.consNum = s.consNum /\ u.view = s.view /\ u.sealer = s.sealer
        /\ u.committedPrepare = s.committedPrepare /\ u.viewChanges = s.viewChanges
    BY <1>1, <2>1, <2>2 DEF WellFormed
  <2> HIDE DEF u
  <2>4. PrepareCurrent(u)
    BY <1>1, <1>3, <2>3 DEF PrepareCurrent, IsFutureReq, IsValidReq
  <2>5. Heights(u)  BY <1>1, <2>3 DEF Heights
  <2>6. OneCommitEach(u)
    BY <1>3, <2>3 DEF NodeInv, Consistent, OneCommitEach, Exists, SameKey
  <2>7. OneViewChangeEach(i, u)  BY <2>3 DEF NodeInv, Consistent, OneViewChangeEach
  <2>8. \A c : SignsFor(u, c) = SignsFor(s, c) /\ (LockedOn(s, c) => LockedOn(u, c))
    BY <2>3 DEF SignsFor, LockedOn
  <2>9. QuorumLocks(u)  BY <1>1, <2>8 DEF QuorumLocks
  <2> QED  BY <2>3, <2>4, <2>5, <2>6, <2>7, <2>9 DEF NodeInv, Consistent
<1>4. CASE ~Exists(s.commitCache, req) /\ IsFutureReq(s, req)
  <2>1. t = u  BY <1>4 DEF HandleCommit
  <2> HIDE DEF u, t
  <2>2. Quiet(s, u)  BY <1>3, <1>4 DEF Quiet, Sent
  <2>3. LockStep(i, s, u)  BY <2>2, QuietLocks
  <2> QED  BY <1>3, <1>4, <2>1, <2>3 DEF Acts, t
<1>5. CASE ~Exists(s.commitCache, req) /\ ~IsFutureReq(s, req) /\ IsValidReq(i, s, req)
  <2>1. t = CheckAndSave(u, busy)  BY <1>5 DEF HandleCommit
  <2> HIDE DEF u, t
  <2>2. /\ NodeInv(i, u) /\ u.chain = s.chain /\ u.committedPrepare = s.committedPrepare
        /\ u.sent = s.sent /\ u.view = s.view /\ u.highest = s.highest
        /\ u.commitCache = s.commitCache \cup {req} /\ u.viewChanges = s.viewChanges
    BY <1>3, <1>5
  <2>3. /\ NodeInv(i, t) /\ t.sent = u.sent
        /\ t.committedPrepare = u.committedPrepare /\ t.commitCache = u.commitCache
        /\ t.view = u.view /\ t.highest = u.highest /\ t.viewChanges \subseteq u.viewChanges
        /\ \/ t.chain = u.chain
           \/ u.prepare \in Ballots /\ SavesBlock(u, t, u.prepare.block)
    BY <2>1, <2>2, SaveResult
  <2>4. KeepsLock(i, s, t)  BY <2>2, <2>3 DEF KeepsLock, LockOf, VotesOf, Sent
  <2>5. t.chain = s.chain \/ \E b \in Block : SavesBlock(s, t, b)
    <3>1. CASE t.chain = u.chain  BY <2>2, <3>1
    <3>2. CASE u.prepare \in Ballots /\ SavesBlock(u, t, u.prepare.block)
      <4>1. u.prepare.block \in Block  BY <3>2, BallotFields
      <4>2. SavesBlock(s, t, u.prepare.block)  BY <2>2, <3>2 DEF SavesBlock
      <4> QED  BY <4>1, <4>2
    <3> QED  BY <2>3, <3>1, <3>2
  <2>6. LockStep(i, s, t)  BY <2>4, <2>5 DEF LockStep
  <2> QED  BY <2>2, <2>3, <2>6 DEF Acts, t
<1> QED  BY <1>2, <1>4, <1>5 DEF HandleCommit

-----------------------------------------------------------------------------
(* View changes *)

\* Enough nodes are in R with a request for the view of t, on a block that is not
\* below the highest one of t.
Supported(i, t, R) ==
    \E V \in SUBSET R :
        /\ \A r \in V : r.view = t.view /\ r.idx # i /\ r.height >= Len(t.highest)
        /\ \A r, q \in V : r.idx = q.idx => r = q
        /\ Cardinality(V) >= MinValidNodes - 1

\* What a view-change handler does to the state s of node i, when the requests of
\* "asked" have been handed to it.
Moves(i, s, t, asked) ==
    /\ NodeInv(i, t)
    /\ s.sent \subseteq t.sent
    /\ t.highest = s.highest
    /\ t.commitCache \subseteq s.commitCache
    /\ t.viewChanges \subseteq s.viewChanges \cup asked
    /\ Quiet(s, t)
    /\ t.view = s.view \/ Supported(i, t, s.viewChanges \cup asked)

LEMMA ChangeViewResult ==
    ASSUME NEW i, NEW s, NodeInv(i, s)
    PROVE  Moves(i, s, CheckAndChangeView(s), {}) /\ CheckAndChangeView(s).sent = s.sent
<1> DEFINE V == {r \in s.viewChanges : r.view = s.toView}
           t == CheckAndChangeView(s)
<1>1. s \in WellFormed(i) /\ Heights(s) /\ OneViewChangeEach(i, s)  BY DEF NodeInv, Consistent
<1>2. CASE ~(Cardinality(V) >= MinValidNodes - 1)
  <2>1. t = s  BY <1>2 DEF CheckAndChangeView
  <2> QED  BY <2>1 DEF Moves, Quiet
<1>3. CASE Cardinality(V) >= MinValidNodes - 1
  <2> DEFINE x == [s EXCEPT !.leaderFailed = FALSE]
             y == [x EXCEPT !.view = s.toView]
             z == [y EXCEPT !.rawPrepare = NoReq]
             c == [z EXCEPT !.prepare = NoReq]
             d == [c EXCEPT !.signCache = {}]
             e == [d EXCEPT !.commitCache = {}]
             W == {r \in y.viewChanges : r.view > y.view}
  <2>1. t = [e EXCEPT !.viewChanges = W]
    BY <1>3 DEF CheckAndChangeView, TriggerViewChange
  <2>2. /\ y \in WellFormed(i) /\ y.view = s.toView /\ y.viewChanges = s.viewChanges
        /\ y.sent = s.sent
        /\ y.chain = s.chain /\ y.highest = s.highest /\ y.reported = s.reported
        /\ y.consNum = s.consNum /\ y.sealer = s.sealer
        /\ y.committedPrepare = s.committedPrepare
    <3> DEFINE no == FALSE
    <3>1. x \in WellFormed(i)
      <4>1. no \in BOOLEAN  OBVIOUS
      <4> HIDE DEF no
      <4>2. [s EXCEPT !.leaderFailed = no] \in WellFormed(i)  BY <1>1, <4>1 DEF WellFormed
      <4> QED  BY <4>2 DEF no
    <3>2. /\ x.viewChanges = s.viewChanges /\ x.sent = s.sent
          /\ x.chain = s.chain /\ x.highest = s.highest /\ x.reported = s.reported
          /\ x.consNum = s.consNum /\ x.sealer = s.sealer
          /\ x.committedPrepare = s.committedPrepare
      BY <1>1 DEF WellFormed
    <3>3. s.toView \in 0..MaxView  BY <1>1, Fields
    <3> HIDE DEF x
    <3> QED  BY <3>1, <3>2, <3>3 DEF WellFormed
  <2> HIDE DEF y
  <2>3. c \in WellFormed(i) /\ c.view = y.view /\ c.viewChanges = y.viewChanges
        /\ c.sent = y.sent /\ c.prepare = NoReq
        /\ c.chain = y.chain /\ c.highest = y.highest /\ c.reported = y.reported
        /\ c.consNum = y.consNum /\ c.sealer = y.sealer
        /\ c.committedPrepare = y.committedPrepare
    <3>1. /\ z \in WellFormed(i) /\ z.view = y.view /\ z.viewChanges = y.viewChanges
          /\ z.sent = y.sent
          /\ z.chain = y.chain /\ z.highest = y.highest /\ z.reported = y.reported
          /\ z.consNum = y.consNum /\ z.sealer = y.sealer
          /\ z.committedPrepare = y.committedPrepare
      BY <2>2 DEF WellFormed
    <3> HIDE DEF z
    <3> QED  BY <3>1 DEF WellFormed
  <2> HIDE DEF c
  <2>4. e \in WellFormed(i) /\ e.view = y.view /\ e.viewChanges = y.viewChanges
        /\ e.sent = y.sent /\ e.prepare = NoReq /\ e.signCache = {} /\ e.commitCache = {}
        /\ e.chain = y.chain /\ e.highest = y.highest /\ e.reported = y.reported
        /\ e.consNum = y.consNum /\ e.sealer = y.sealer
        /\ e.committedPrepare = y.committedPrepare
    <3>1. /\ d \in WellFormed(i) /\ d.view = c.view /\ d.viewChanges = c.viewChanges
          /\ d.sent = c.sent /\ d.prepare = NoReq /\ d.signCache = {}
          /\ d.chain = c.chain /\ d.highest = c.highest /\ d.reported = c.reported
          /\ d.consNum = c.consNum /\ d.sealer = c.sealer
          /\ d.committedPrepare = c.committedPrepare
      BY <2>3 DEF WellFormed
    <3> HIDE DEF d
    <3> QED  BY <2>3, <3>1 DEF WellFormed
  <2> HIDE DEF e
  <2>5. W \subseteq s.viewChanges /\ W \subseteq ViewChangeReqs
    BY <1>1, <2>2, Fields
  <2> HIDE DEF W
  <2>6. /\ t \in WellFormed(i) /\ t.view = s.toView /\ t.viewChanges = W
        /\ t.sent = s.sent /\ t.prepare = NoReq /\ t.signCache = {} /\ t.commitCache = {}
        /\ t.chain = s.chain /\ t.highest = s.highest /\ t.reported = s.reported
        /\ t.consNum = s.consNum /\ t.sealer = s.sealer
        /\ t.committedPrepare = s.committedPrepare
    BY <2>1, <2>2, <2>4, <2>5 DEF WellFormed
  <2> HIDE DEF t
  <2>7. Consistent(i, t)
    <3>1. Heights(t)  BY <1>1, <2>6 DEF Heights
    <3>2. PrepareCurrent(t) /\ OneCommitEach(t)  BY <2>6 DEF PrepareCurrent, OneCommitEach
    <3>3. OneViewChangeEach(i, t)  BY <1>1, <2>5, <2>6 DEF OneViewChangeEach
    <3> QED  BY <2>6, <3>1, <3>2, <3>3 DEF Consistent
  <2>8. QuorumLocks(t)
    <3>1. \A b : SignsFor(t, b) = {}  BY <2>6 DEF SignsFor
    <3> QED  BY <3>1, FS_EmptySet, Quorum DEF QuorumLocks
  <2>9. Supported(i, t, s.viewChanges)
    <3>1. V \in SUBSET s.viewChanges  OBVIOUS
    <3>2. \A r \in V : r.view = t.view /\ r.idx # i /\ r.height >= Len(t.highest)
      BY <1>1, <2>6 DEF OneViewChangeEach
    <3>3. \A r, q \in V : r.idx = q.idx => r = q  BY <1>1 DEF OneViewChangeEach
    <3> HIDE DEF V
    <3> QED  BY <1>3, <3>1, <3>2, <3>3 DEF Supported
  <2>10. Quiet(s, t)  BY <2>6 DEF Quiet, Sent
  <2>11. s.viewChanges \cup {} = s.viewChanges  OBVIOUS
  <2> QED  BY <2>5, <2>6, <2>7, <2>8, <2>9, <2>10, <2>11 DEF Moves, NodeInv, t
<1> QED  BY <1>2, <1>3

\* The fields that the invariant and PBFTLock look at, messages aside.
SameCore(s, t) ==
    /\ t.chain = s.chain /\ t.highest = s.highest /\ t.reported = s.reported
    /\ t.consNum = s.consNum /\ t.view = s.view
    /\ t.committedPrepare = s.committedPrepare
    /\ t.prepare = s.prepare /\ t.rawPrepare = s.rawPrepare
    /\ t.signCache = s.signCache /\ t.commitCache = s.commitCache
    /\ t.viewChanges = s.viewChanges

LEMMA SameCoreInv ==
    ASSUME NEW i, NEW s, NodeInv(i, s), NEW t \in WellFormed(i), SameCore(s, t),
           t.sealer = "rehandle" => s.sealer = "rehandle"
    PROVE  Calmer(s, t) /\ NodeInv(i, t)
<1>1. Len(s.chain) \in Nat  BY Fields DEF NodeInv, Consistent
<1>2. Calmer(s, t)  BY <1>1 DEF Calmer, SameCore
<1> QED  BY <1>2, CalmerLocks

LEMMA SendResult ==
    ASSUME NEW i, NEW s, NodeInv(i, s), NEW m \in Messages(i), m.type # "commit"
    PROVE  LET t == Send(s, m)
           IN  NodeInv(i, t) /\ SameCore(s, t) /\ Quiet(s, t) /\ t.sent = s.sent \cup {m}
               /\ t.toView = s.toView /\ t.sealer = s.sealer
<1> DEFINE t == Send(s, m)
<1>1. s \in WellFormed(i)  BY DEF NodeInv, Consistent
<1>2. /\ t \in WellFormed(i) /\ t.sent = s.sent \cup {m}
      /\ t.toView = s.toView /\ t.sealer = s.sealer
  BY <1>1 DEF WellFormed, Send
<1>3. SameCore(s, t)  BY <1>1 DEF WellFormed, Send, SameCore
<1> HIDE DEF t
<1>4. NodeInv(i, t)  BY <1>2, <1>3, SameCoreInv
<1>5. Quiet(s, t)  BY <1>2, <1>3, SentOther DEF Quiet, SameCore
<1> QED  BY <1>2, <1>3, <1>4, <1>5 DEF t

LEMMA ViewChangeMsg ==
    ASSUME NEW i \in Node, NEW b \in Block, NEW v \in 0..MaxView, NEW dst \in 0..N
    PROVE  LET m == Msg("viewchange", Req(b, v, i), dst)
           IN  m \in Messages(i) /\ m.type # "commit"
<1> DEFINE r == Req(b, v, i)
<1>1. r \in ViewChangeReqs /\ r.idx = i  BY ReqIsViewChange
<1> HIDE DEF r
<1>2. Msg("viewchange", r, dst) \in Messages(i) /\ Msg("viewchange", r, dst).type # "commit"
  BY <1>1 DEF Msg, Messages
<1> QED  BY <1>2 DEF r

LEMMA ViewChangeFields ==
    ASSUME NEW r \in ViewChangeReqs
    PROVE  /\ r.height = Len(r.block) /\ r.height \in 0..MaxNumber /\ r.view \in 0..MaxView
           /\ r.idx \in Node /\ r.block \in Block /\ r \in ViewChangeRequest
BY DEF ViewChangeReqs, ViewChangeRequest

LEMMA CatchupResult ==
    ASSUME NEW i \in Node, NEW s, NodeInv(i, s), NEW req \in ViewChangeReqs, NEW direct
    PROVE  LET t == CatchupView(i, s, req, direct)
           IN  NodeInv(i, t) /\ SameCore(s, t) /\ Quiet(s, t) /\ s.sent \subseteq t.sent
               /\ t.toView = s.toView
<1> DEFINE m == Msg("viewchange", ViewChangeReq(i, s), req.idx)
           t == CatchupView(i, s, req, direct)
<1>1. s.highest \in Block /\ s.toView \in 0..MaxView  BY Fields DEF NodeInv, Consistent
<1>2. req.idx \in 0..N  BY ViewChangeFields, NAssumption DEF Node
<1>3. m \in Messages(i) /\ m.type # "commit"
  BY <1>1, <1>2, ViewChangeMsg DEF ViewChangeReq
<1> HIDE DEF m
<1>4. t = s \/ t = Send(s, m)  BY DEF CatchupView, m
<1>5. CASE t = s  BY <1>5 DEF SameCore, Quiet
<1>6. CASE t = Send(s, m)
  <2> HIDE DEF t
  <2>1. /\ NodeInv(i, t) /\ SameCore(s, t) /\ Quiet(s, t) /\ t.sent = s.sent \cup {m}
        /\ t.toView = s.toView
    BY <1>3, <1>6, SendResult
  <2> QED  BY <2>1 DEF t
<1> QED  BY <1>4, <1>5, <1>6, Zenon

LEMMA AddViewChangeResult ==
    ASSUME NEW i, NEW s, NodeInv(i, s), NEW req \in ViewChangeReqs, req.idx # i,
           ~ExistsViewChange(s.viewChanges, req), req.height >= Len(s.highest)
    PROVE  LET t == [s EXCEPT !.viewChanges = @ \cup {req}]
           IN  /\ NodeInv(i, t) /\ t.viewChanges = s.viewChanges \cup {req} /\ Quiet(s, t)
               /\ t.sent = s.sent /\ t.commitCache = s.commitCache
               /\ t.highest = s.highest /\ t.view = s.view /\ t.toView = s.toView
<1> DEFINE t == [s EXCEPT !.viewChanges = @ \cup {req}]
<1>1. s \in WellFormed(i) /\ OneViewChangeEach(i, s)  BY DEF NodeInv, Consistent
<1>2. s.viewChanges \cup {req} \subseteq ViewChangeReqs  BY <1>1, Fields
<1>3. /\ t \in WellFormed(i) /\ t.prepare = s.prepare /\ t.rawPrepare = s.rawPrepare
      /\ t.commitCache = s.commitCache /\ t.signCache = s.signCache /\ t.sent = s.sent
      /\ t.chain = s.chain /\ t.highest = s.highest /\ t.reported = s.reported
      /\ t.consNum = s.consNum /\ t.view = s.view /\ t.sealer = s.sealer
      /\ t.committedPrepare = s.committedPrepare
      /\ t.viewChanges = s.viewChanges \cup {req} /\ t.toView = s.toView
  BY <1>1, <1>2 DEF WellFormed
<1> HIDE DEF t
<1>4. Heights(t) /\ PrepareCurrent(t) /\ OneCommitEach(t)
  BY <1>3 DEF NodeInv, Consistent, Heights, PrepareCurrent, OneCommitEach
<1>5. OneViewChangeEach(i, t)
  BY <1>1, <1>3 DEF OneViewChangeEach, ExistsViewChange
<1>6. \A c : SignsFor(t, c) = SignsFor(s, c) /\ (LockedOn(s, c) => LockedOn(t, c))
  BY <1>3 DEF SignsFor, LockedOn
<1>7. QuorumLocks(t)  BY <1>6 DEF NodeInv, QuorumLocks
<1>8. Quiet(s, t)  BY <1>3 DEF Quiet, Sent
<1> QED  BY <1>3, <1>4, <1>5, <1>7, <1>8 DEF NodeInv, Consistent, t

LEMMA Least ==
    ASSUME NEW S, S \subseteq Nat, S # {}
    PROVE  \E v \in S : \A w \in S : v <= w
<1> DEFINE R == OpToRel(<, Nat)
<1>1. \A v, w \in Nat : ~(<<w, v>> \in R) => v <= w  BY DEF OpToRel
<1>2. IsWellFoundedOn(R, Nat)  BY NatLessThanWellFounded DEF OpToRel
<1> HIDE DEF R
<1>3. \E v \in S : \A w \in S : ~(<<w, v>> \in R)
  BY <1>2, WFMin, Zenon
<1> QED  BY <1>1, <1>3, Zenon

LEMMA FastViewChangeResult ==
    ASSUME NEW i, NEW s, NodeInv(i, s), NEW ord
    PROVE  LET t == FastViewChange(s, ord)
           IN  NodeInv(i, t) /\ SameCore(s, t) /\ t.sent = s.sent
<1> DEFINE C == Counted(s, ord)
           S == {r.view : r \in C}
           t == FastViewChange(s, ord)
<1>1. s \in WellFormed(i) /\ s.viewChanges \subseteq ViewChangeReqs /\ s.toView \in 0..MaxView
  BY Fields DEF NodeInv, Consistent
<1>2. CASE ~CanTriggerViewChange(s, C)
  <2>1. t = s  BY <1>2 DEF FastViewChange
  <2> QED  BY <2>1 DEF SameCore
<1>3. CASE CanTriggerViewChange(s, C)
  <2>1. C # {}
    <3>1. SUFFICES ASSUME C = {} PROVE FALSE  OBVIOUS
    <3>2. {r.idx : r \in C} = {}  BY <3>1
    <3> QED  BY <1>3, <3>2, FS_EmptySet, Quorum DEF CanTriggerViewChange
  <2>2. \A r \in C : r.view \in 1..MaxView
    BY <1>1, ViewChangeFields DEF Counted
  <2> HIDE DEF C
  <2>3. S \subseteq Nat /\ S # {}  BY <2>1, <2>2
  <2>4. \E v \in S : \A r \in C : v <= r.view
    <3>1. \A r \in C : r.view \in S  OBVIOUS
    <3> HIDE DEF S
    <3>2. \E v \in S : \A w \in S : v <= w  BY <2>3, Least, Zenon
    <3> QED  BY <3>1, <3>2
  <2>5. MinView(C) \in S  BY <2>4 DEF MinView
  <2>6. MinView(C) - 1 \in 0..MaxView  BY <2>2, <2>5, BoundAssumption
  <2>7. t = [s EXCEPT !.toView = MinView(C) - 1]  BY <1>3 DEF FastViewChange, C
  <2>8. t \in WellFormed(i) /\ t.sent = s.sent /\ t.sealer = s.sealer
    BY <1>1, <2>6, <2>7 DEF WellFormed
  <2>9. SameCore(s, t)  BY <1>1, <2>7 DEF WellFormed, SameCore
  <2> HIDE DEF t
  <2>10. NodeInv(i, t)  BY <2>8, <2>9, SameCoreInv
  <2> QED  BY <2>8, <2>9, <2>10 DEF t
<1> QED  BY <1>2, <1>3

LEMMA ViewChangeMsgResult ==
    ASSUME NEW i \in Node, NEW s, NodeInv(i, s), NEW req \in ViewChangeReqs, NEW direct, NEW ord,
           NEW asked, req \in asked
    PROVE  Moves(i, s, HandleViewChange(i, s, req, direct, ord), asked)
<1> DEFINE c == CatchupView(i, s, req, direct)
           u == [c EXCEPT !.viewChanges = @ \cup {req}]
           t == HandleViewChange(i, s, req, direct, ord)
<1>1. s.viewChanges \subseteq s.viewChanges \cup asked  OBVIOUS
<1>2. CASE t = s  BY <1>1, <1>2 DEF Moves, Quiet
<1>3. /\ NodeInv(i, c) /\ SameCore(s, c) /\ Quiet(s, c) /\ s.sent \subseteq c.sent
      /\ c.toView = s.toView
  BY CatchupResult
<1>4. CASE t = c
  <2> HIDE DEF c, t
  <2> QED  BY <1>1, <1>3, <1>4 DEF Moves, SameCore, t
<1>5. ASSUME ~ExistsViewChange(s.viewChanges, req), req.idx # i, IsValidViewChange(s, req)
      PROVE  /\ NodeInv(i, u) /\ u.viewChanges = s.viewChanges \cup {req} /\ Quiet(s, u)
             /\ s.sent \subseteq u.sent /\ u.commitCache = s.commitCache
             /\ u.highest = s.highest /\ u.view = s.view
  <2>1. req.height \in Nat /\ Len(s.highest) \in Nat
    BY ViewChangeFields, Fields DEF NodeInv, Consistent
  <2>2. req.height >= Len(s.highest)  BY <1>5, <2>1 DEF IsValidViewChange, Outdated
  <2> HIDE DEF c
  <2>3. ~ExistsViewChange(c.viewChanges, req) /\ req.height >= Len(c.highest)
    BY <1>3, <1>5, <2>2 DEF SameCore
  <2>4. /\ NodeInv(i, u) /\ u.viewChanges = c.viewChanges \cup {req} /\ Quiet(c, u)
        /\ u.sent = c.sent /\ u.commitCache = c.commitCache
        /\ u.highest = c.highest /\ u.view = c.view
    BY <1>3, <1>5, <2>3, AddViewChangeResult
  <2> HIDE DEF u
  <2> QED  BY <1>3, <2>4 DEF SameCore, Quiet
<1>6. ASSUME ~ExistsViewChange(s.viewChanges, req), req.idx # i, IsValidViewChange(s, req),
             t = CheckAndChangeView(u)
      PROVE  Moves(i, s, t, asked)
  <2> HIDE DEF u, t
  <2>1. /\ NodeInv(i, u) /\ u.viewChanges = s.viewChanges \cup {req} /\ Quiet(s, u)
        /\ s.sent \subseteq u.sent /\ u.commitCache = s.commitCache
        /\ u.highest = s.highest /\ u.view = s.view
    BY <1>5, <1>6
  <2>2. Moves(i, u, t, {})  BY <1>6, <2>1, ChangeViewResult
  <2>3. u.viewChanges \cup {} \subseteq s.viewChanges \cup asked  BY <2>1
  <2>4. t.view = s.view \/ Supported(i, t, s.viewChanges \cup asked)
    BY <2>1, <2>2, <2>3 DEF Moves, Supported
  <2>5. Quiet(s, t)  BY <2>1, <2>2 DEF Moves, Quiet
  <2> QED  BY <2>1, <2>2, <2>3, <2>4, <2>5 DEF Moves
<1>7. ASSUME ~ExistsViewChange(s.viewChanges, req), req.idx # i, IsValidViewChange(s, req),
             t = FastViewChange(u, ord)
      PROVE  Moves(i, s, t, asked)
  <2> HIDE DEF u, t
  <2>1. /\ NodeInv(i, u) /\ u.viewChanges = s.viewChanges \cup {req} /\ Quiet(s, u)
        /\ s.sent \subseteq u.sent /\ u.commitCache = s.commitCache
        /\ u.highest = s.highest /\ u.view = s.view
    BY <1>5, <1>7
  <2>2. NodeInv(i, t) /\ SameCore(u, t) /\ t.sent = u.sent
    BY <1>7, <2>1, FastViewChangeResult
  <2>3. Quiet(s, t)  BY <2>1, <2>2 DEF SameCore, Quiet, Sent
  <2> QED  BY <2>1, <2>2, <2>3 DEF Moves, SameCore
<1>8. \/ t = s
      \/ t = c
      \/ /\ ~ExistsViewChange(s.viewChanges, req) /\ req.idx # i /\ IsValidViewChange(s, req)
         /\ t = CheckAndChangeView(u) \/ t = FastViewChange(u, ord)
  BY DEF HandleViewChange
<1> HIDE DEF c, u
<1> QED  BY <1>2, <1>4, <1>6, <1>7, <1>8

LEMMA ClearFlag ==
    ASSUME NEW i, NEW s \in WellFormed(i)
    PROVE  /\ [s EXCEPT !.leaderFailed = FALSE] \in WellFormed(i)
           /\ [s EXCEPT !.onViewChange = FALSE] \in WellFormed(i)
           /\ [s EXCEPT !.sealed = FALSE] \in WellFormed(i)
<1> DEFINE x == FALSE
<1>1. x \in BOOLEAN  OBVIOUS
<1> HIDE DEF x
<1>2. [s EXCEPT !.leaderFailed = x] \in WellFormed(i)  BY <1>1 DEF WellFormed
<1>3. [s EXCEPT !.onViewChange = x] \in WellFormed(i)  BY <1>1 DEF WellFormed
<1>4. [s EXCEPT !.sealed = x] \in WellFormed(i)  BY <1>1 DEF WellFormed
<1> QED  BY <1>2, <1>3, <1>4 DEF x

LEMMA RaiseFlag ==
    ASSUME NEW i, NEW s \in WellFormed(i)
    PROVE  /\ [s EXCEPT !.leaderFailed = TRUE] \in WellFormed(i)
           /\ [s EXCEPT !.onViewChange = TRUE] \in WellFormed(i)
           /\ [s EXCEPT !.sealed = TRUE] \in WellFormed(i)
           /\ [s EXCEPT !.reported = TRUE] \in WellFormed(i)
<1> DEFINE x == TRUE
<1>1. x \in BOOLEAN  OBVIOUS
<1> HIDE DEF x
<1>2. [s EXCEPT !.leaderFailed = x] \in WellFormed(i)  BY <1>1 DEF WellFormed
<1>3. [s EXCEPT !.onViewChange = x] \in WellFormed(i)  BY <1>1 DEF WellFormed
<1>4. [s EXCEPT !.sealed = x] \in WellFormed(i)  BY <1>1 DEF WellFormed
<1>5. [s EXCEPT !.reported = x] \in WellFormed(i)  BY <1>1 DEF WellFormed
<1> QED  BY <1>2, <1>3, <1>4, <1>5 DEF x

LEMMA TimeoutResult ==
    ASSUME NEW i \in Node, NEW s, NodeInv(i, s), s.toView < MaxView
    PROVE  Moves(i, s, Timeout(i, s), {})
<1> DEFINE a == [s EXCEPT !.toView = @ + 1]
           b == [a EXCEPT !.leaderFailed = TRUE]
           n == [b EXCEPT !.onViewChange = TRUE]
           K == {r \in n.viewChanges : ~(r.view = n.toView /\ Outdated(n, r))}
           k == [n EXCEPT !.viewChanges = K]
           m == Msg("viewchange", ViewChangeReq(i, n), All)
           w == Send(k, m)
           t == Timeout(i, s)
<1>1. s \in WellFormed(i) /\ s.toView \in 0..MaxView  BY Fields DEF NodeInv, Consistent
<1>2. t = CheckAndChangeView(w)  BY DEF Timeout
<1>3. /\ n \in WellFormed(i) /\ SameCore(s, n) /\ n.sent = s.sent /\ n.sealer = s.sealer
  <2>1. a \in WellFormed(i) /\ SameCore(s, a) /\ a.sent = s.sent /\ a.sealer = s.sealer
    <3>1. s.toView + 1 \in 0..MaxView  BY <1>1, BoundAssumption
    <3> QED  BY <1>1, <3>1 DEF WellFormed, SameCore
  <2> HIDE DEF a
  <2>2. b \in WellFormed(i) /\ SameCore(s, b) /\ b.sent = s.sent /\ b.sealer = s.sealer
    <3>1. b \in WellFormed(i)  BY <2>1, RaiseFlag, Zenon
    <3> QED  BY <2>1, <3>1 DEF WellFormed, SameCore
  <2> HIDE DEF b
  <2>3. n \in WellFormed(i)  BY <2>2, RaiseFlag, Zenon
  <2> QED  BY <2>2, <2>3 DEF WellFormed, SameCore
<1> HIDE DEF n
<1>4. K \subseteq n.viewChanges /\ K \subseteq ViewChangeReqs  BY <1>3, Fields
<1> HIDE DEF K
<1>5. /\ k \in WellFormed(i) /\ k.sent = n.sent /\ k.sealer = n.sealer
      /\ k.chain = n.chain /\ k.highest = n.highest /\ k.reported = n.reported
      /\ k.consNum = n.consNum /\ k.view = n.view
      /\ k.committedPrepare = n.committedPrepare
      /\ k.prepare = n.prepare /\ k.rawPrepare = n.rawPrepare
      /\ k.signCache = n.signCache /\ k.commitCache = n.commitCache
      /\ k.viewChanges = K
  BY <1>3, <1>4 DEF WellFormed
<1> HIDE DEF k
<1>6. Calmer(s, k)
  <2>1. Len(s.chain) \in Nat  BY <1>1, Fields
  <2> QED  BY <1>3, <1>4, <1>5, <2>1 DEF Calmer, SameCore
<1>7. NodeInv(i, k)  BY <1>5, <1>6, CalmerLocks
<1>8. m \in Messages(i) /\ m.type # "commit"
  <2>1. All \in 0..N  BY NAssumption DEF All
  <2>2. n.highest \in Block /\ n.toView \in 0..MaxView  BY <1>3, Fields
  <2> QED  BY <2>1, <2>2, ViewChangeMsg DEF ViewChangeReq
<1> HIDE DEF m
<1>9. NodeInv(i, w) /\ SameCore(k, w) /\ Quiet(k, w) /\ w.sent = k.sent \cup {m}
  BY <1>7, <1>8, SendResult
<1> HIDE DEF w
<1>10. Moves(i, w, t, {})  BY <1>2, <1>9, ChangeViewResult
<1> HIDE DEF t
<1>11. Quiet(s, t)
  <2>1. Quiet(s, k)  BY <1>3, <1>5 DEF Quiet, Sent, SameCore
  <2> QED  BY <1>9, <1>10, <2>1 DEF Moves, Quiet
<1>12. w.viewChanges \cup {} \subseteq s.viewChanges \cup {}
  BY <1>3, <1>4, <1>5, <1>9 DEF SameCore
<1>13. t.view = s.view \/ Supported(i, t, s.viewChanges \cup {})
  BY <1>3, <1>5, <1>9, <1>10, <1>12 DEF Moves, Supported, SameCore
<1> QED  BY <1>3, <1>5, <1>9, <1>10, <1>11, <1>12, <1>13, Zenon DEF Moves, SameCore, t

-----------------------------------------------------------------------------
(* Sealing and reporting *)

LEMMA ResetResult ==
    ASSUME NEW i, NEW s, NodeInv(i, s)
    PROVE  /\ LET t == ResetSealingBlock(s)
              IN  NodeInv(i, t) /\ SameCore(s, t) /\ t.sent = s.sent /\ t.sealer = s.sealer
           /\ LET t == ResetIfShould(s)
              IN  NodeInv(i, t) /\ SameCore(s, t) /\ t.sent = s.sent /\ t.sealer = s.sealer
<1> DEFINE a == [s EXCEPT !.sealing = s.chain]
           t == [a EXCEPT !.sealed = FALSE]
<1>1. s \in WellFormed(i) /\ s.chain \in Block  BY Fields DEF NodeInv, Consistent
<1>2. a \in WellFormed(i) /\ SameCore(s, a) /\ a.sent = s.sent /\ a.sealer = s.sealer
  BY <1>1 DEF WellFormed, SameCore
<1>3. ResetSealingBlock(s) = t  BY DEF ResetSealingBlock
<1> HIDE DEF a
<1>4. t \in WellFormed(i)  BY <1>2, ClearFlag, Zenon
<1>5. SameCore(s, t) /\ t.sent = s.sent /\ t.sealer = s.sealer
  BY <1>2 DEF WellFormed, SameCore
<1> HIDE DEF t
<1>6. NodeInv(i, t)  BY <1>4, <1>5, SameCoreInv
<1>7. SameCore(s, s)  BY DEF SameCore
<1> QED  BY <1>3, <1>5, <1>6, <1>7 DEF ResetIfShould

LEMMA ReportResult ==
    ASSUME NEW i, NEW s, NodeInv(i, s), ~s.reported \/ Len(s.chain) > Len(s.highest)
    PROVE  LET t == Report(s)
           IN  /\ NodeInv(i, t) /\ Quiet(s, t) /\ t.sent = s.sent /\ t.view = 0
               /\ t.commitCache \subseteq s.commitCache /\ t.viewChanges = {}
<1> DEFINE x == [s EXCEPT !.reported = TRUE]
           y == [x EXCEPT !.highest = s.chain]
           v == [y EXCEPT !.view = 0]
           w == [v EXCEPT !.toView = 0]
           l == [w EXCEPT !.leaderFailed = FALSE]
           c == [l EXCEPT !.consNum = Len(s.chain) + 1]
           p == [c EXCEPT !.prepare = NoReq]
           q == [p EXCEPT !.signCache = {}]
           r == [q EXCEPT !.viewChanges = {}]
           S == {e \in r.signCache : e.block # s.chain}
           C == {e \in r.commitCache : e.block # s.chain}
           P == IF r.prepare.block = s.chain THEN NoReq ELSE r.prepare
           d == [r EXCEPT !.signCache = S]
           o == [d EXCEPT !.commitCache = C]
           t == Report(s)
<1>1. /\ s \in WellFormed(i) /\ Heights(s) /\ s.chain \in Block /\ Len(s.chain) \in Nat
      /\ Len(s.highest) \in Nat /\ s.committedPrepare.height \in Int /\ s.consNum \in Nat
  BY Fields DEF NodeInv, Consistent
<1>2. Len(s.chain) >= s.consNum  BY <1>1 DEF Heights
<1>3. t = DelCache(ClearAllExceptCommitCache(c), s.chain)  BY <1>2 DEF Report
<1>4. ClearAllExceptCommitCache(c) = r  BY DEF ClearAllExceptCommitCache
<1>5. /\ y \in WellFormed(i) /\ y.reported = TRUE /\ y.highest = s.chain
      /\ y.chain = s.chain /\ y.committedPrepare = s.committedPrepare /\ y.sent = s.sent
      /\ y.commitCache = s.commitCache /\ y.sealer = s.sealer
  <2>1. x \in WellFormed(i)  BY <1>1, RaiseFlag, Zenon
  <2>2. /\ x.reported = TRUE /\ x.chain = s.chain /\ x.sent = s.sent /\ x.sealer = s.sealer
        /\ x.committedPrepare = s.committedPrepare /\ x.commitCache = s.commitCache
    BY <1>1 DEF WellFormed
  <2> HIDE DEF x
  <2> QED  BY <1>1, <2>1, <2>2 DEF WellFormed
<1> HIDE DEF y
<1>6. /\ w \in WellFormed(i) /\ w.reported = TRUE /\ w.highest = s.chain /\ w.view = 0
      /\ w.chain = s.chain /\ w.committedPrepare = s.committedPrepare /\ w.sent = s.sent
      /\ w.commitCache = s.commitCache /\ w.sealer = s.sealer
  <2>1. 0 \in 0..MaxView  BY BoundAssumption
  <2>2. /\ v \in WellFormed(i) /\ v.reported = TRUE /\ v.highest = s.chain /\ v.view = 0
        /\ v.chain = s.chain /\ v.committedPrepare = s.committedPrepare /\ v.sent = s.sent
        /\ v.commitCache = s.commitCache /\ v.sealer = s.sealer
    BY <1>5, <2>1 DEF WellFormed
  <2> HIDE DEF v
  <2> QED  BY <2>1, <2>2 DEF WellFormed
<1> HIDE DEF w
<1>7. /\ c \in WellFormed(i) /\ c.reported = TRUE /\ c.highest = s.chain /\ c.view = 0
      /\ c.chain = s.chain /\ c.committedPrepare = s.committedPrepare /\ c.sent = s.sent
      /\ c.commitCache = s.commitCache /\ c.sealer = s.sealer /\ c.consNum = Len(s.chain) + 1
  <2>1. l \in WellFormed(i)  BY <1>6, ClearFlag, Zenon
  <2>2. /\ l.reported = TRUE /\ l.highest = s.chain /\ l.view = 0
        /\ l.chain = s.chain /\ l.committedPrepare = s.committedPrepare /\ l.sent = s.sent
        /\ l.commitCache = s.commitCache /\ l.sealer = s.sealer
    BY <1>6 DEF WellFormed
  <2>3. Len(s.chain) + 1 \in 0..(MaxNumber + 1)
    <3>1. Len(s.chain) <= MaxNumber  BY <1>1, BlockLength
    <3> QED  BY <1>1, <3>1, BoundAssumption
  <2> HIDE DEF l
  <2> QED  BY <2>1, <2>2, <2>3 DEF WellFormed
<1> HIDE DEF c
<1>8. /\ q \in WellFormed(i) /\ q.reported = TRUE /\ q.highest = s.chain /\ q.view = 0
      /\ q.chain = s.chain /\ q.committedPrepare = s.committedPrepare /\ q.sent = s.sent
      /\ q.commitCache = s.commitCache /\ q.sealer = s.sealer /\ q.consNum = Len(s.chain) + 1
      /\ q.prepare = NoReq /\ q.signCache = {}
  <2>1. /\ p \in WellFormed(i) /\ p.reported = TRUE /\ p.highest = s.chain /\ p.view = 0
        /\ p.chain = s.chain /\ p.committedPrepare = s.committedPrepare /\ p.sent = s.sent
        /\ p.commitCache = s.commitCache /\ p.sealer = s.sealer /\ p.consNum = Len(s.chain) + 1
        /\ p.prepare = NoReq
    BY <1>7 DEF WellFormed
  <2> HIDE DEF p
  <2> QED  BY <2>1 DEF WellFormed
<1> HIDE DEF q
<1>9. /\ r \in WellFormed(i) /\ r.reported = TRUE /\ r.highest = s.chain /\ r.view = 0
      /\ r.chain = s.chain /\ r.committedPrepare = s.committedPrepare /\ r.sent = s.sent
      /\ r.commitCache = s.commitCache /\ r.sealer = s.sealer /\ r.consNum = Len(s.chain) + 1
      /\ r.prepare = NoReq /\ r.signCache = {} /\ r.viewChanges = {}
  BY <1>8 DEF WellFormed
<1> HIDE DEF r
<1>10. S = {} /\ P = NoReq /\ C \subseteq s.commitCache /\ C \subseteq Ballots
  BY <1>1, <1>9, Fields
<1>11. t = [o EXCEPT !.prepare = P]  BY <1>3, <1>4 DEF DelCache
<1> HIDE DEF C, P, S
<1>12. /\ t \in WellFormed(i) /\ t.reported = TRUE /\ t.highest = s.chain /\ t.view = 0
       /\ t.chain = s.chain /\ t.committedPrepare = s.committedPrepare /\ t.sent = s.sent
       /\ t.commitCache = C /\ t.sealer = s.sealer /\ t.consNum = Len(s.chain) + 1
       /\ t.prepare = NoReq /\ t.signCache = {} /\ t.viewChanges = {}
  <2>1. /\ d \in WellFormed(i) /\ d.reported = TRUE /\ d.highest = s.chain /\ d.view = 0
        /\ d.chain = s.chain /\ d.committedPrepare = s.committedPrepare /\ d.sent = s.sent
        /\ d.sealer = s.sealer /\ d.consNum = Len(s.chain) + 1
        /\ d.signCache = {} /\ d.viewChanges = {}
    BY <1>9, <1>10 DEF WellFormed
  <2> HIDE DEF d
  <2>2. /\ o \in WellFormed(i) /\ o.reported = TRUE /\ o.highest = s.chain /\ o.view = 0
        /\ o.chain = s.chain /\ o.committedPrepare = s.committedPrepare /\ o.sent = s.sent
        /\ o.commitCache = C /\ o.sealer = s.sealer /\ o.consNum = Len(s.chain) + 1
        /\ o.signCache = {} /\ o.viewChanges = {}
    BY <1>10, <2>1 DEF WellFormed
  <2> HIDE DEF o
  <2> QED  BY <1>10, <1>11, <2>2 DEF WellFormed
<1> HIDE DEF t
<1>13. Heights(t)  BY <1>1, <1>12 DEF Heights
<1>14. PrepareCurrent(t)  BY <1>12 DEF PrepareCurrent
<1>15. OneCommitEach(t) /\ OneViewChangeEach(i, t)
  BY <1>10, <1>12 DEF OneCommitEach, OneViewChangeEach, NodeInv, Consistent
<1>16. QuorumLocks(t)
  <2>1. \A b \in Block : SignsFor(t, b) = {}  BY <1>12 DEF SignsFor
  <2>2. ~(Cardinality({}) >= MinValidNodes)  BY FS_EmptySet, Quorum
  <2> QED  BY <2>1, <2>2, Zenon DEF QuorumLocks
<1>17. Quiet(s, t)  BY <1>12 DEF Quiet, Sent
<1> QED  BY <1>10, <1>12, <1>13, <1>14, <1>15, <1>16, <1>17 DEF NodeInv, Consistent, t

LEMMA SameCoreBefore ==
    ASSUME NEW i, NEW s, NEW t, NEW u, NEW arrived, SameCore(s, t),
           s.sent \subseteq t.sent, Sent(t, "commit") = Sent(s, "commit"), Acts(i, t, u, arrived)
    PROVE  Acts(i, s, u, arrived)
<1>1. Quiet(s, t)  BY DEF SameCore, Quiet
<1> QED  BY <1>1, ActsAfter DEF SameCore

LEMMA SameCoreAfter ==
    ASSUME NEW i, NEW s, NEW t, NEW u \in WellFormed(i), NEW arrived, Acts(i, s, t, arrived),
           SameCore(t, u), u.sent = t.sent, u.sealer = t.sealer
    PROVE  Acts(i, s, u, arrived)
<1>1. Quiet(t, u)  BY DEF SameCore, Quiet, Sent
<1>2. Calmer(t, u)  BY SameCoreInv DEF Acts
<1>3. u.commitCache = t.commitCache  BY DEF SameCore
<1> QED  BY <1>1, <1>2, <1>3, ActsBefore

\* A step that leaves the fields of the invariant alone.
LEMMA SameCoreActs ==
    ASSUME NEW i, NEW s, NodeInv(i, s), NEW t \in WellFormed(i), SameCore(s, t), t.sent = s.sent,
           t.sealer = "rehandle" => s.sealer = "rehandle", NEW arrived
    PROVE  Acts(i, s, t, arrived)
<1>1. Calmer(s, t)  BY SameCoreInv
<1>2. Quiet(s, t)  BY DEF SameCore, Quiet, Sent
<1>3. s.sent \subseteq t.sent  OBVIOUS
<1> QED  BY <1>1, <1>2, <1>3, CalmerActs

LEMMA ProposalIsBlock ==
    ASSUME NEW c \in Block, Len(c) < MaxNumber, NEW i \in Node, NEW p \in Payload
    PROVE  Proposal(c, i, p) \in Block /\ IsProposal(Proposal(c, i, p))
<1> DEFINE no == FALSE
           x == <<i, p, no>>
           b == Append(c, x)
<1>1. c \in Seq(Seal) /\ Len(c) \in Nat  BY BlockIsSeq, BlockLength
<1>2. x \in Seal /\ x[3] = no
  <2>1. no \in BOOLEAN  OBVIOUS
  <2> HIDE DEF no
  <2> QED  BY <2>1 DEF Seal
<1> HIDE DEF x
<1>3. b \in Seq(Seal) /\ Len(b) = Len(c) + 1 /\ b[Len(b)] = x
  BY <1>1, <1>2, SMT
<1>4. Proposal(c, i, p) = b  BY DEF Proposal, x
<1> HIDE DEF b
<1>5. Len(b) \in 0..MaxNumber /\ Len(b) > 0  BY <1>1, <1>3, BoundAssumption
<1>6. b \in Block  BY <1>3, <1>5, BlockIsSeq
<1> QED  BY <1>2, <1>3, <1>4, <1>5, <1>6 DEF IsProposal

LEMMA PrepareMsg ==
    ASSUME NEW i \in Node, NEW b \in Block, IsProposal(b), NEW v \in 0..MaxView
    PROVE  LET m == Msg("prepare", Req(b, v, i), All)
           IN  Req(b, v, i) \in Proposals /\ m \in Messages(i) /\ m.type # "commit"
<1> DEFINE r == Req(b, v, i)
<1>1. r \in Proposals /\ r.idx = i
  <2>1. Len(b) > 0  BY DEF IsProposal
  <2> QED  BY <2>1, ReqIsBallot
<1> HIDE DEF r
<1>2. Msg("prepare", r, All) \in Messages(i) /\ Msg("prepare", r, All).type # "commit"
  BY <1>1 DEF Msg, Messages
<1> QED  BY <1>1, <1>2 DEF r

LEMMA GenerateResult ==
    ASSUME NEW i \in Node, NEW s, NodeInv(i, s), NEW b \in Block, IsProposal(b),
           NEW busy, NEW arrived
    PROVE  Acts(i, s, GeneratePrepare(i, s, b, busy), arrived)
<1> DEFINE req == Req(b, s.view, i)
           m == Msg("prepare", req, All)
           a == [s EXCEPT !.sealed = TRUE]
           w == Send(a, m)
           l == [w EXCEPT !.leaderFailed = TRUE]
           h == HandlePrepare(i, l, req, busy)
           t == GeneratePrepare(i, s, b, busy)
<1>1. s \in WellFormed(i) /\ s.view \in 0..MaxView  BY Fields DEF NodeInv, Consistent
<1>2. req \in Proposals /\ m \in Messages(i) /\ m.type # "commit"  BY <1>1, PrepareMsg
<1>3. t = IF HasNoTransaction(b) THEN ResetSealingBlock(h) ELSE HandlePrepare(i, w, req, busy)
  BY DEF GeneratePrepare
<1> HIDE DEF req, m, t
<1>4. NodeInv(i, a) /\ SameCore(s, a) /\ a.sent = s.sent /\ a.sealer = s.sealer
  <2>1. a \in WellFormed(i)  BY <1>1, RaiseFlag, Zenon
  <2>2. SameCore(s, a) /\ a.sent = s.sent /\ a.sealer = s.sealer
    BY <1>1 DEF WellFormed, SameCore
  <2> HIDE DEF a
  <2> QED  BY <2>1, <2>2, SameCoreInv
<1> HIDE DEF a
<1>5. NodeInv(i, w) /\ SameCore(a, w) /\ Quiet(a, w) /\ w.sent = a.sent \cup {m}
  BY <1>2, <1>4, SendResult
<1> HIDE DEF w
<1>6. SameCore(s, w) /\ s.sent \subseteq w.sent /\ Sent(w, "commit") = Sent(s, "commit")
  <2>1. Sent(a, "commit") = Sent(s, "commit")  BY <1>4 DEF Sent
  <2>2. Sent(w, "commit") = Sent(a, "commit")  BY <1>5 DEF Quiet
  <2>3. SameCore(s, w)  BY <1>4, <1>5 DEF SameCore
  <2> QED  BY <1>4, <1>5, <2>1, <2>2, <2>3
<1>7. CASE ~HasNoTransaction(b)
  <2>1. Acts(i, w, t, arrived)  BY <1>2, <1>3, <1>5, <1>7, PrepareResult
  <2> QED  BY <1>6, <2>1, SameCoreBefore DEF t
<1>8. CASE HasNoTransaction(b)
  <2>1. NodeInv(i, l) /\ SameCore(w, l) /\ l.sent = w.sent
    <3>1. w \in WellFormed(i)  BY <1>5 DEF NodeInv, Consistent
    <3>2. l \in WellFormed(i)  BY <3>1, RaiseFlag, Zenon
    <3>3. SameCore(w, l) /\ l.sent = w.sent /\ l.sealer = w.sealer
      BY <3>1 DEF WellFormed, SameCore
    <3> HIDE DEF l
    <3> QED  BY <1>5, <3>2, <3>3, SameCoreInv
  <2> HIDE DEF l
  <2>2. Acts(i, l, h, arrived)  BY <1>2, <2>1, PrepareResult
  <2>3. SameCore(s, l) /\ s.sent \subseteq l.sent /\ Sent(l, "commit") = Sent(s, "commit")
    <3>1. Sent(l, "commit") = Sent(w, "commit")  BY <2>1 DEF Sent
    <3>2. SameCore(s, l)  BY <1>6, <2>1 DEF SameCore
    <3> QED  BY <1>6, <2>1, <3>1, <3>2
  <2> HIDE DEF h
  <2>4. Acts(i, s, h, arrived)  BY <2>2, <2>3, SameCoreBefore
  <2>5. t \in WellFormed(i) /\ SameCore(h, t) /\ t.sent = h.sent /\ t.sealer = h.sealer
    <3>1. NodeInv(i, h)  BY <2>4 DEF Acts
    <3> QED  BY <1>3, <1>8, <3>1, ResetResult DEF NodeInv, Consistent
  <2>6. Acts(i, s, t, arrived)  BY <2>4, <2>5, SameCoreAfter
  <2> QED  BY <2>6 DEF t
<1> QED  BY <1>7, <1>8

LEMMA SetSealer ==
    ASSUME NEW i, NEW s, NodeInv(i, s), NEW x \in {"idle", "seal", "rehandle"},
           x = "rehandle" => s.committedPrepare # NoReq
    PROVE  LET t == [s EXCEPT !.sealer = x]
           IN  NodeInv(i, t) /\ SameCore(s, t) /\ t.sent = s.sent /\ t.sealer = x
<1> DEFINE t == [s EXCEPT !.sealer = x]
<1>1. s \in WellFormed(i)  BY DEF NodeInv, Consistent
<1>2. t \in WellFormed(i) /\ t.sent = s.sent /\ t.sealer = x  BY <1>1 DEF WellFormed
<1>3. SameCore(s, t)  BY <1>1 DEF WellFormed, SameCore
<1> HIDE DEF t
<1>4. Heights(t) /\ PrepareCurrent(t) /\ OneCommitEach(t) /\ OneViewChangeEach(i, t)
  BY <1>2, <1>3, Zenon DEF NodeInv, Consistent, Heights, PrepareCurrent, OneCommitEach, OneViewChangeEach,
                    SameCore
<1>5. \A c : SignsFor(t, c) = SignsFor(s, c) /\ (LockedOn(s, c) => LockedOn(t, c))
  BY <1>3 DEF SignsFor, LockedOn, SameCore
<1>6. QuorumLocks(t)  BY <1>5 DEF NodeInv, QuorumLocks
<1> QED  BY <1>2, <1>3, <1>4, <1>6 DEF NodeInv, Consistent, t

LEMMA SetIdle ==
    ASSUME NEW i, NEW s, NodeInv(i, s)
    PROVE  LET t == [s EXCEPT !.sealer = "idle"]
           IN  NodeInv(i, t) /\ SameCore(s, t) /\ t.sent = s.sent
<1> DEFINE x == "idle"
<1>1. x \in {"idle", "seal", "rehandle"} /\ (x = "rehandle" => s.committedPrepare # NoReq)  OBVIOUS
<1> HIDE DEF x
<1> DEFINE t == [s EXCEPT !.sealer = x]
<1>2. NodeInv(i, t) /\ SameCore(s, t) /\ t.sent = s.sent  BY <1>1, SetSealer, Zenon
<1> QED  BY <1>2 DEF x

LEMMA RehandleResult ==
    ASSUME NEW i \in Node, NEW s, NodeInv(i, s), s.committedPrepare # NoReq, NEW busy, NEW arrived
    PROVE  Acts(i, s, RehandleCommittedPrepare(i, s, busy), arrived)
<1> DEFINE req == Req(s.committedPrepare.block, s.view, i)
           m == Msg("prepare", req, All)
           w == Send(s, m)
           t == RehandleCommittedPrepare(i, s, busy)
<1>1. s.view \in 0..MaxView /\ s.committedPrepare \in Proposals
  BY Fields, Zenon DEF NodeInv, Consistent
<1>2. s.committedPrepare.block \in Block /\ IsProposal(s.committedPrepare.block)
  BY <1>1, ProposalIsBallot, BallotFields
<1>3. req \in Proposals /\ m \in Messages(i) /\ m.type # "commit"  BY <1>1, <1>2, PrepareMsg
<1>4. t = HandlePrepare(i, w, req, busy)  BY DEF RehandleCommittedPrepare
<1> HIDE DEF req, m, t
<1>5. NodeInv(i, w) /\ SameCore(s, w) /\ Quiet(s, w) /\ w.sent = s.sent \cup {m}
  BY <1>3, SendResult
<1> HIDE DEF w
<1>6. Acts(i, w, t, arrived)  BY <1>3, <1>4, <1>5, PrepareResult
<1>7. s.sent \subseteq w.sent /\ Sent(w, "commit") = Sent(s, "commit")  BY <1>5 DEF Quiet
<1> QED  BY <1>5, <1>6, <1>7, SameCoreBefore, Zenon DEF t

LEMMA BootInv ==
    ASSUME NEW i, NEW c \in Block, NEW l \in Proposals \cup {NoReq}, NEW S \in SUBSET Messages(i),
           l.height <= Len(c) + 1
    PROVE  LET t == Booting(c, l, S)
           IN  NodeInv(i, t) /\ t.chain = c /\ t.committedPrepare = l /\ t.sent = S
               /\ t.view = 0 /\ t.commitCache = {} /\ t.viewChanges = {}
<1> DEFINE t == Booting(c, l, S)
<1>1. Len(c) \in Nat  BY BlockLength
<1>2. t \in WellFormed(i)
  <2> DEFINE no == FALSE
             e == {}
             idle == "idle"
  <2>1. no \in BOOLEAN /\ idle \in {"idle", "seal", "rehandle"}  OBVIOUS
  <2>2. <<>> \in Block /\ 0 \in 0..MaxView /\ 0 \in 0..(MaxNumber + 1)
    BY Genesis, BoundAssumption
  <2>3. e \in SUBSET Ballots /\ e \in SUBSET ViewChangeReqs  OBVIOUS
  <2>4. t = [chain |-> c, committedPrepare |-> l, sent |-> S,
             reported |-> no, highest |-> <<>>, consNum |-> 0, view |-> 0, toView |-> 0,
             leaderFailed |-> no, rawPrepare |-> NoReq, prepare |-> NoReq, futurePrepare |-> NoReq,
             signCache |-> e, commitCache |-> e, viewChanges |-> e, sealing |-> c,
             sealed |-> no, sealer |-> idle, onViewChange |-> no]
    BY Zenon DEF Booting
  <2> HIDE DEF no, e, idle, t
  <2> QED  BY <2>1, <2>2, <2>3, <2>4 DEF WellFormed
<1>3. /\ t.chain = c /\ t.committedPrepare = l /\ t.sent = S
      /\ t.reported = FALSE /\ t.highest = <<>> /\ t.consNum = 0 /\ t.view = 0
      /\ t.prepare = NoReq /\ t.signCache = {} /\ t.commitCache = {} /\ t.viewChanges = {}
      /\ t.sealer = "idle"
  BY Zenon DEF Booting
<1> HIDE DEF t
<1>4. Heights(t)  BY <1>1, <1>3, Genesis DEF Heights
<1>5. PrepareCurrent(t) /\ OneCommitEach(t) /\ OneViewChangeEach(i, t)
  BY <1>3 DEF PrepareCurrent, OneCommitEach, OneViewChangeEach
<1>6. QuorumLocks(t)
  <2>1. \A b \in Block : SignsFor(t, b) = {}  BY <1>3 DEF SignsFor
  <2>2. ~(Cardinality({}) >= MinValidNodes)  BY FS_EmptySet, Quorum
  <2> QED  BY <2>1, <2>2, Zenon DEF QuorumLocks
<1> QED  BY <1>2, <1>3, <1>4, <1>5, <1>6, Zenon DEF NodeInv, Consistent, t

LEMMA BootResult ==
    ASSUME NEW i, NEW s, NodeInv(i, s)
    PROVE  LET t == Booting(s.chain, s.committedPrepare, s.sent)
           IN  NodeInv(i, t) /\ Quiet(s, t) /\ t.sent = s.sent /\ t.view = 0
               /\ t.commitCache = {} /\ t.viewChanges = {}
<1> DEFINE t == Booting(s.chain, s.committedPrepare, s.sent)
<1>1. /\ s \in WellFormed(i) /\ Heights(s) /\ s.chain \in Block /\ Len(s.chain) \in Nat
      /\ Len(s.highest) \in Nat /\ s.committedPrepare.height \in Int
      /\ s.committedPrepare \in Proposals \cup {NoReq} /\ s.sent \in SUBSET Messages(i)
  BY Fields DEF NodeInv, Consistent
<1>2. s.committedPrepare.height <= Len(s.chain) + 1  BY <1>1 DEF Heights
<1>3. /\ NodeInv(i, t) /\ t.chain = s.chain /\ t.committedPrepare = s.committedPrepare
      /\ t.sent = s.sent /\ t.view = 0 /\ t.commitCache = {} /\ t.viewChanges = {}
  <2> DEFINE c == s.chain
             l == s.committedPrepare
             S == s.sent
  <2>1. /\ c \in Block /\ l \in Proposals \cup {NoReq} /\ S \in SUBSET Messages(i)
        /\ l.height <= Len(c) + 1
    BY <1>1, <1>2
  <2>2. t = Booting(c, l, S)  OBVIOUS
  <2> HIDE DEF c, l, S, t
  <2>3. /\ NodeInv(i, t) /\ t.chain = c /\ t.committedPrepare = l
        /\ t.sent = S /\ t.view = 0 /\ t.commitCache = {} /\ t.viewChanges = {}
    BY <2>1, <2>2, BootInv
  <2> QED  BY <2>3 DEF c, l, S
<1> HIDE DEF t
<1>4. Quiet(s, t)  BY <1>3 DEF Quiet, Sent
<1> QED  BY <1>3, <1>4 DEF t
=============================================================================
