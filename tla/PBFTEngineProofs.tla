-------------------------- MODULE PBFTEngineProofs --------------------------
(***************************************************************************)
(* Proofs about PBFTEngine for any number of miners, any of them down, any *)
(* payloads and any bounds: the caches stay consistent with the view and   *)
(* the height, a quorum of signs always locks, a view is entered only with *)
(* a quorum, and the engine implements PBFTLock, so that its chains agree. *)
(***************************************************************************)
EXTENDS PBFTRefinement, PBFTNodeProofs


(* The invariant of the whole group *)

\* The caches hold what other nodes have really sent.
Authentic ==
    \A i \in Node :
        /\ \A r \in node[i].commitCache : r \in Sent(node[r.idx], "commit")
        /\ \A r \in node[i].viewChanges : r \in Sent(node[r.idx], "viewchange")

EngineInv ==
    TypeOK /\ (\A i \in Node : NodeInv(i, node[i])) /\ Authentic /\ ViewHasQuorum

\* What every step does to the state s of node i, when the commit requests of
\* "arrived" and the view-change requests of "asked" can reach it.
Keeps(i, s, t, arrived, asked) ==
    /\ NodeInv(i, t)
    /\ s.sent \subseteq t.sent
    /\ \A r \in t.commitCache \ s.commitCache : r \in Sent(t, "commit") \/ r \in arrived
    /\ t.viewChanges \subseteq s.viewChanges \cup asked
    /\ \/ t.view = 0
       \/ t.view = s.view /\ t.highest = s.highest
       \/ Supported(i, t, s.viewChanges \cup asked)

\* Node i takes a step to the state t.
Steps(i, t) ==
    /\ node' = [node EXCEPT ![i] = t]
    /\ restarts' \in 0..MaxRestarts
    /\ Keeps(i, node[i], t, Arriving(i, "commit"), Arriving(i, "viewchange"))

LEMMA ActsKeeps ==
    ASSUME NEW i, NEW s, NEW t, NEW arrived, NEW asked, Acts(i, s, t, arrived)
    PROVE  Keeps(i, s, t, arrived, asked) /\ LockStep(i, s, t)
BY DEF Acts, Keeps

LEMMA MovesKeeps ==
    ASSUME NEW i, NEW s, NEW t, NEW arrived, NEW asked, Moves(i, s, t, asked)
    PROVE  Keeps(i, s, t, arrived, asked) /\ LockStep(i, s, t)
BY QuietLocks DEF Moves, Keeps

LEMMA WellFormedState == ASSUME NEW i, NEW s \in WellFormed(i) PROVE s \in NodeState
<1>1. Proposals \subseteq Request /\ Ballots \subseteq Request /\ ViewChangeReqs \subseteq ViewChangeRequest
  BY DEF Proposals, Ballots, ViewChangeReqs
<1>2. Messages(i) \subseteq
             [type : {"prepare", "sign", "commit"}, req : Request, dst : {All}]
        \cup [type : {"viewchange"}, req : ViewChangeRequest, dst : 0..N]
  BY <1>1 DEF Messages
<1> QED  BY <1>1, <1>2 DEF WellFormed, NodeState

\* Who has sent what arrives.
LEMMA ArrivingSent ==
    ASSUME \A j \in Node : NodeInv(j, node[j]), NEW i \in Node
    PROVE  /\ Arriving(i, "prepare") \subseteq Proposals
           /\ Arriving(i, "sign") \subseteq Ballots
           /\ Arriving(i, "commit") \subseteq Ballots
           /\ Arriving(i, "viewchange") \subseteq ViewChangeReqs
           /\ \A type : \A r \in Arriving(i, type) :
                r.idx \in Node \ {i} /\ r \in Sent(node[r.idx], type)
<1>1. \A j \in Node : node[j].sent \subseteq Messages(j)
  BY Fields DEF NodeInv, Consistent
<1>2. ASSUME NEW type, NEW r \in Arriving(i, type)
      PROVE  \E j \in Node \ {i} : \E m \in node[j].sent : m.type = type /\ m.req = r
  BY <1>2 DEF Arriving
<1>3. ASSUME NEW j, NEW m \in Messages(j)
      PROVE  /\ m.type = "prepare" => m.req \in Proposals
             /\ m.type = "sign" => m.req \in Ballots
             /\ m.type = "commit" => m.req \in Ballots
             /\ m.type = "viewchange" => m.req \in ViewChangeReqs
             /\ m.req.idx = j
  BY DEF Messages
<1>4. ASSUME NEW type, NEW r \in Arriving(i, type)
      PROVE  r.idx \in Node \ {i} /\ r \in Sent(node[r.idx], type)
  <2>1. PICK j \in Node \ {i} : \E m \in node[j].sent : m.type = type /\ m.req = r
    BY <1>2, <1>4
  <2>2. PICK m \in node[j].sent : m.type = type /\ m.req = r  BY <2>1
  <2>3. r.idx = j  BY <1>1, <1>3, <2>1, <2>2
  <2> QED  BY <2>2, <2>3 DEF Sent
<1>5. Arriving(i, "prepare") \subseteq Proposals  BY <1>1, <1>2, <1>3
<1>6. Arriving(i, "sign") \subseteq Ballots  BY <1>1, <1>2, <1>3
<1>7. Arriving(i, "commit") \subseteq Ballots  BY <1>1, <1>2, <1>3
<1>8. Arriving(i, "viewchange") \subseteq ViewChangeReqs  BY <1>1, <1>2, <1>3
<1> QED  BY <1>4, <1>5, <1>6, <1>7, <1>8

LEMMA OwnMessages ==
    ASSUME NEW i, NEW s \in WellFormed(i), NEW type, NEW r \in Sent(s, type)
    PROVE  r.idx = i
<1>1. PICK m \in s.sent : m.req = r  BY DEF Sent
<1>2. m \in Messages(i)  BY <1>1, Fields
<1> QED  BY <1>1, <1>2 DEF Messages

LEMMA SentGrows ==
    ASSUME NEW s, NEW t, s.sent \subseteq t.sent, NEW type
    PROVE  Sent(s, type) \subseteq Sent(t, type)
BY DEF Sent

\* The state of every node after the step of one.
LEMMA AfterStep ==
    ASSUME EngineInv, NEW i \in Node, NEW t, Steps(i, t)
    PROVE  /\ node' \in [Node -> NodeState] /\ node'[i] = t
           /\ \A j \in Node : j # i => node'[j] = node[j]
           /\ \A j \in Node : NodeInv(j, node'[j])
           /\ \A j \in Node : \A r \in Sent(node[j], "commit") : r \in Sent(node'[j], "commit")
           /\ \A j \in Node : \A r \in Sent(node[j], "viewchange") : r \in Sent(node'[j], "viewchange")
<1>1. node \in [Node -> NodeState]  BY DEF EngineInv, TypeOK
<1>2. NodeInv(i, t) /\ node[i].sent \subseteq t.sent  BY DEF Steps, Keeps
<1>3. t \in NodeState  BY <1>2, WellFormedState DEF NodeInv, Consistent
<1>4. /\ node' \in [Node -> NodeState] /\ node'[i] = t
      /\ \A j \in Node : j # i => node'[j] = node[j]
  BY <1>1, <1>3 DEF Steps
<1>5. \A j \in Node : NodeInv(j, node'[j])  BY <1>2, <1>4 DEF EngineInv
<1>6. \A j \in Node : node[j].sent \subseteq node'[j].sent  BY <1>2, <1>4
<1>7. \A j \in Node : Sent(node[j], "commit") \subseteq Sent(node'[j], "commit")
  BY <1>6, SentGrows
<1>8. \A j \in Node : Sent(node[j], "viewchange") \subseteq Sent(node'[j], "viewchange")
  BY <1>6, SentGrows
<1> QED  BY <1>4, <1>5, <1>7, <1>8

LEMMA StepAuthentic ==
    ASSUME EngineInv, NEW i \in Node, NEW t, Steps(i, t)
    PROVE  Authentic'
<1>1. /\ node'[i] = t /\ \A j \in Node : j # i => node'[j] = node[j]
      /\ \A j \in Node : NodeInv(j, node'[j])
      /\ \A j \in Node : \A r \in Sent(node[j], "commit") : r \in Sent(node'[j], "commit")
      /\ \A j \in Node : \A r \in Sent(node[j], "viewchange") : r \in Sent(node'[j], "viewchange")
  BY AfterStep
<1>2. /\ Keeps(i, node[i], t, Arriving(i, "commit"), Arriving(i, "viewchange"))
      /\ Authentic /\ \A j \in Node : NodeInv(j, node[j])
  BY DEF Steps, EngineInv
<1>3. /\ \A r \in Arriving(i, "commit") : r.idx \in Node /\ r \in Sent(node[r.idx], "commit")
      /\ \A r \in Arriving(i, "viewchange") : r.idx \in Node /\ r \in Sent(node[r.idx], "viewchange")
  BY <1>2, ArrivingSent
<1>4. \A j \in Node :
        /\ \A r \in node[j].commitCache : r.idx \in Node
        /\ \A r \in node[j].viewChanges : r.idx \in Node
  BY <1>2, Fields, BallotFields, ViewChangeFields DEF NodeInv, Consistent
<1>5. ASSUME NEW r \in t.commitCache PROVE r \in Sent(node'[r.idx], "commit")
  <2>1. CASE r \in node[i].commitCache  BY <1>1, <1>2, <1>4, <2>1 DEF Authentic
  <2>2. CASE r \in Sent(t, "commit")
    <3>1. r.idx = i  BY <1>1, <2>2, OwnMessages DEF NodeInv, Consistent
    <3> QED  BY <1>1, <2>2, <3>1
  <2>3. CASE r \in Arriving(i, "commit")  BY <1>1, <1>3, <2>3
  <2> QED  BY <1>2, <2>1, <2>2, <2>3 DEF Keeps
<1>6. ASSUME NEW r \in t.viewChanges PROVE r \in Sent(node'[r.idx], "viewchange")
  <2>1. CASE r \in node[i].viewChanges  BY <1>1, <1>2, <1>4, <2>1 DEF Authentic
  <2>2. CASE r \in Arriving(i, "viewchange")  BY <1>1, <1>3, <2>2
  <2> QED  BY <1>2, <2>1, <2>2 DEF Keeps
<1>7. ASSUME NEW j \in Node, j # i
      PROVE  /\ \A r \in node'[j].commitCache : r \in Sent(node'[r.idx], "commit")
             /\ \A r \in node'[j].viewChanges : r \in Sent(node'[r.idx], "viewchange")
  BY <1>1, <1>2, <1>4, <1>7 DEF Authentic
<1> QED  BY <1>1, <1>5, <1>6, <1>7 DEF Authentic

LEMMA StepViewHasQuorum ==
    ASSUME EngineInv, NEW i \in Node, NEW t, Steps(i, t)
    PROVE  ViewHasQuorum'
<1> DEFINE W(q) == {j \in Node \ {q} : \E r \in Sent(node[j], "viewchange") :
                        r.view = node[q].view /\ r.height >= Len(node[q].highest)}
           X(q) == {j \in Node \ {q} : \E r \in Sent(node'[j], "viewchange") :
                        r.view = node'[q].view /\ r.height >= Len(node'[q].highest)}
<1>1. /\ node'[i] = t /\ \A j \in Node : j # i => node'[j] = node[j]
      /\ \A j \in Node : \A r \in Sent(node[j], "viewchange") : r \in Sent(node'[j], "viewchange")
  BY AfterStep
<1>2. /\ Keeps(i, node[i], t, Arriving(i, "commit"), Arriving(i, "viewchange"))
      /\ Authentic /\ \A j \in Node : NodeInv(j, node[j])
  BY DEF Steps, EngineInv
<1>3. \A q \in Up : q \in Node  BY DEF Up
<1>4. \A q : IsFiniteSet(X(q)) /\ Cardinality(X(q)) \in Nat
  <2>1. \A q : X(q) \in SUBSET Node  OBVIOUS
  <2> HIDE DEF X
  <2> QED  BY <2>1, NodeFinite, FS_Subset, FS_CardinalityType
<1>5. ASSUME NEW q \in Up, node[q].view > 0, node'[q].view = node[q].view,
             node'[q].highest = node[q].highest
      PROVE  Cardinality(X(q)) >= MinValidNodes - 1
  <2>1. W(q) \in SUBSET X(q)  BY <1>1, <1>5
  <2>2. Cardinality(W(q)) >= MinValidNodes - 1  BY <1>5 DEF EngineInv, ViewHasQuorum
  <2> HIDE DEF W, X
  <2>3. Cardinality(W(q)) \in Nat /\ Cardinality(W(q)) <= Cardinality(X(q))
    BY <1>4, <2>1, FS_Subset, FS_CardinalityType
  <2> QED  BY <1>4, <2>2, <2>3, Quorum
<1>6. ASSUME Supported(i, t, node[i].viewChanges \cup Arriving(i, "viewchange"))
      PROVE  Cardinality(X(i)) >= MinValidNodes - 1
  <2>1. PICK V \in SUBSET (node[i].viewChanges \cup Arriving(i, "viewchange")) :
          /\ \A r \in V : r.view = t.view /\ r.idx # i /\ r.height >= Len(t.highest)
          /\ \A r, q \in V : r.idx = q.idx => r = q
          /\ Cardinality(V) >= MinValidNodes - 1
    BY <1>6 DEF Supported
  <2>2. \A r \in V : r.idx \in Node /\ r \in Sent(node[r.idx], "viewchange")
    <3>1. \A r \in node[i].viewChanges : r.idx \in Node
      BY <1>2, Fields, ViewChangeFields, Zenon DEF NodeInv, Consistent
    <3>2. \A r \in node[i].viewChanges : r \in Sent(node[r.idx], "viewchange")
      BY <1>2 DEF Authentic
    <3>3. \A r \in Arriving(i, "viewchange") :
            r.idx \in Node /\ r \in Sent(node[r.idx], "viewchange")
      BY <1>2, ArrivingSent
    <3> QED  BY <2>1, <3>1, <3>2, <3>3
  <2>3. \A r \in V : r.idx \in X(i)  BY <1>1, <2>1, <2>2
  <2>4. X(i) \in SUBSET Node  OBVIOUS
  <2> HIDE DEF X
  <2>5. Cardinality(V) <= Cardinality(X(i)) /\ Cardinality(V) \in Nat
    BY <2>1, <2>3, <2>4, CountByIndex, Zenon
  <2> QED  BY <1>4, <2>1, <2>5, Quorum
<1>7. ASSUME NEW q \in Up, node'[q].view > 0
      PROVE  Cardinality(X(q)) >= MinValidNodes - 1
  <2> HIDE DEF W, X
  <2>1. CASE q # i  BY <1>1, <1>3, <1>5, <1>7, <2>1
  <2>2. CASE q = i
    <3>1. t.view > 0  BY <1>1, <1>7, <2>2
    <3>2. t.view = 0 \/ (t.view = node[i].view /\ t.highest = node[i].highest)
          \/ Supported(i, t, node[i].viewChanges \cup Arriving(i, "viewchange"))
      BY <1>2 DEF Keeps
    <3>3. CASE t.view = node[i].view /\ t.highest = node[i].highest
      BY <1>1, <1>5, <2>2, <3>1, <3>3
    <3>4. CASE Supported(i, t, node[i].viewChanges \cup Arriving(i, "viewchange"))
      BY <1>6, <2>2, <3>4
    <3> QED  BY <3>1, <3>2, <3>3, <3>4
  <2> QED  BY <2>1, <2>2
<1> QED  BY <1>7 DEF ViewHasQuorum

LEMMA StepInv ==
    ASSUME EngineInv, NEW i \in Node, NEW t, Steps(i, t)
    PROVE  EngineInv'
<1>1. TypeOK'
  <2>1. node' \in [Node -> NodeState]  BY AfterStep
  <2>2. restarts' \in 0..MaxRestarts  BY DEF Steps
  <2> QED  BY <2>1, <2>2 DEF TypeOK
<1>2. \A j \in Node : NodeInv(j, node'[j])  BY AfterStep
<1>3. Authentic' /\ ViewHasQuorum'  BY StepAuthentic, StepViewHasQuorum
<1> QED  BY <1>1, <1>2, <1>3 DEF EngineInv

-----------------------------------------------------------------------------
(* The steps of PBFTLock *)

\* The operators of PBFTLock are those of PBFTEngine.
LEMMA LockOperators ==
    /\ Lock!Node = Node /\ Lock!Block = Block /\ Lock!MinValidNodes = MinValidNodes
    /\ \A S : Lock!Cardinality(S) = Cardinality(S)
    /\ \A b, c : Lock!Extends(b, c) <=> Extends(b, c)
<1>1. Lock!Node = Node  BY DEF Lock!Node, Node
<1>2. Lock!Block = Block  BY DEF Lock!Block, Block
<1>3. Lock!MinValidNodes = MinValidNodes  BY DEF Lock!MinValidNodes, Lock!F, MinValidNodes, F
<1>4. \A S : Lock!Cardinality(S) = Cardinality(S)  BY DEF Lock!Cardinality, Cardinality
<1>5. \A b, c : Lock!Extends(b, c) <=> Extends(b, c)  BY DEF Lock!Extends, Extends
<1> QED  BY <1>1, <1>2, <1>3, <1>4, <1>5

Voters(b) == {j \in Node : <<j, b>> \in Votes}

\* A quorum in a commit cache is a quorum of votes.
CommitQuorums ==
    \A i \in Node, b \in Block :
        Cardinality(ForBlock(node[i].commitCache, b)) >= MinValidNodes =>
            Cardinality(Voters(b)) >= MinValidNodes /\ Voters(b) # {}

LEMMA QuorumOfVotes == EngineInv => CommitQuorums
<1> SUFFICES ASSUME EngineInv, NEW i \in Node, NEW b \in Block,
                    Cardinality(ForBlock(node[i].commitCache, b)) >= MinValidNodes
             PROVE  Cardinality(Voters(b)) >= MinValidNodes /\ Voters(b) # {}
  BY DEF CommitQuorums
<1> DEFINE S == ForBlock(node[i].commitCache, b)
           T == Voters(b)
<1>1. NodeInv(i, node[i]) /\ Authentic  BY DEF EngineInv
<1>2. S \subseteq node[i].commitCache /\ \A r \in S : r.block = b  BY DEF ForBlock
<1>3. \A r \in node[i].commitCache : r.idx \in Node
  BY <1>1, Fields, BallotFields DEF NodeInv, Consistent
<1>4. \A r \in S : r.idx \in Node /\ r \in Sent(node[r.idx], "commit")
  BY <1>1, <1>2, <1>3 DEF Authentic
<1>5. \A r, q \in S : r.idx = q.idx => r = q
  BY <1>1, <1>2 DEF NodeInv, Consistent, OneCommitEach, SameKey
<1>6. \A r \in S : <<r.idx, b>> \in Votes
  <2>1. \A r \in S : <<r.idx, r.block>> \in VotesOf(r.idx, node[r.idx])  BY <1>4 DEF VotesOf
  <2> QED  BY <1>2, <1>4, <2>1 DEF Votes
<1>7. T \in SUBSET Node /\ \A r \in S : r.idx \in T  BY <1>4, <1>6 DEF Voters
<1> HIDE DEF S, T
<1>8. Cardinality(S) \in Nat /\ Cardinality(T) \in Nat /\ Cardinality(S) <= Cardinality(T)
  BY <1>5, <1>7, CountByIndex, Zenon
<1>9. Cardinality(T) >= MinValidNodes  BY <1>8, Quorum DEF S
<1>10. S # {}  BY FS_EmptySet, Quorum DEF S
<1> QED  BY <1>7, <1>9, <1>10 DEF T

LEMMA ChosenVotes ==
    ASSUME NEW V, NEW b, Cardinality({j \in Node : <<j, b>> \in V}) >= MinValidNodes
    PROVE  Lock!Chosen(V, b)
BY LockOperators DEF Lock!Chosen, Lock!Voters

LEMMA Override ==
    ASSUME NEW S, NEW f, f = [j \in S |-> f[j]], NEW g, g = [j \in S |-> g[j]], NEW i \in S,
           \A j \in S : j # i => g[j] = f[j]
    PROVE  g = [f EXCEPT ![i] = g[i]]
<1> DEFINE h == [f EXCEPT ![i] = g[i]]
<1>1. h = [j \in S |-> h[j]]  OBVIOUS
<1>2. \A j \in S : h[j] = g[j]  OBVIOUS
<1> HIDE DEF h
<1>3. h = g  BY <1>1, <1>2
<1> QED  BY <1>3 DEF h

\* The locks, the chains and the votes when node i gets the state t.
LEMMA LocksAfter ==
    ASSUME EngineInv, NEW i \in Node, NEW t, node' = [node EXCEPT ![i] = t]
    PROVE  /\ Locks' = [Locks EXCEPT ![i] = LockOf(t)]
           /\ LockOf(t) = LockOf(node[i]) => Locks' = Locks
           /\ Chains' = [Chains EXCEPT ![i] = t.chain]
           /\ t.chain = node[i].chain => Chains' = Chains
           /\ VotesOf(i, t) = VotesOf(i, node[i]) => Votes' = Votes
           /\ \A b : VotesOf(i, t) = VotesOf(i, node[i]) \cup {<<i, b>>} => Votes' = Votes \cup {<<i, b>>}
<1>1. node \in [Node -> NodeState]  BY DEF EngineInv, TypeOK
<1>2. node'[i] = t /\ \A j \in Node : j # i => node'[j] = node[j]  BY <1>1
<1>3. Locks' = [Locks EXCEPT ![i] = LockOf(t)] /\ (LockOf(t) = LockOf(node[i]) => Locks' = Locks)
  <2>1. Locks = [j \in Node |-> Locks[j]] /\ Locks' = [j \in Node |-> (Locks')[j]]
    BY DEF Locks, LockOf
  <2>2. \A j \in Node : Locks[j] = LockOf(node[j])  BY DEF Locks
  <2>3. \A j \in Node : (Locks')[j] = LockOf(node'[j])  BY DEF Locks, LockOf
  <2>4. (Locks')[i] = LockOf(t) /\ \A j \in Node : j # i => (Locks')[j] = Locks[j]
    BY <1>2, <2>2, <2>3
  <2>5. Locks' = [Locks EXCEPT ![i] = (Locks')[i]]  BY <2>1, <2>4, Override, Zenon
  <2>6. ASSUME LockOf(t) = LockOf(node[i]) PROVE Locks' = Locks
    <3>1. \A j \in Node : (Locks')[j] = Locks[j]  BY <2>2, <2>4, <2>6
    <3> QED  BY <2>1, <3>1, Zenon
  <2> QED  BY <2>4, <2>5, <2>6, Zenon
<1>4. Chains' = [Chains EXCEPT ![i] = t.chain] /\ (t.chain = node[i].chain => Chains' = Chains)
  <2>1. Chains = [j \in Node |-> Chains[j]] /\ Chains' = [j \in Node |-> (Chains')[j]]
    BY DEF Chains
  <2>2. \A j \in Node : Chains[j] = node[j].chain /\ (Chains')[j] = node'[j].chain  BY DEF Chains
  <2>3. (Chains')[i] = t.chain /\ \A j \in Node : j # i => (Chains')[j] = Chains[j]
    BY <1>2, <2>2
  <2>4. Chains' = [Chains EXCEPT ![i] = (Chains')[i]]  BY <2>1, <2>3, Override, Zenon
  <2>5. ASSUME t.chain = node[i].chain PROVE Chains' = Chains
    <3>1. \A j \in Node : (Chains')[j] = Chains[j]  BY <2>2, <2>3, <2>5
    <3> QED  BY <2>1, <3>1, Zenon
  <2> QED  BY <2>3, <2>4, <2>5, Zenon
<1>5. Votes' = UNION {VotesOf(j, node'[j]) : j \in Node}  BY DEF Votes, VotesOf, Sent
<1>6. VotesOf(i, t) = VotesOf(i, node[i]) => Votes' = Votes
  BY <1>2, <1>5 DEF Votes
<1>7. ASSUME NEW b, VotesOf(i, t) = VotesOf(i, node[i]) \cup {<<i, b>>}
      PROVE  Votes' = Votes \cup {<<i, b>>}
  BY <1>2, <1>5, <1>7 DEF Votes
<1> QED  BY <1>3, <1>4, <1>6, <1>7

LEMMA LockedStep ==
    ASSUME EngineInv, EngineInv', NEW i \in Node, NEW t, node' = [node EXCEPT ![i] = t],
           LockStep(i, node[i], t)
    PROVE  UNCHANGED Lock!vars \/ Lock!Next
<1> DEFINE s == node[i]
<1>1. /\ Locks' = [Locks EXCEPT ![i] = LockOf(t)] /\ (LockOf(t) = LockOf(s) => Locks' = Locks)
      /\ Chains' = [Chains EXCEPT ![i] = t.chain] /\ (t.chain = s.chain => Chains' = Chains)
      /\ VotesOf(i, t) = VotesOf(i, s) => Votes' = Votes
      /\ \A b : VotesOf(i, t) = VotesOf(i, s) \cup {<<i, b>>} => Votes' = Votes \cup {<<i, b>>}
  BY LocksAfter, Zenon
<1>2. Locks[i] = LockOf(s) /\ Chains[i] = s.chain  BY DEF Locks, Chains
<1>3. node'[i] = t  BY DEF EngineInv, TypeOK
<1>4. ASSUME NEW b \in Block, SavesBlock(s, t, b)
      PROVE  /\ Lock!CanSave(i, b, Votes') /\ \E j \in Node : <<j, b>> \in Votes'
             /\ t.chain = b
  <2>1. CommitQuorums'  BY QuorumOfVotes, PTL
  <2>2. Cardinality({j \in Node : <<j, b>> \in Votes'}) >= MinValidNodes
        /\ \E j \in Node : <<j, b>> \in Votes'
    BY <1>3, <1>4, <2>1 DEF SavesBlock, CommitQuorums, Voters
  <2>4. Lock!Chosen(Votes', b)  BY <2>2, ChosenVotes, Zenon
  <2>3. Lock!Extends(b, Chains[i])  BY <1>2, <1>4, LockOperators DEF SavesBlock
  <2> QED  BY <1>4, <2>2, <2>3, <2>4 DEF Lock!CanSave, SavesBlock
<1>5. CASE KeepsLock(i, s, t) /\ t.chain = s.chain
  BY <1>1, <1>5 DEF KeepsLock, Lock!vars
<1>6. ASSUME NEW b \in Block, KeepsLock(i, s, t), SavesBlock(s, t, b) PROVE Lock!Next
  <2>1. Locks' = Locks /\ Votes' = Votes  BY <1>1, <1>6 DEF KeepsLock
  <2>2. Lock!CanSave(i, b, Votes') /\ (\E j \in Node : <<j, b>> \in Votes') /\ t.chain = b
    BY <1>4, <1>6, Zenon
  <2>3. Lock!CanSave(i, b, Votes) /\ \E j \in Node : <<j, b>> \in Votes  BY <2>1, <2>2
  <2>4. Lock!Save(i, b)  BY <1>1, <2>1, <2>2, <2>3 DEF Lock!Save
  <2>5. b \in {v[2] : v \in Votes}
    <3>1. PICK j \in Node : <<j, b>> \in Votes  BY <2>3
    <3>2. <<j, b>>[2] = b  OBVIOUS
    <3> QED  BY <3>1, <3>2, Zenon
  <2> QED  BY <2>4, <2>5, LockOperators, Zenon DEF Lock!Next
<1>7. ASSUME NEW b \in Block, VotesFor(i, s, t, b) PROVE Lock!Next
  <2>1. Locks' = [Locks EXCEPT ![i] = b] /\ Votes' = Votes \cup {<<i, b>>}
    BY <1>1, <1>7 DEF VotesFor
  <2>2. Lock!CanVote(i, b)  BY <1>2, <1>7 DEF VotesFor, Lock!CanVote
  <2>3. Chains' = Chains \/ (Lock!CanSave(i, b, Votes') /\ Chains' = [Chains EXCEPT ![i] = b])
    <3>1. CASE t.chain = s.chain  BY <1>1, <3>1
    <3>2. CASE SavesBlock(s, t, b)
      <4>1. Lock!CanSave(i, b, Votes') /\ t.chain = b  BY <1>4, <3>2, Zenon
      <4> QED  BY <1>1, <4>1
    <3> QED  BY <1>7, <3>1, <3>2 DEF VotesFor
  <2>4. Lock!Vote(i, b)  BY <2>1, <2>2, <2>3 DEF Lock!Vote
  <2> QED  BY <2>4, LockOperators, Zenon DEF Lock!Next
<1> QED  BY <1>5, <1>6, <1>7 DEF LockStep

LEMMA LearnStep ==
    ASSUME EngineInv, NEW i \in Node, NEW j \in Node, Len(node[j].chain) > Len(node[i].chain),
           NEW b \in Block, b = SubSeq(node[j].chain, 1, Len(node[i].chain) + 1),
           Extends(b, node[i].chain),
           NEW t, node' = [node EXCEPT ![i] = t], t.chain = b, KeepsLock(i, node[i], t)
    PROVE  Lock!Next
<1>1. /\ LockOf(t) = LockOf(node[i]) => Locks' = Locks
      /\ Chains' = [Chains EXCEPT ![i] = t.chain]
      /\ VotesOf(i, t) = VotesOf(i, node[i]) => Votes' = Votes
  BY LocksAfter, Zenon
<1>2. Chains[i] = node[i].chain /\ Chains[j] = node[j].chain  BY DEF Chains
<1>3. Locks' = Locks /\ Votes' = Votes  BY <1>1 DEF KeepsLock
<1>4. Lock!Extends(b, Chains[i])  BY <1>2, LockOperators, Zenon
<1>5. Lock!Learn(i, j)  BY <1>1, <1>2, <1>3, <1>4 DEF Lock!Learn
<1> QED  BY <1>5, LockOperators DEF Lock!Next

-----------------------------------------------------------------------------
(* One lemma per action *)

\* The step keeps the invariant and is a step of PBFTLock or leaves it alone.
Sound == EngineInv' /\ (UNCHANGED Lock!vars \/ Lock!Next)

LEMMA KeepsSound ==
    ASSUME EngineInv, NEW i \in Node, NEW t, Steps(i, t), LockStep(i, node[i], t)
    PROVE  Sound
<1>1. EngineInv'  BY StepInv
<1>2. node' = [node EXCEPT ![i] = t]  BY DEF Steps
<1>3. UNCHANGED Lock!vars \/ Lock!Next  BY <1>1, <1>2, LockedStep, Zenon
<1> QED  BY <1>1, <1>3 DEF Sound

LEMMA UpdateSteps ==
    ASSUME EngineInv, NEW i \in Node, NEW t, Update(i, t),
           Keeps(i, node[i], t, Arriving(i, "commit"), Arriving(i, "viewchange"))
    PROVE  Steps(i, t)
BY DEF Steps, Update, EngineInv, TypeOK

LEMMA ActsSound ==
    ASSUME EngineInv, NEW i \in Node, NEW t, Update(i, t),
           Acts(i, node[i], t, Arriving(i, "commit"))
    PROVE  Sound
BY ActsKeeps, UpdateSteps, KeepsSound, Zenon

LEMMA MovesSound ==
    ASSUME EngineInv, NEW i \in Node, NEW t, Update(i, t),
           Moves(i, node[i], t, Arriving(i, "viewchange"))
    PROVE  Sound
BY MovesKeeps, UpdateSteps, KeepsSound, Zenon

LEMMA MessageSteps ==
    ASSUME EngineInv, NEW i \in Node,
           HandlePrepareMsg(i) \/ HandleSignMsg(i) \/ HandleCommitMsg(i) \/ HandleViewChangeMsg(i)
    PROVE  Sound
<1>1. NodeInv(i, node[i]) /\ \A j \in Node : NodeInv(j, node[j])  BY DEF EngineInv
<1>2. /\ Arriving(i, "prepare") \subseteq Proposals
      /\ Arriving(i, "sign") \subseteq Ballots
      /\ Arriving(i, "commit") \subseteq Ballots
      /\ Arriving(i, "viewchange") \subseteq ViewChangeReqs
  BY <1>1, ArrivingSent
<1>3. CASE HandlePrepareMsg(i)
  <2>1. PICK req \in Arriving(i, "prepare"), busy \in Busy(i) :
          Update(i, HandlePrepare(i, node[i], req, busy))
    BY <1>3 DEF HandlePrepareMsg, Handle
  <2>2. req \in Proposals  BY <1>2
  <2>3. Acts(i, node[i], HandlePrepare(i, node[i], req, busy), Arriving(i, "commit"))
    BY <1>1, <2>2, PrepareResult, Zenon
  <2> QED  BY <2>1, <2>3, ActsSound, Zenon
<1>4. CASE HandleSignMsg(i)
  <2>1. PICK req \in Arriving(i, "sign"), busy \in Busy(i) :
          Update(i, HandleSign(i, node[i], req, busy))
    BY <1>4 DEF HandleSignMsg, Handle
  <2>2. req \in Ballots  BY <1>2
  <2>3. Acts(i, node[i], HandleSign(i, node[i], req, busy), Arriving(i, "commit"))
    BY <1>1, <2>2, SignResult, Zenon
  <2> QED  BY <2>1, <2>3, ActsSound, Zenon
<1>5. CASE HandleCommitMsg(i)
  <2>1. PICK req \in Arriving(i, "commit"), busy \in Busy(i) :
          Update(i, HandleCommit(i, node[i], req, busy))
    BY <1>5 DEF HandleCommitMsg, Handle
  <2>2. req \in Ballots  BY <1>2
  <2>3. Acts(i, node[i], HandleCommit(i, node[i], req, busy), Arriving(i, "commit"))
    BY <1>1, <2>2, CommitMsgResult, Zenon
  <2> QED  BY <2>1, <2>3, ActsSound, Zenon
<1>6. CASE HandleViewChangeMsg(i)
  <2>1. PICK req \in Arriving(i, "viewchange"), direct \in BOOLEAN, ord \in ViewOrder :
          Update(i, HandleViewChange(i, node[i], req, direct, ord))
    BY <1>6 DEF HandleViewChangeMsg, Handle
  <2>2. req \in ViewChangeReqs  BY <1>2
  <2>3. Moves(i, node[i], HandleViewChange(i, node[i], req, direct, ord), Arriving(i, "viewchange"))
    BY <1>1, <2>2, ViewChangeMsgResult, Zenon
  <2> QED  BY <2>1, <2>3, MovesSound, Zenon
<1> QED  BY <1>3, <1>4, <1>5, <1>6

LEMMA TimeoutStep == ASSUME EngineInv, NEW i \in Node, CheckTimeout(i) PROVE Sound
<1> DEFINE t == Timeout(i, node[i])
<1>1. NodeInv(i, node[i]) /\ node[i].toView < MaxView /\ Update(i, t)
  BY DEF EngineInv, CheckTimeout
<1>2. Moves(i, node[i], t, {})  BY <1>1, TimeoutResult, Zenon
<1> HIDE DEF t
<1>3. Moves(i, node[i], t, Arriving(i, "viewchange"))
  <2>1. node[i].viewChanges \cup {} \subseteq node[i].viewChanges \cup Arriving(i, "viewchange")
    OBVIOUS
  <2> QED  BY <1>2, <2>1, Zenon DEF Moves, Supported
<1> QED  BY <1>1, <1>3, MovesSound, Zenon

LEMMA OnViewChangeStep == ASSUME EngineInv, NEW i \in Node, OnViewChange(i) PROVE Sound
<1> DEFINE s == node[i]
           r == ResetIfShould(s)
           t == [r EXCEPT !.onViewChange = FALSE]
<1>1. NodeInv(i, s) /\ Update(i, t)  BY DEF EngineInv, OnViewChange
<1>2. NodeInv(i, r) /\ SameCore(s, r) /\ r.sent = s.sent /\ r.sealer = s.sealer
  BY <1>1, ResetResult
<1> HIDE DEF r
<1>3. r \in WellFormed(i)  BY <1>2, Zenon DEF NodeInv, Consistent
<1>4. t \in WellFormed(i)  BY <1>3, ClearFlag, Zenon
<1>5. SameCore(s, t) /\ t.sent = s.sent /\ t.sealer = s.sealer
  BY <1>2, <1>3 DEF WellFormed, SameCore
<1> HIDE DEF s, t
<1>6. Acts(i, s, t, Arriving(i, "commit"))  BY <1>1, <1>4, <1>5, SameCoreActs, Zenon
<1> QED  BY <1>1, <1>6, ActsSound, Zenon DEF s

LEMMA FutureBlockStep == ASSUME EngineInv, NEW i \in Node, HandleFutureBlock(i) PROVE Sound
<1> DEFINE s == node[i]
<1>1. NodeInv(i, s) /\ s.futurePrepare.height = s.consNum  BY DEF EngineInv, HandleFutureBlock
<1>2. PICK busy \in Busy(i) :
        Update(i, [HandlePrepare(i, s, s.futurePrepare, busy) EXCEPT !.futurePrepare = NoReq])
  BY DEF HandleFutureBlock
<1> DEFINE h == HandlePrepare(i, s, s.futurePrepare, busy)
           t == [h EXCEPT !.futurePrepare = NoReq]
<1>3. s.futurePrepare \in Proposals
  <2>1. s.consNum \in Nat /\ s.futurePrepare \in Proposals \cup {NoReq}
    BY <1>1, Fields, Zenon DEF NodeInv, Consistent
  <2> QED  BY <1>1, <2>1, NoReqFields
<1>4. Acts(i, s, h, Arriving(i, "commit"))  BY <1>1, <1>3, PrepareResult, Zenon
<1>5. Update(i, t)  BY <1>2
<1> HIDE DEF h
<1>6. h \in WellFormed(i)  BY <1>4, Zenon DEF Acts, NodeInv, Consistent
<1>7. t \in WellFormed(i) /\ t.sent = h.sent /\ t.sealer = h.sealer  BY <1>6 DEF WellFormed
<1>8. SameCore(h, t)  BY <1>6 DEF WellFormed, SameCore
<1> HIDE DEF t, s
<1>9. Acts(i, s, t, Arriving(i, "commit"))  BY <1>4, <1>7, <1>8, SameCoreAfter
<1> QED  BY <1>5, <1>9, ActsSound, Zenon DEF s

LEMMA GarbageStep == ASSUME EngineInv, NEW i \in Node, CollectGarbage(i) PROVE Sound
<1> DEFINE s == node[i]
           S == RemoveInvalidEntry(s, s.signCache)
           C == RemoveInvalidEntry(s, s.commitCache)
           a == [s EXCEPT !.signCache = S]
           t == [a EXCEPT !.commitCache = C]
<1>1. NodeInv(i, s) /\ s \in WellFormed(i)  BY DEF EngineInv, NodeInv, Consistent
<1>2. Update(i, t)  BY DEF CollectGarbage
<1>3. /\ S \subseteq s.signCache /\ C \subseteq s.commitCache
      /\ S \subseteq Ballots /\ C \subseteq Ballots
  BY <1>1, Fields, Zenon DEF RemoveInvalidEntry
<1> HIDE DEF S, C
<1>4. /\ a \in WellFormed(i) /\ a.signCache = S /\ a.sent = s.sent
      /\ a.prepare = s.prepare /\ a.rawPrepare = s.rawPrepare /\ a.viewChanges = s.viewChanges
      /\ a.chain = s.chain /\ a.highest = s.highest /\ a.reported = s.reported
      /\ a.consNum = s.consNum /\ a.view = s.view /\ a.sealer = s.sealer
      /\ a.committedPrepare = s.committedPrepare
  BY <1>1, <1>3 DEF WellFormed
<1> HIDE DEF a
<1>5. /\ t \in WellFormed(i) /\ t.signCache = S /\ t.commitCache = C /\ t.sent = s.sent
      /\ t.prepare = s.prepare /\ t.rawPrepare = s.rawPrepare /\ t.viewChanges = s.viewChanges
      /\ t.chain = s.chain /\ t.highest = s.highest /\ t.reported = s.reported
      /\ t.consNum = s.consNum /\ t.view = s.view /\ t.sealer = s.sealer
      /\ t.committedPrepare = s.committedPrepare
  BY <1>3, <1>4 DEF WellFormed
<1> HIDE DEF t
<1>6. Calmer(s, t)
  <2>1. Len(s.chain) \in Nat  BY <1>1, Fields
  <2> QED  BY <1>3, <1>5, <2>1 DEF Calmer
<1>7. Quiet(s, t) /\ s.sent \subseteq t.sent  BY <1>5 DEF Quiet, Sent
<1> HIDE DEF s
<1>8. Acts(i, s, t, Arriving(i, "commit"))  BY <1>1, <1>5, <1>6, <1>7, CalmerActs, Zenon
<1> QED  BY <1>2, <1>8, ActsSound, Zenon DEF s

LEMMA ReportStep == ASSUME EngineInv, NEW i \in Node, ReportNewBlock(i) PROVE Sound
<1> DEFINE s == node[i]
           r == Report(s)
           t == ResetIfShould(r)
<1>1. NodeInv(i, s) /\ (~s.reported \/ Len(s.chain) > Len(s.highest)) /\ Update(i, t)
  BY DEF EngineInv, ReportNewBlock
<1>2. /\ NodeInv(i, r) /\ Quiet(s, r) /\ r.sent = s.sent /\ r.view = 0
      /\ r.commitCache \subseteq s.commitCache /\ r.viewChanges = {}
  BY <1>1, ReportResult, Zenon
<1> HIDE DEF r
<1>3. NodeInv(i, t) /\ SameCore(r, t) /\ t.sent = r.sent  BY <1>2, ResetResult
<1> HIDE DEF t
<1>4. Keeps(i, s, t, Arriving(i, "commit"), Arriving(i, "viewchange"))
  BY <1>2, <1>3, Zenon DEF Keeps, SameCore
<1>5. Quiet(s, t)  BY <1>2, <1>3 DEF Quiet, SameCore, Sent
<1>6. LockStep(i, s, t)  BY <1>5, QuietLocks
<1>7. Steps(i, t)  BY <1>1, <1>4, UpdateSteps, Zenon
<1> QED  BY <1>6, <1>7, KeepsSound, Zenon

LEMMA SealSteps ==
    ASSUME EngineInv, NEW i \in Node, ShouldSeal(i) \/ WaitForTransactions(i)
    PROVE  Sound
<1> DEFINE s == node[i]
<1>1. NodeInv(i, s) /\ s.consNum \in Nat  BY Fields, Zenon DEF EngineInv, NodeInv, Consistent
<1>2. PICK x \in {"idle", "seal", "rehandle"} :
        /\ Update(i, [s EXCEPT !.sealer = x])
        /\ x = "rehandle" => s.committedPrepare.height = s.consNum
  <2>1. CASE ShouldSeal(i)
    <3> DEFINE x == IF s.committedPrepare.height = s.consNum THEN "rehandle" ELSE "seal"
    <3>1. Update(i, [s EXCEPT !.sealer = x])  BY <2>1 DEF ShouldSeal
    <3>2. x \in {"idle", "seal", "rehandle"}
          /\ (x = "rehandle" => s.committedPrepare.height = s.consNum)
      OBVIOUS
    <3> QED  BY <3>1, <3>2
  <2>2. CASE WaitForTransactions(i)  BY <2>2 DEF WaitForTransactions
  <2> QED  BY <2>1, <2>2
<1>3. x = "rehandle" => s.committedPrepare # NoReq  BY <1>1, <1>2, NoReqFields
<1> DEFINE t == [s EXCEPT !.sealer = x]
<1>4. NodeInv(i, t) /\ SameCore(s, t) /\ t.sent = s.sent
  <2>1. NodeInv(i, s) /\ x \in {"idle", "seal", "rehandle"}  BY <1>1
  <2> HIDE DEF s
  <2> QED  BY <1>3, <2>1, SetSealer, Zenon
<1>5. Update(i, t)  BY <1>2
<1> HIDE DEF t
<1>6. Quiet(s, t)  BY <1>4 DEF Quiet, SameCore, Sent
<1>7. Keeps(i, s, t, Arriving(i, "commit"), Arriving(i, "viewchange"))
  BY <1>4, Zenon DEF Keeps, SameCore
<1>8. LockStep(i, s, t)  BY <1>6, QuietLocks
<1>9. Steps(i, t)  BY <1>5, <1>7, UpdateSteps, Zenon
<1> QED  BY <1>8, <1>9, KeepsSound, Zenon

\* The sealer thread goes back to idle before it hands the block to the engine.
LEMMA BackToIdle ==
    ASSUME NEW i, NEW s, NodeInv(i, s), NEW u, NEW arrived,
           Acts(i, [s EXCEPT !.sealer = "idle"], u, arrived)
    PROVE  Acts(i, s, u, arrived)
<1> DEFINE a == [s EXCEPT !.sealer = "idle"]
<1>1. SameCore(s, a) /\ a.sent = s.sent  BY SetIdle, Zenon
<1> HIDE DEF a
<1>2. s.sent \subseteq a.sent /\ Sent(a, "commit") = Sent(s, "commit")  BY <1>1 DEF Sent
<1>3. Acts(i, a, u, arrived)  BY DEF a
<1> QED  BY <1>1, <1>2, <1>3, SameCoreBefore, Zenon

LEMMA HandleBlockStep == ASSUME EngineInv, NEW i \in Node, HandleBlock(i) PROVE Sound
<1> DEFINE s == node[i]
           a == [s EXCEPT !.sealer = "idle"]
<1>1. NodeInv(i, s) /\ s.sealing \in Block  BY Fields, Zenon DEF EngineInv, NodeInv, Consistent
<1>2. Len(s.sealing) < MaxNumber  BY DEF HandleBlock
<1>3. PICK p \in Payload, busy \in Busy(i) :
        Update(i, GeneratePrepare(i, a, Proposal(s.sealing, i, p), busy))
  BY DEF HandleBlock
<1> DEFINE b == Proposal(s.sealing, i, p)
           t == GeneratePrepare(i, a, b, busy)
<1>4. b \in Block /\ IsProposal(b)  BY <1>1, <1>2, ProposalIsBlock
<1>5. NodeInv(i, a)  BY <1>1, SetIdle, Zenon
<1>6. Update(i, t)  BY <1>3
<1> HIDE DEF b
<1>7. Acts(i, a, t, Arriving(i, "commit"))
  <2> HIDE DEF a
  <2> QED  BY <1>4, <1>5, GenerateResult, Zenon
<1> HIDE DEF t
<1>8. Acts(i, s, t, Arriving(i, "commit"))
  <2> HIDE DEF s
  <2> QED  BY <1>1, <1>7, BackToIdle, Zenon
<1> QED  BY <1>6, <1>8, ActsSound, Zenon

LEMMA RehandleStep == ASSUME EngineInv, NEW i \in Node, Rehandle(i) PROVE Sound
<1> DEFINE s == node[i]
           a == [s EXCEPT !.sealer = "idle"]
<1>1. NodeInv(i, s) /\ s \in WellFormed(i)  BY DEF EngineInv, NodeInv, Consistent
<1>2. s.committedPrepare # NoReq
  BY <1>1 DEF Rehandle, NodeInv, Consistent, Heights
<1>3. PICK busy \in Busy(i) : Update(i, RehandleCommittedPrepare(i, a, busy))
  BY DEF Rehandle
<1> DEFINE t == RehandleCommittedPrepare(i, a, busy)
<1>4. NodeInv(i, a) /\ SameCore(s, a)  BY <1>1, SetIdle, Zenon
<1>5. Update(i, t)  BY <1>3
<1>6. Acts(i, a, t, Arriving(i, "commit"))
  <2> HIDE DEF a
  <2>1. a.committedPrepare # NoReq  BY <1>2, <1>4 DEF SameCore
  <2> QED  BY <1>4, <2>1, RehandleResult, Zenon
<1> HIDE DEF t
<1>7. Acts(i, s, t, Arriving(i, "commit"))
  <2> HIDE DEF s
  <2> QED  BY <1>1, <1>6, BackToIdle, Zenon
<1> QED  BY <1>5, <1>7, ActsSound, Zenon

LEMMA SyncStep == ASSUME EngineInv, NEW i \in Node, SyncBlock(i) PROVE Sound
<1> DEFINE s == node[i]
<1>1. PICK j \in Up : /\ Len(node[j].chain) > Len(s.chain)
                      /\ LET b == SubSeq(node[j].chain, 1, Len(s.chain) + 1)
                         IN  Extends(b, s.chain) /\ Update(i, CommitBlock(s, b, FALSE))
  BY Zenon DEF SyncBlock
<1> DEFINE b == SubSeq(node[j].chain, 1, Len(s.chain) + 1)
           t == [s EXCEPT !.chain = b]
<1>2. j \in Node  BY DEF Up
<1>3. /\ NodeInv(i, s) /\ s \in WellFormed(i) /\ Len(s.chain) \in Nat
      /\ node[j].chain \in Block
  BY <1>2, Fields, Zenon DEF EngineInv, NodeInv, Consistent
<1>4. b \in Block
  <2> DEFINE c == node[j].chain
  <2>1. c \in Seq(Seal) /\ Len(c) \in 0..MaxNumber  BY <1>3, BlockIsSeq
  <2>2. b \in Seq(Seal) /\ Len(b) = Len(s.chain) + 1
    <3> HIDE DEF c
    <3>1. Len(c) > Len(s.chain)  BY <1>1 DEF c
    <3>2. SubSeq(c, 1, Len(s.chain) + 1) \in Seq(Seal)
          /\ Len(SubSeq(c, 1, Len(s.chain) + 1)) = Len(s.chain) + 1
      BY <1>3, <2>1, <3>1, SMT
    <3> QED  BY <3>2 DEF c
  <2>3. Len(b) \in 0..MaxNumber  BY <1>1, <1>3, <2>1, <2>2, BoundAssumption
  <2> HIDE DEF b
  <2> QED  BY <2>2, <2>3, BlockIsSeq
<1>5. Extends(b, s.chain) /\ Update(i, t)  BY <1>1 DEF CommitBlock
<1>6. Len(node[j].chain) > Len(s.chain)  BY <1>1
<1>7. b = SubSeq(node[j].chain, 1, Len(s.chain) + 1)  OBVIOUS
<1> HIDE DEF b
<1>8. /\ t \in WellFormed(i) /\ Calmer(s, t) /\ t.chain = b /\ t.sent = s.sent
      /\ t.commitCache = s.commitCache /\ t.viewChanges = s.viewChanges
  BY <1>3, <1>4, <1>5, GrowResult
<1> HIDE DEF t
<1>9. NodeInv(i, t)  BY <1>3, <1>8, CalmerLocks
<1>10. Keeps(i, s, t, Arriving(i, "commit"), Arriving(i, "viewchange"))
  BY <1>8, <1>9, Zenon DEF Keeps, Calmer
<1>11. Steps(i, t)  BY <1>5, <1>10, UpdateSteps, Zenon
<1>12. EngineInv'  BY <1>11, StepInv
<1>13. KeepsLock(i, s, t)  BY <1>8 DEF KeepsLock, Calmer, LockOf, VotesOf, Sent
<1>14. node' = [node EXCEPT ![i] = t]  BY <1>5 DEF Update
<1>15. Lock!Next  BY <1>2, <1>4, <1>5, <1>6, <1>7, <1>8, <1>13, <1>14, LearnStep, Zenon
<1> QED  BY <1>12, <1>15 DEF Sound

LEMMA RestartStep == ASSUME EngineInv, NEW i \in Node, Restart(i) PROVE Sound
<1> DEFINE s == node[i]
           t == Booting(s.chain, s.committedPrepare, s.sent)
<1>1. NodeInv(i, s) /\ restarts \in 0..MaxRestarts  BY DEF EngineInv, TypeOK
<1>2. restarts' \in 0..MaxRestarts  BY <1>1, BoundAssumption DEF Restart
<1>3. node' = [node EXCEPT ![i] = t]  BY DEF Restart
<1>4. /\ NodeInv(i, t) /\ Quiet(s, t) /\ t.sent = s.sent /\ t.view = 0
      /\ t.commitCache = {} /\ t.viewChanges = {}
  BY <1>1, BootResult, Zenon
<1> HIDE DEF t
<1>5. Keeps(i, s, t, Arriving(i, "commit"), Arriving(i, "viewchange"))  BY <1>4 DEF Keeps
<1>6. Steps(i, t)  BY <1>2, <1>3, <1>5 DEF Steps
<1>7. LockStep(i, s, t)  BY <1>4, QuietLocks
<1> QED  BY <1>6, <1>7, KeepsSound, Zenon

LEMMA InitInv == Init => EngineInv /\ Lock!Init
<1> SUFFICES ASSUME Init PROVE EngineInv /\ Lock!Init  OBVIOUS
<1> DEFINE s == Booting(<<>>, NoReq, {})
<1>1. node = [i \in Node |-> s] /\ restarts = 0  BY DEF Init
<1>2. ASSUME NEW i \in Node
      PROVE  /\ NodeInv(i, s) /\ s.chain = <<>> /\ s.committedPrepare = NoReq /\ s.sent = {}
             /\ s.view = 0 /\ s.commitCache = {} /\ s.viewChanges = {}
  <2> DEFINE S == {}
             c == <<>>
             l == NoReq
  <2>1. c \in Block /\ l \in Proposals \cup {NoReq} /\ S \in SUBSET Messages(i)  BY Genesis
  <2>2. l.height <= Len(c) + 1  BY NoReqFields, Genesis
  <2> HIDE DEF S, c, l
  <2>3. LET t == Booting(c, l, S)
        IN  NodeInv(i, t) /\ t.chain = c /\ t.committedPrepare = l /\ t.sent = S
            /\ t.view = 0 /\ t.commitCache = {} /\ t.viewChanges = {}
    BY <2>1, <2>2, BootInv, Zenon
  <2> QED  BY <2>3 DEF S, c, l
<1> HIDE DEF s
<1>3. \A i \in Node : node[i] = s  BY <1>1
<1>4. \A i \in Node : NodeInv(i, node[i])  BY <1>2, <1>3
<1>5. TypeOK
  <2>1. \A i \in Node : s \in NodeState  BY <1>2, WellFormedState DEF NodeInv, Consistent
  <2>2. node \in [Node -> NodeState]  BY <1>1, <2>1
  <2>3. restarts \in 0..MaxRestarts  BY <1>1, BoundAssumption
  <2> QED  BY <2>2, <2>3 DEF TypeOK
<1>6. Authentic  BY <1>2, <1>3 DEF Authentic
<1>7. ViewHasQuorum
  <2>1. \A i \in Up : i \in Node  BY DEF Up
  <2>2. \A i \in Up : ~(node[i].view > 0)  BY <1>2, <1>3, <2>1
  <2> QED  BY <2>2 DEF ViewHasQuorum
<1>8. Lock!Init
  <2>1. \A i \in Node : LockOf(s) = <<>> /\ VotesOf(i, s) = {} /\ s.chain = <<>>
    BY <1>2, NoReqFields DEF LockOf, IsEmpty, VotesOf, Sent
  <2>2. Locks = [i \in Node |-> <<>>]  BY <1>3, <2>1 DEF Locks
  <2>3. Chains = [i \in Node |-> <<>>]  BY <1>3, <2>1 DEF Chains
  <2>4. Votes = {}  BY <1>3, <2>1 DEF Votes
  <2> QED  BY <2>2, <2>3, <2>4, LockOperators DEF Lock!Init
<1> QED  BY <1>4, <1>5, <1>6, <1>7, <1>8 DEF EngineInv

LEMMA NextSound == EngineInv /\ [Next]_vars => Sound
<1> SUFFICES ASSUME EngineInv, [Next]_vars PROVE Sound  OBVIOUS
<1>1. CASE UNCHANGED vars
  <2>1. node' = node /\ restarts' = restarts  BY <1>1 DEF vars
  <2>2. EngineInv'
    BY <2>1, Zenon DEF EngineInv, TypeOK, Authentic, ViewHasQuorum, Sent
  <2>3. UNCHANGED Lock!vars  BY <2>1 DEF Lock!vars, Locks, Votes, Chains, LockOf, VotesOf, Sent
  <2> QED  BY <2>2, <2>3 DEF Sound
<1>2. CASE Next
  <2>1. PICK i \in Up :
          \/ HandlePrepareMsg(i) \/ HandleSignMsg(i) \/ HandleCommitMsg(i)
          \/ HandleViewChangeMsg(i) \/ CheckTimeout(i) \/ OnViewChange(i)
          \/ HandleFutureBlock(i) \/ CollectGarbage(i)
          \/ ReportNewBlock(i) \/ ShouldSeal(i) \/ HandleBlock(i)
          \/ WaitForTransactions(i) \/ Rehandle(i) \/ SyncBlock(i) \/ Restart(i)
    BY <1>2 DEF Next
  <2>2. i \in Node  BY DEF Up
  <2> QED  BY <2>1, <2>2, MessageSteps, TimeoutStep, OnViewChangeStep, FutureBlockStep, GarbageStep,
              ReportStep, SealSteps, HandleBlockStep, RehandleStep, SyncStep, RestartStep
<1> QED  BY <1>1, <1>2

-----------------------------------------------------------------------------
(* The theorems *)

\* Whatever the engine threads and the sealer threads of the group do, in any
\* order, with messages late, repeated or lost and nodes crashing, every node's
\* caches are consistent and hold only what was really sent.
THEOREM EngineInvariant == Spec => []EngineInv
<1>1. Init => EngineInv  BY InitInv
<1>2. EngineInv /\ [Next]_vars => EngineInv'  BY NextSound DEF Sound
<1> QED  BY <1>1, <1>2, PTL DEF Spec

\* The prepare cache is always of the current view and height, and so are the
\* requests that checkAndCommit and checkAndSave count for it.
THEOREM EnginePrepareIsCurrent == Spec => []PrepareIsCurrent
<1>1. EngineInv => PrepareIsCurrent
  <2> SUFFICES ASSUME EngineInv PROVE PrepareIsCurrent  OBVIOUS
  <2>1. ASSUME NEW i \in Node, ~IsEmpty(node[i].prepare)
        PROVE  /\ node[i].prepare.view = node[i].view /\ node[i].prepare.height = node[i].consNum
               /\ node[i].prepare.block = Executed(node[i].rawPrepare.block)
               /\ \A r \in ForBlock(node[i].signCache \cup node[i].commitCache, node[i].prepare.block) :
                    r.view = node[i].view
    <3>1. node[i].prepare # NoReq  BY <2>1, NoReqFields DEF IsEmpty
    <3>2. PrepareCurrent(node[i])  BY DEF EngineInv, NodeInv, Consistent
    <3> QED  BY <3>1, <3>2 DEF PrepareCurrent, ForBlock
  <2>2. TypeOK  BY DEF EngineInv
  <2> QED  BY <2>1, <2>2, Zenon DEF PrepareIsCurrent
<1> QED  BY <1>1, EngineInvariant, PTL

\* A node that holds a quorum of signs for its prepare has locked the proposal it
\* came from: the sign count never steps over the equality in checkAndCommit.
THEOREM EngineSignQuorumLocks == Spec => []SignQuorumLocks
<1>1. EngineInv => SignQuorumLocks
  <2> SUFFICES ASSUME EngineInv, NEW i \in Node, ~IsEmpty(node[i].prepare),
                      EnoughReqs(node[i].signCache, node[i].prepare.block)
               PROVE  node[i].committedPrepare.block = node[i].rawPrepare.block
    BY DEF SignQuorumLocks
  <2> DEFINE s == node[i]
  <2>1. NodeInv(i, s) /\ s \in WellFormed(i) /\ PrepareCurrent(s) /\ QuorumLocks(s)
    BY DEF EngineInv, NodeInv, Consistent
  <2>2. s.prepare # NoReq  BY NoReqFields DEF IsEmpty
  <2> HIDE DEF s
  <2>3. s.prepare \in Ballots /\ s.prepare.block \in Block  BY <2>1, <2>2, Fields, BallotFields
  <2>4. Cardinality(SignsFor(s, s.prepare.block)) >= MinValidNodes
    BY <2>1, <2>2, PrepareSigns DEF EnoughReqs, s
  <2>5. LockedOn(s, s.prepare.block)  BY <2>1, <2>3, <2>4 DEF QuorumLocks
  <2>6. s.committedPrepare \in Proposals /\ s.rawPrepare \in Proposals
        /\ Executed(s.committedPrepare.block) = Executed(s.rawPrepare.block)
    BY <2>1, <2>2, <2>5, Fields, Zenon DEF LockedOn, PrepareCurrent
  <2>7. /\ IsProposal(s.committedPrepare.block) /\ IsProposal(s.rawPrepare.block)
        /\ s.committedPrepare.block \in Block /\ s.rawPrepare.block \in Block
    BY <2>6, ProposalIsBallot, BallotFields
  <2>8. s.committedPrepare.block = s.rawPrepare.block  BY <2>6, <2>7, ExecutedInjective, Zenon
  <2> QED  BY <2>8 DEF s
<1> QED  BY <1>1, EngineInvariant, PTL

\* A node is in a view above 0 only when enough other nodes have asked for it.
THEOREM EngineViewHasQuorum == Spec => []ViewHasQuorum
<1>1. EngineInv => ViewHasQuorum  BY DEF EngineInv
<1> QED  BY <1>1, EngineInvariant, PTL

\* The engine, with its caches, views, timers and restarts, implements the commit
\* lock of PBFTLock: every step of it votes for a block that its lock allows, saves
\* a block with a quorum of votes, learns one from a peer, or changes nothing there.
THEOREM EngineImplementsLock == Spec => ImplementsLock
<1>1. Init => EngineInv /\ Lock!Init  BY InitInv
<1>2. EngineInv /\ [Next]_vars => EngineInv' /\ (UNCHANGED Lock!vars \/ Lock!Next)
  BY NextSound DEF Sound
<1> QED  BY <1>1, <1>2, PTL DEF Spec, ImplementsLock

-----------------------------------------------------------------------------
(* What the engine owes to PBFTLock: with EngineImplementsLock the theorems *)
(* of PBFTLockProofs become theorems about the engine.                      *)

LP == INSTANCE PBFTLockProofs WITH lock <- Locks, votes <- Votes, chain <- Chains

\* No two nodes have different blocks at one height.
ChainsAgree ==
    \A i, j \in Node : \A h \in 1..MaxNumber :
        h <= Len(node[i].chain) /\ h <= Len(node[j].chain)
            => SubSeq(node[i].chain, 1, h) = SubSeq(node[j].chain, 1, h)

\* No node ever broadcasts commit requests for two blocks at one height, whatever
\* views it went through and however often it crashed in between.
NoDoubleCommit ==
    \A i \in Node : \A r, q \in Sent(node[i], "commit") : r.height = q.height => r.block = q.block

-----------------------------------------------------------------------------

LEMMA LockSpec == ImplementsLock => LP!Spec
<1>1. /\ LP!Node = Lock!Node /\ LP!Block = Lock!Block
      /\ LP!MinValidNodes = Lock!MinValidNodes
  BY DEF LP!Node, Lock!Node, LP!Block, Lock!Block, LP!MinValidNodes, Lock!MinValidNodes, LP!F, Lock!F
<1>2. Lock!Init => LP!Init  BY <1>1 DEF Lock!Init, LP!Init
<1>3. \A V, b : LP!Chosen(V, b) <=> Lock!Chosen(V, b)
  <2>1. \A S : LP!Cardinality(S) = Lock!Cardinality(S)  BY DEF LP!Cardinality, Lock!Cardinality
  <2> QED  BY <1>1, <2>1 DEF LP!Chosen, Lock!Chosen, LP!Voters, Lock!Voters
<1>4. \A i, b, V : LP!CanSave(i, b, V) <=> Lock!CanSave(i, b, V)
  BY <1>3 DEF LP!CanSave, Lock!CanSave, LP!Extends, Lock!Extends
<1>5. \A i, b : LP!Vote(i, b) <=> Lock!Vote(i, b)
  BY <1>4 DEF LP!Vote, Lock!Vote, LP!CanVote, Lock!CanVote
<1>6. \A i, b : LP!Save(i, b) <=> Lock!Save(i, b)  BY <1>4 DEF LP!Save, Lock!Save
<1>7. \A i, j : LP!Learn(i, j) <=> Lock!Learn(i, j)
  BY DEF LP!Learn, Lock!Learn, LP!Extends, Lock!Extends
<1>8. Lock!Next => LP!Next  BY <1>1, <1>5, <1>6, <1>7 DEF LP!Next, Lock!Next
<1>9. UNCHANGED Lock!vars <=> UNCHANGED LP!vars  BY DEF LP!vars, Lock!vars
<1> QED  BY <1>2, <1>8, <1>9, PTL DEF LP!Spec, ImplementsLock

\* The chains of the engine's nodes never fork, for any number of miners, any set
\* of them down, and every order of messages, timeouts, view changes and restarts.
THEOREM EngineAgreement == Spec => []ChainsAgree
<1>1. LP!Agreement => ChainsAgree
  <2>1. \A i \in Node : Chains[i] = node[i].chain  BY DEF Chains
  <2>2. LP!Node = Node  BY DEF LP!Node, Node
  <2> QED  BY <2>1, <2>2 DEF LP!Agreement, ChainsAgree
<1>2. LP!Spec => []LP!Agreement
  BY LP!AgreementInvariant, NAssumption, BoundAssumption
<1> QED  BY <1>1, <1>2, LockSpec, EngineImplementsLock, PTL

\* The commit lock that is backed up before the CommitReq leaves keeps a node from
\* voting twice at one height.
THEOREM EngineNoDoubleCommit == Spec => []NoDoubleCommit
<1>1. EngineInv /\ LP!OneVotePerHeight => NoDoubleCommit
  <2> SUFFICES ASSUME EngineInv, LP!OneVotePerHeight, NEW i \in Node,
                      NEW r \in Sent(node[i], "commit"), NEW q \in Sent(node[i], "commit"),
                      r.height = q.height
               PROVE  r.block = q.block
    BY DEF NoDoubleCommit
  <2>1. node[i] \in WellFormed(i)  BY DEF EngineInv, NodeInv, Consistent
  <2>2. ASSUME NEW x \in Sent(node[i], "commit") PROVE x.height = Len(x.block)
    <3>1. PICK m \in node[i].sent : m.type = "commit" /\ m.req = x  BY DEF Sent
    <3>2. m \in Messages(i)  BY <2>1, <3>1, Fields
    <3>3. x \in Ballots  BY <3>1, <3>2 DEF Messages
    <3> QED  BY <3>3, BallotFields
  <2>3. Len(r.block) = Len(q.block)  BY <2>2
  <2>4. <<i, r.block>> \in Votes /\ <<i, q.block>> \in Votes  BY DEF Votes, VotesOf
  <2> DEFINE v == <<i, r.block>>
             w == <<i, q.block>>
  <2>5. v[1] = i /\ w[1] = i /\ v[2] = r.block /\ w[2] = q.block  OBVIOUS
  <2> HIDE DEF v, w
  <2>6. v \in Votes /\ w \in Votes /\ v[1] = w[1] /\ Len(v[2]) = Len(w[2])
    BY <2>3, <2>4, <2>5 DEF v, w
  <2>7. v[2] = w[2]  BY <2>6 DEF LP!OneVotePerHeight
  <2> QED  BY <2>5, <2>7
<1>2. LP!Spec => []LP!OneVotePerHeight
  BY LP!OneVoteInvariant, NAssumption, BoundAssumption
<1> QED  BY <1>1, <1>2, LockSpec, EngineImplementsLock, EngineInvariant, PTL
=============================================================================
