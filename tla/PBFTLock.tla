------------------------------ MODULE PBFTLock ------------------------------
(***************************************************************************)
(* What the PBFT engine promises about one group of miners, without its    *)
(* caches, views and timers.  Every node keeps one commit lock (the        *)
(* PrepareReq it backs up under the key "committed" before it broadcasts a *)
(* CommitReq), broadcasts commit votes and extends a chain that is never   *)
(* rolled back.  PBFTEngine implements this specification.                 *)
(*                                                                         *)
(* A block hash covers the parent hash, so a block is modelled as the      *)
(* sequence of the seals (what a leader adds: index, timestamp,            *)
(* transactions) from the block after genesis up to the block itself:      *)
(* <<>> is the genesis block, Len(b) the block number of b, and the parent *)
(* of b is b without its last seal.  A chain is its top block.             *)
(***************************************************************************)
EXTENDS Integers, Sequences, FiniteSets

CONSTANTS
    N,          \* number of miners; a node is its index in the miner list
    Seal,       \* what can distinguish two blocks with the same parent
    MaxNumber   \* bound: the highest block number considered

ASSUME NAssumption == N \in Nat \ {0}
ASSUME MaxNumberAssumption == MaxNumber \in Nat

VARIABLES
    lock,    \* lock[i]: the block of node i's committed-prepare, <<>> when none
    votes,   \* the pairs <<i, b>> such that node i has broadcast a CommitReq for b
    chain    \* chain[i]: the top block of node i's chain

vars == <<lock, votes, chain>>

Node == 0..(N - 1)

\* The blocks numbered up to MaxNumber.
Block == UNION {[1..n -> Seal] : n \in 0..MaxNumber}

\* The number of faulty nodes tolerated, and the size of a quorum.
F == (N - 1) \div 3
\* Mutant of MinValidNodes: a quorum is one vote short.
MinValidNodes_OneLess == N - F - 1

MinValidNodes == N - F

Extends(b, c) == Len(b) = Len(c) + 1 /\ SubSeq(b, 1, Len(c)) = c

Voters(V, b) == {i \in Node : <<i, b>> \in V}

\* Enough nodes have voted for b to save it.
Chosen(V, b) == Cardinality(Voters(V, b)) >= MinValidNodes

Init ==
    /\ lock = [i \in Node |-> <<>>]
    /\ votes = {}
    /\ chain = [i \in Node |-> <<>>]

\* Mutant of CanVote: the lock does not bind the node at its own height.
CanVote_SameHeight(i, b) == Len(b) > 0 /\ Len(b) >= Len(lock[i])

\* A node votes only for a block above its lock, or for its lock.
CanVote(i, b) == Len(b) > Len(lock[i]) \/ (Len(b) > 0 /\ b = lock[i])

\* A quorum has voted for b, which comes next on the chain of i.
CanSave(i, b, V) == Extends(b, chain[i]) /\ Chosen(V, b)

\* A node locks b and votes for it.  When its own vote completes the quorum, the
\* block is saved in the same step.
Vote(i, b) ==
    /\ CanVote(i, b)
    /\ lock' = [lock EXCEPT ![i] = b]
    /\ votes' = votes \cup {<<i, b>>}
    /\ \/ UNCHANGED chain
       \/ CanSave(i, b, votes') /\ chain' = [chain EXCEPT ![i] = b]

\* The last vote of the quorum arrives.
Save(i, b) ==
    /\ CanSave(i, b, votes)
    /\ chain' = [chain EXCEPT ![i] = b]
    /\ UNCHANGED <<lock, votes>>

\* A node takes its next block from the chain of another node (block sync).
Learn(i, j) ==
    /\ Len(chain[j]) > Len(chain[i])
    /\ LET b == SubSeq(chain[j], 1, Len(chain[i]) + 1)
       IN  Extends(b, chain[i]) /\ chain' = [chain EXCEPT ![i] = b]
    /\ UNCHANGED <<lock, votes>>

Next ==
    \E i \in Node :
        \/ \E b \in Block : Vote(i, b)
        \/ \E b \in {v[2] : v \in votes} : Save(i, b)
        \/ \E j \in Node : Learn(i, j)

Spec == Init /\ [][Next]_vars

-----------------------------------------------------------------------------

TypeOK ==
    /\ lock \in [Node -> Block]
    /\ votes \subseteq Node \X Block
    /\ chain \in [Node -> Block]

\* Two nodes never hold different blocks at the same height: the chains of any
\* two nodes are prefixes of one another.
Agreement ==
    \A i, j \in Node : \A h \in 1..MaxNumber :
        h <= Len(chain[i]) /\ h <= Len(chain[j])
            => SubSeq(chain[i], 1, h) = SubSeq(chain[j], 1, h)

\* A node never votes for two blocks at one height, whatever it restarted
\* through in between.
OneVotePerHeight ==
    \A v, w \in votes : v[1] = w[1] /\ Len(v[2]) = Len(w[2]) => v[2] = w[2]
=============================================================================
