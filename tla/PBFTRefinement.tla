--------------------------- MODULE PBFTRefinement ---------------------------
(***************************************************************************)
(* PBFTEngine seen as PBFTLock: what the locks, the commit votes and the   *)
(* chains of the engine are in the abstract specification.                 *)
(***************************************************************************)
EXTENDS PBFTEngine

Locks == [i \in Node |-> LockOf(node[i])]
Votes == UNION {VotesOf(i, node[i]) : i \in Node}
Chains == [i \in Node |-> node[i].chain]

Lock == INSTANCE PBFTLock WITH lock <- Locks, votes <- Votes, chain <- Chains

\* The lock, the commit votes and the chain of the nodes behave as PBFTLock
\* says, through every interleaving, view change, late or repeated message,
\* crash and restart of the engine.  The formula is Lock!Spec, with the test for a
\* stuttering step put first.
ImplementsLock == Lock!Init /\ [][UNCHANGED Lock!vars \/ Lock!Next]_(Lock!vars)

-----------------------------------------------------------------------------
(* The executions of PBFTEngine that a run explores: all those of a scenario. *)

NoTimeouts == \A i \in Node : node[i].toView = 0
NoProposals == \A i \in Node : Sent(node[i], "prepare") = {}
NoEmptyBlocks ==
    \A i \in Node : \A r \in Sent(node[i], "prepare") : ~HasNoTransaction(r.block)
OneHeight ==
    \A i \in Node : Len(node[i].chain) <= 1 /\ \A r \in Sent(node[i], "prepare") : r.height <= 1

\* No CommitReq is delivered: the round stays in its sign phase.
CommitsLost == \A i \in Node : \A r \in node[i].commitCache : r.idx = i

\* Node i has not started.
Silent(i) == node[i] = Booting(<<>>, NoReq, {})

FirstHeightTimeouts == \A i \in Node : node[i].toView > 0 => node[i].highest = <<>>
SomeoneBehind == \E i \in Node : node[i].chain = <<>>

(* Two nodes: two heights with a view change at the first; a crash, until both  *)
(* have saved the block; or blocks without transactions.                        *)
HeightsOrCrash ==
    \/ restarts = 0 /\ NoEmptyBlocks /\ FirstHeightTimeouts
    \/ OneHeight /\ NoEmptyBlocks /\ (restarts > 0 => SomeoneBehind)
    \/ OneHeight /\ restarts = 0

(* Four nodes: the votes of a first view, or view changes of three of them.  *)
VotesOrViewChanges == \/ CommitsLost /\ NoTimeouts
                      \/ NoProposals /\ Silent(3)
=============================================================================
