----------------------------- MODULE RaftCommit -----------------------------
(***************************************************************************)
(* How one node of RaftEngine hands a sealed block over: the sealer thread *)
(* (RaftSealer::handleBlock, RaftEngine::commit) stores the block and      *)
(* waits on m_commitCV; the engine thread counts the acknowledgements,     *)
(* wakes the sealer or commits by itself, and changes its role meanwhile.  *)
(* Both share m_uncommittedBlock under m_commitMutex, which the sealer     *)
(* releases between storing the block and waiting for it.                  *)
(***************************************************************************)
EXTENDS Naturals

CONSTANTS MaxNumber   \* bound on the height

VARIABLES role,      \* m_state of the engine thread
          stored,    \* whose block m_uncommittedBlock is
          number,    \* m_uncommittedBlockNumber
          next,      \* m_consensusBlockNumber
          waiting,   \* m_waitingForCommitting
          ready,     \* m_commitReady
          height,    \* the number of the chain
          highest,   \* m_highestBlock.number()
          sealing,   \* the number of the sealer's block
          sealer,    \* where the sealer thread is
          engine     \* "run", or "stuck" on a mutex that it holds itself

vars == <<role, stored, number, next, waiting, ready, height, highest, sealing, sealer, engine>>

Init ==
    /\ role = "follower" /\ stored = "none" /\ number = 0 /\ next = 1
    /\ waiting = FALSE /\ ready = FALSE /\ height = 0 /\ highest = 0
    /\ sealing = 0 /\ sealer = "idle" /\ engine = "run"

-----------------------------------------------------------------------------
(* The sealer thread *)

\* Sealer::reportNewBlock
ReportNewBlock ==
    /\ sealer = "idle" /\ highest < height
    /\ highest' = height
    /\ stored' = "none" /\ number' = 0
    /\ next' = IF height >= next THEN height + 1 ELSE next
    /\ UNCHANGED <<role, waiting, ready, height, sealing, sealer, engine>>

\* RaftSealer::shouldSeal, which looks at m_uncommittedBlock under the mutex.
ShouldSeal ==
    /\ sealer = "idle" /\ highest = height /\ next <= MaxNumber
    /\ role = "leader" /\ stored = "none"
    /\ sealer' = "sealing" /\ sealing' = highest + 1
    /\ UNCHANGED <<role, stored, number, next, waiting, ready, height, highest, engine>>

\* handleBlock and the first critical section of commit, which looks no more.
Commit ==
    /\ sealer = "sealing"
    /\ stored' = "mine" /\ number' = next
    /\ sealer' = "stored"
    /\ UNCHANGED <<role, next, waiting, ready, height, highest, sealing, engine>>

Await ==
    /\ sealer = "stored"
    /\ waiting' = TRUE /\ ready' = FALSE
    /\ sealer' = "waiting"
    /\ UNCHANGED <<role, stored, number, next, height, highest, sealing, engine>>

\* The predicate of the wait holds: the rest of the second critical section.
Wake ==
    /\ sealer = "waiting" /\ ready
    /\ ready' = FALSE /\ waiting' = FALSE
    /\ stored' = "none" /\ number' = 0
    /\ sealer' = IF stored = "none" THEN "idle" ELSE "woken"
    /\ UNCHANGED <<role, next, height, highest, sealing, engine>>

\* commit goes on without the lock; checkAndSave ends with resetConfig, which may find
\* other miners and step down.
Save(changed) ==
    /\ sealer = "woken"
    /\ sealer' = "idle"
    /\ IF role = "leader" /\ sealing = height + 1
       THEN /\ height' = height + 1
            /\ role' = IF changed THEN "follower" ELSE role
       ELSE UNCHANGED <<height, role>>
    /\ UNCHANGED <<stored, number, next, waiting, ready, highest, sealing, engine>>

-----------------------------------------------------------------------------
(* The engine thread *)

\* A majority has acknowledged the stored block.  With nobody waiting, the engine commits
\* it with the mutex held; when that block changes the miners, resetConfig takes the
\* mutex again.
Acknowledged(changed) ==
    /\ engine = "run" /\ role = "leader" /\ stored # "none" /\ number = next
    /\ IF waiting
       THEN /\ ready' = TRUE
            /\ UNCHANGED <<role, stored, number, next, height, highest, engine>>
       ELSE /\ height' = IF number = height + 1 THEN number ELSE height
            /\ IF changed /\ number = height + 1
               THEN /\ engine' = "stuck" /\ role' = "follower"
                    /\ UNCHANGED <<stored, number, next, highest>>
               ELSE /\ highest' = height'
                    /\ next' = IF height' >= next THEN height' + 1 ELSE next
                    /\ stored' = "none" /\ number' = 0
                    /\ UNCHANGED <<role, engine>>
            /\ UNCHANGED ready
    /\ UNCHANGED <<waiting, sealing, sealer>>

\* An acknowledgement finds a block of another height.
GiveUp ==
    /\ engine = "run" /\ role = "leader" /\ stored # "none" /\ number # next
    /\ stored' = "none" /\ number' = 0
    /\ UNCHANGED <<role, next, waiting, ready, height, highest, sealing, sealer, engine>>

SwitchToFollower_KeepNumber ==
    /\ engine = "run"
    /\ role' = "follower"
    /\ IF waiting THEN ready' = TRUE /\ stored' = "none" /\ UNCHANGED number
       ELSE UNCHANGED <<ready, stored, number>>
    /\ UNCHANGED <<next, waiting, height, highest, sealing, sealer, engine>>

SwitchToFollower ==
    /\ engine = "run"
    /\ role' = "follower"
    /\ IF waiting THEN ready' = TRUE /\ stored' = "none" /\ number' = 0
       ELSE UNCHANGED <<ready, stored, number>>
    /\ UNCHANGED <<next, waiting, height, highest, sealing, sealer, engine>>

\* handleHeartbeat with data.
Heartbeat ==
    /\ engine = "run" /\ role # "leader" /\ next - 1 = highest /\ next <= MaxNumber
    /\ stored' = "theirs" /\ number' = next
    /\ UNCHANGED <<role, next, waiting, ready, height, highest, sealing, sealer, engine>>

\* Election timeout, and a won election.
SwitchToCandidate ==
    /\ engine = "run"
    /\ role' = "candidate"
    /\ UNCHANGED <<stored, number, next, waiting, ready, height, highest, sealing, sealer, engine>>

SwitchToLeader ==
    /\ engine = "run" /\ role = "candidate"
    /\ role' = "leader"
    /\ UNCHANGED <<stored, number, next, waiting, ready, height, highest, sealing, sealer, engine>>

\* Block sync commits a block of another node.
Sync ==
    /\ height < MaxNumber
    /\ height' = height + 1
    /\ UNCHANGED <<role, stored, number, next, waiting, ready, highest, sealing, sealer, engine>>

Next ==
    \/ ReportNewBlock \/ ShouldSeal \/ Commit \/ Await \/ Wake
    \/ \E changed \in BOOLEAN : Save(changed) \/ Acknowledged(changed)
    \/ GiveUp \/ SwitchToFollower \/ Heartbeat \/ SwitchToCandidate \/ SwitchToLeader
    \/ Sync

\* The sealer thread runs on when it can.
SealerSteps == Commit \/ Await \/ Wake \/ Save(FALSE) \/ Save(TRUE)
Spec == Init /\ [][Next]_vars /\ WF_vars(SealerSteps)

-----------------------------------------------------------------------------
(* Properties *)

\* The assertion of RaftEngine::commit: a sealer that is woken without a block also finds
\* no number, whatever heartbeats and role changes came between notification and wake-up.
CommitAssertion == (sealer = "waiting" /\ ready /\ stored = "none") => number = 0

Returned == sealer = "idle"

\* A call of commit returns if the node is a follower again and again: nothing but
\* switchToFollower is sure to wake the sealer once its block is gone.
CommitReturns == ([]<>(<<SwitchToFollower>>_vars)) => []<>Returned
=============================================================================
