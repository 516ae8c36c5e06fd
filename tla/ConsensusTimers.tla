-------------------------- MODULE ConsensusTimers ---------------------------
\* The clocks of the consensus engines: elections and heartbeats of Raft, view
\* changes of PBFT.
EXTENDS Integers, FiniteSets, FiniteSetsExt

(***************************************************************************)
(* The clocks of one RaftEngine: the election timeout, drawn anew from a   *)
(* window that grows with every failed candidacy, and the heartbeats of a  *)
(* leader.  The votes and the terms are in module Raft; here they decide   *)
(* how a candidacy ends.                                                   *)
(***************************************************************************)
CONSTANTS MinInit, MaxInit,   \* the configured window of the election timeout
          Ratio,              \* s_heartBeatIntervalRatio
          UnsignedSize,       \* the values of an unsigned
          MaxRaftTime             \* bound on the clock

VARIABLES raftNow,
          state,         \* m_state
          min, max,      \* m_minElectTimeout, m_maxElectTimeout
          electTimeout,  \* m_electTimeout
          lastElect,     \* m_lastElectTime
          lastSent,      \* m_lastHeartbeatTime
          lastReset,     \* m_lastHeartbeatReset
          heard          \* history: when the node last took a heartbeat

raftVars == <<raftNow, state, min, max, electTimeout, lastElect, lastSent, lastReset, heard>>
heartbeats == <<lastSent, lastReset>>

\* initRaftEnv
maxElectTimeoutBoundary == MaxInit + (MaxInit - MinInit) \div 2
heartbeatTimeout == MinInit
heartbeatInterval == heartbeatTimeout \div Ratio
increaseTime == (MaxInit - MinInit) \div 4

\* The width of the window is unsigned.
resetElectTimeout(lo, hi) ==
    /\ electTimeout' \in {lo + ((r * ((hi - lo) % UnsignedSize)) \div 100) : r \in 0..99}
    /\ lastElect' = raftNow

checkElectTimeout == raftNow - lastElect >= electTimeout
checkHeartbeatTimeout == raftNow - lastReset >= heartbeatTimeout

increaseElectTime ==
    IF max + increaseTime > maxElectTimeoutBoundary
    THEN max' = maxElectTimeoutBoundary /\ UNCHANGED min
    ELSE max' = max + increaseTime /\ min' = min + increaseTime

recoverElectTime == min' = MinInit /\ max' = MaxInit

RaftInit ==
    /\ raftNow = 0 /\ state = "follower"
    /\ min = MinInit /\ max = MaxInit
    /\ electTimeout \in MinInit..(MaxInit - 1)
    /\ lastElect = 0 /\ lastSent = 0 /\ lastReset = 0 /\ heard = 0

RaftTick ==
    /\ raftNow < MaxRaftTime
    /\ raftNow' = raftNow + 1
    /\ UNCHANGED <<state, min, max, electTimeout, lastElect, heartbeats, heard>>

\* runAsFollowerImp
ElectTimeout ==
    /\ state = "follower" /\ checkElectTimeout
    /\ state' = "candidate"
    /\ resetElectTimeout(min, max)
    /\ UNCHANGED <<raftNow, min, max, heartbeats, heard>>

\* runAsCandidateImp: another try, or too few answers.
CandidateTimeout ==
    /\ state = "candidate" /\ checkElectTimeout
    /\ \/ resetElectTimeout(min, max) /\ UNCHANGED <<min, max, state>>
       \/ increaseElectTime /\ resetElectTimeout(min', max') /\ state' = "follower"
    /\ UNCHANGED <<raftNow, heartbeats, heard>>

\* handleVoteResponse: a majority refuses or a leader does, and the window grows; a
\* majority has voted for another, and it does not.
Rejected ==
    /\ state = "candidate"
    /\ state' = "follower"
    /\ increaseElectTime \/ UNCHANGED <<min, max>>
    /\ resetElectTimeout(min', max')
    /\ UNCHANGED <<raftNow, heartbeats, heard>>

\* switchToLeader and runAsLeader
Won ==
    /\ state = "candidate"
    /\ state' = "leader"
    /\ recoverElectTime
    /\ lastSent' = raftNow /\ lastReset' = raftNow
    /\ UNCHANGED <<raftNow, electTimeout, lastElect, heard>>

\* handleVoteRequest that grants its vote.
VoteGranted ==
    /\ state' = "follower"
    /\ resetElectTimeout(min, max)
    /\ UNCHANGED <<raftNow, min, max, heartbeats, heard>>

\* handleHeartbeat of a leader with a term that is not older.
HandleHeartbeat ==
    /\ state' \in {state, "follower"}
    /\ heard' = raftNow
    /\ resetElectTimeout(min, max)
    /\ UNCHANGED <<raftNow, min, max, heartbeats>>

\* runAsLeaderImp: the members answer, or they do not for too long.
Acknowledged ==
    /\ state = "leader" /\ ~checkHeartbeatTimeout
    /\ lastReset' = raftNow
    /\ UNCHANGED <<raftNow, state, min, max, electTimeout, lastElect, lastSent, heard>>

HeartbeatTimeout ==
    /\ state = "leader" /\ checkHeartbeatTimeout
    /\ state' = "candidate"
    /\ resetElectTimeout(min, max)
    /\ UNCHANGED <<raftNow, min, max, heartbeats, heard>>

broadcastHeartbeat ==
    /\ state = "leader" /\ ~checkHeartbeatTimeout
    /\ raftNow - lastSent >= heartbeatInterval
    /\ lastSent' = raftNow
    /\ UNCHANGED <<raftNow, state, min, max, electTimeout, lastElect, lastReset, heard>>

RaftNext ==
    \/ RaftTick \/ ElectTimeout \/ CandidateTimeout \/ Rejected \/ Won \/ VoteGranted
    \/ HandleHeartbeat \/ Acknowledged \/ HeartbeatTimeout \/ broadcastHeartbeat

RaftSpec == RaftInit /\ [][RaftNext]_raftVars

-----------------------------------------------------------------------------
(* Properties *)

\* However many candidacies fail, in whatever order they do and leaders come and go, the
\* window neither closes nor moves out of its boundaries, and a timeout is drawn from it.
WindowKept ==
    /\ MinInit <= min /\ min < max /\ max <= maxElectTimeoutBoundary
    /\ electTimeout \in MinInit..(maxElectTimeoutBoundary - 1)

LeavesSilence == ElectTimeout => raftNow - heard >= Ratio * heartbeatInterval

\* A follower leaves its leader only after it has been silent for a whole heartbeat timeout,
\* in which the leader sends Ratio heartbeats.
SilenceFirst == [][LeavesSilence]_raftVars

-----------------------------------------------------------------------------
(***************************************************************************)
(* The clock of the PBFT view changes: TimeManager and the places of       *)
(* PBFTEngine that set it.  Three threads touch it: the engine             *)
(* (checkTimeout and the message handlers, under m_mutex), the sealer      *)
(* thread through reportBlock and generatePrepare (under m_mutex) and      *)
(* through shouldSeal, which writes without a lock.                        *)
(***************************************************************************)
CONSTANTS ViewTimeout,      \* m_viewTimeout, three block intervals
          kMaxChangeCycle,
          MaxTime           \* bound on the clock

VARIABLES now,             \* utcTime()
          lastConsensus,   \* m_lastConsensusTime
          lastSign,        \* m_lastSignTime
          changeCycle,     \* m_changeCycle
          asked,           \* some thread has asked for a view change at once
          timeouts,        \* times of the view changes since the last progress or request
          halfway          \* shouldSeal is between its two writes

viewVars == <<now, lastConsensus, lastSign, changeCycle, asked, timeouts, halfway>>

Largest(a, b) == IF a > b THEN a ELSE b

\* (uint64_t)(m_viewTimeout * 1.5^m_changeCycle)
Interval(cycle) == (ViewTimeout * 3 ^ cycle) \div 2 ^ cycle

isTimeout == now - Largest(lastConsensus, lastSign) >= Interval(changeCycle)

Tick ==
    /\ now < MaxTime
    /\ now' = now + 1
    /\ UNCHANGED <<lastConsensus, lastSign, changeCycle, asked, timeouts, halfway>>

\* The sign time of the round left in place.
changeView_KeepSign ==
    /\ lastConsensus' = 0
    /\ asked' = TRUE
    /\ UNCHANGED <<now, lastSign, halfway>>

changeView ==
    /\ lastConsensus' = 0
    /\ lastSign' = 0
    /\ asked' = TRUE
    /\ UNCHANGED <<now, halfway>>

\* generatePrepare and handlePrepareMsg with an empty block.
EmptyBlock == changeView /\ changeCycle' = 0 /\ timeouts' = {}

\* handleViewChangeMsg that sees f + 1 requests for later views.
FastViewChange == changeView /\ UNCHANGED <<changeCycle, timeouts>>

\* shouldSeal of a node that is not connected to the leader: two writes without the lock.
ShouldSealConsensusTime ==
    /\ ~halfway
    /\ halfway' = TRUE
    /\ lastConsensus' = 0
    /\ asked' = TRUE
    /\ UNCHANGED <<now, lastSign, changeCycle, timeouts>>

ShouldSealSignTime ==
    /\ halfway
    /\ halfway' = FALSE
    /\ lastSign' = 0
    /\ UNCHANGED <<now, lastConsensus, changeCycle, asked, timeouts>>

\* checkAndCommit: the round is alive, and what was asked for is put off, unless shouldSeal
\* is still to overwrite the sign time.
SignsCollected ==
    /\ lastSign' = now
    /\ asked' = (asked /\ halfway)
    /\ UNCHANGED <<now, lastConsensus, changeCycle, timeouts, halfway>>

\* reportBlock of a newer block, which is the sealer thread's as shouldSeal is.
ReportBlock ==
    /\ ~halfway
    /\ lastConsensus' = now
    /\ changeCycle' = 0
    /\ asked' = FALSE
    /\ timeouts' = {}
    /\ UNCHANGED <<now, lastSign, halfway>>

\* checkAndChangeView reaches its quorum.
ViewReached ==
    /\ timeouts # {}
    /\ lastConsensus' = now
    /\ asked' = FALSE
    /\ UNCHANGED <<now, lastSign, changeCycle, timeouts, halfway>>

updateChangeCycle_Stay == changeCycle

updateChangeCycle == IF changeCycle + 1 < kMaxChangeCycle THEN changeCycle + 1 ELSE kMaxChangeCycle

\* checkTimeout.
CheckTimeout ==
    /\ isTimeout
    /\ changeCycle' = updateChangeCycle
    /\ lastConsensus' = now
    /\ timeouts' = IF asked THEN {now} ELSE timeouts \cup {now}
    /\ asked' = FALSE
    /\ UNCHANGED <<now, lastSign, halfway>>

\* The epoch is further back than any interval.
ViewInit ==
    /\ now = Interval(kMaxChangeCycle)
    /\ lastConsensus = now
    /\ lastSign = 0
    /\ changeCycle = 0
    /\ asked = FALSE
    /\ timeouts = {}
    /\ halfway = FALSE

ViewNext ==
    \/ Tick \/ EmptyBlock \/ FastViewChange \/ SignsCollected
    \/ ShouldSealConsensusTime \/ ShouldSealSignTime
    \/ ReportBlock \/ ViewReached \/ CheckTimeout

ViewSpec == ViewInit /\ [][ViewNext]_viewVars

\* A view change that was asked for is taken at the next check, however long the back-off
\* has grown, and whatever the engine did between the two writes of shouldSeal.
AskedIsTimely == asked /\ ~halfway => isTimeout

WaitsLonger ==
    (CheckTimeout /\ ~asked /\ timeouts # {}) =>
        now - Max(timeouts) >= Interval(Min({Cardinality(timeouts), kMaxChangeCycle}))

\* View changes nobody asked for are further and further apart: the n-th one since the last
\* progress waits for the interval of n - 1 failures after the one before.
BackOff == [][WaitsLonger]_viewVars
=============================================================================
