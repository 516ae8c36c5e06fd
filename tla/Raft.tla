-------------------------------- MODULE Raft --------------------------------
(***************************************************************************)
(* dev::consensus::RaftEngine on several nodes: elections with last leader *)
(* terms and first votes, heartbeats that carry the block to be committed, *)
(* and the commit by the leader.  A follower stores the block of the last  *)
(* heartbeat with data; committed blocks reach it by block sync.           *)
(*                                                                         *)
(* The engine thread of a node handles one message or one timeout at a     *)
(* time.  Term, votes and the stored block are not persisted.              *)
(***************************************************************************)
EXTENDS Naturals, FiniteSets, TLAPS

CONSTANTS Node,
          Electable,      \* the nodes whose election timeout passes
          MaxTerm,        \* bound on the terms
          MaxNumber,      \* bound on the height of the chain
          MaxMsgs,        \* bound on the messages under way; what exceeds it is lost
          HeartbeatCount, \* 2 * s_heartBeatIntervalRatio
          MaxRestarts     \* bound on restarts

VARIABLES term,            \* m_term
          state,           \* m_state
          lastLeaderTerm,  \* m_lastLeaderTerm
          firstVote,       \* m_firstVote
          heartbeatCount,  \* m_heartbeatCount
          voteState,       \* the VoteState of runAsCandidate: a count per flag
          chain,           \* the committed blocks, a function on 1 .. number
          uncommitted,     \* m_uncommittedBlock
          waiting,         \* m_waitingForCommitting: the sealer thread waits for its block
          fingerPrint,     \* m_commitFingerPrint of that block
          memberBlock,     \* m_memberBlock: the last height and block a member has reported
          msgs,
          restarts

vars == <<term, state, lastLeaderTerm, firstVote, heartbeatCount, voteState, chain, uncommitted,
          waiting, fingerPrint, memberBlock, msgs, restarts>>
blocks == <<chain, uncommitted, waiting, fingerPrint, memberBlock>>

Invalid == "invalid"
NoBlock == [number |-> 0, sealer |-> Invalid, term |-> 0]
Flag == {"REJECT", "LEADER_REJECT", "LASTTERM_ERROR", "OUTDATED", "FIRST_VOTE", "DISCARD", "GRANTED"}
NoVotes == [f \in Flag |-> 0]

Number(i) == Cardinality(DOMAIN chain[i])
Highest(i) == IF Number(i) = 0 THEN NoBlock ELSE chain[i][Number(i)]
F == (Cardinality(Node) - 1) \div 2
IsMajorityVote(n) == n >= Cardinality(Node) - F

Init ==
    /\ term = [i \in Node |-> 0] /\ state = [i \in Node |-> "follower"]
    /\ lastLeaderTerm = [i \in Node |-> 0] /\ firstVote = [i \in Node |-> Invalid]
    /\ heartbeatCount = [i \in Node |-> 0] /\ voteState = [i \in Node |-> NoVotes]
    /\ chain = [i \in Node |-> <<>>] /\ uncommitted = [i \in Node |-> NoBlock]
    /\ waiting = [i \in Node |-> FALSE] /\ fingerPrint = [i \in Node |-> {}]
    /\ memberBlock = [i \in Node |-> [j \in Node |-> NoBlock]]
    /\ msgs = {} /\ restarts = 0

\* Messages under way are sent and received in any order, and may be lost.  Every node is
\* a miner, so that isValidReq lets each message into the queue of the engine.
Exchange(received, sent) ==
    \E arriving \in SUBSET sent :
        /\ msgs' = (msgs \ received) \cup arriving
        /\ arriving # {} => Cardinality(msgs') <= MaxMsgs
\* The answer to a message goes to its sender only.
SendResponse(m, resp) == Exchange({m}, {[resp EXCEPT !.to = m.from]})
BroadcastMsg(i, m) == {[m EXCEPT !.to = j] : j \in Node \ {i}}

-----------------------------------------------------------------------------
(* Roles *)

\* The number a vote is judged by: the chain and the block still to be committed.
LastBlockNumber(i) == Number(i) + (IF uncommitted[i] = NoBlock THEN 0 ELSE 1)

GenerateVoteReq(i, t) ==
    [type |-> "VoteReq", from |-> i, to |-> i, term |-> t, lastLeaderTerm |-> lastLeaderTerm[i],
     lastBlockNumber |-> LastBlockNumber(i)]

GenerateHeartbeat(i) ==
    [type |-> "HeartBeat", from |-> i, to |-> i, term |-> term[i], block |-> uncommitted[i]]

SwitchToCandidate(i) ==
    /\ term[i] < MaxTerm
    /\ term' = [term EXCEPT ![i] = @ + 1]
    /\ state' = [state EXCEPT ![i] = "candidate"]

\* A new candidate votes for itself and asks the others.
RunAsCandidate(i) ==
    /\ voteState' = [voteState EXCEPT ![i] = [NoVotes EXCEPT !["GRANTED"] = 1]]
    /\ firstVote' = [firstVote EXCEPT ![i] = i]
    /\ Exchange({}, BroadcastMsg(i, GenerateVoteReq(i, term'[i])))
    /\ UNCHANGED <<lastLeaderTerm, heartbeatCount, blocks, restarts>>

\* switchToFollower drops the block that the sealer thread waits for, and wakes it.
DropOwnBlock(i) ==
    /\ uncommitted' = [uncommitted EXCEPT ![i] = IF waiting[i] THEN NoBlock ELSE @]
    /\ waiting' = [waiting EXCEPT ![i] = FALSE]

LeaveCandidacy(i) == voteState' = [voteState EXCEPT ![i] = NoVotes]

SwitchToLeader(i) == state' = [state EXCEPT ![i] = "leader"]

RunAsLeader(i) ==
    /\ firstVote' = [firstVote EXCEPT ![i] = Invalid]
    /\ lastLeaderTerm' = [lastLeaderTerm EXCEPT ![i] = term[i]]

\* clearFirstVoteCache
Counted(i) == IF firstVote[i] = Invalid THEN heartbeatCount[i]
              ELSE (heartbeatCount[i] + 1) % HeartbeatCount
FirstVoteKept(i) == IF Counted(i) = 0 THEN Invalid ELSE firstVote[i]

ElectTimeout(i) ==
    /\ i \in Electable /\ state[i] = "follower"
    /\ SwitchToCandidate(i) /\ RunAsCandidate(i)

\* A candidate that hardly anybody has answered takes its term back.
CandidateTimeout(i) ==
    /\ state[i] = "candidate"
    /\ LET total == Cardinality({v \in Flag \X (1 .. 9) : v[2] <= voteState[i][v[1]]}) IN
       IF IsMajorityVote(total) THEN SwitchToCandidate(i) /\ RunAsCandidate(i)
       ELSE /\ term' = [term EXCEPT ![i] = @ - 1]
            /\ state' = [state EXCEPT ![i] = "follower"]
            /\ heartbeatCount' = [heartbeatCount EXCEPT ![i] = 0]
            /\ LeaveCandidacy(i)
            /\ DropOwnBlock(i)
            /\ UNCHANGED <<lastLeaderTerm, firstVote, chain, fingerPrint, memberBlock, msgs, restarts>>

\* A leader without acknowledgements becomes a candidate.
HeartbeatTimeout(i) ==
    /\ state[i] = "leader"
    /\ SwitchToCandidate(i) /\ RunAsCandidate(i)

BroadcastHeartbeat(i) ==
    /\ state[i] = "leader"
    /\ Exchange({}, BroadcastMsg(i, GenerateHeartbeat(i)))
    /\ heartbeatCount' = [heartbeatCount EXCEPT ![i] = Counted(i)]
    /\ firstVote' = [firstVote EXCEPT ![i] = FirstVoteKept(i)]
    /\ UNCHANGED <<term, state, lastLeaderTerm, voteState, blocks, restarts>>

-----------------------------------------------------------------------------
(* Votes *)

\* The answer of handleVoteRequest.  A leader goes on after its first test, so that its
\* LEADER_REJECT is replaced by the result of a later one.
VoteFlag(i, m) ==
    IF state[i] # "leader" /\ m.term = term[i] THEN "DISCARD"
    ELSE IF state[i] # "leader" /\ m.term < term[i] THEN "REJECT"
    ELSE IF m.lastLeaderTerm < lastLeaderTerm[i] THEN "LASTTERM_ERROR"
    ELSE IF m.lastBlockNumber < LastBlockNumber(i) THEN "OUTDATED"
    ELSE IF firstVote[i] = Invalid THEN "FIRST_VOTE"
    ELSE "GRANTED"

HandleVoteRequest(i, m) ==
    LET flag == VoteFlag(i, m)
        granted == flag = "GRANTED" IN
    /\ m.type = "VoteReq"
    /\ SendResponse(m, [type |-> "VoteResp", from |-> i, to |-> i, flag |-> flag,
                        term |-> IF granted THEN m.term ELSE term[i],
                        lastLeaderTerm |-> lastLeaderTerm[i]])
    /\ firstVote' = [firstVote EXCEPT ![i] = IF flag \in {"FIRST_VOTE", "GRANTED"} THEN m.from ELSE @]
    /\ term' = [term EXCEPT ![i] = IF granted THEN m.term ELSE @]
    /\ IF granted /\ state[i] # "follower"
       THEN /\ state' = [state EXCEPT ![i] = "follower"]
            /\ heartbeatCount' = [heartbeatCount EXCEPT ![i] = 0]
            /\ LeaveCandidacy(i)
            /\ DropOwnBlock(i)
       ELSE UNCHANGED <<state, heartbeatCount, voteState, uncommitted, waiting>>
    /\ UNCHANGED <<lastLeaderTerm, chain, fingerPrint, memberBlock, restarts>>

\* handleVoteResponse: the votes are counted by flag, not by sender.
HandleVoteResponse(i, m) ==
    LET n == voteState[i][m.flag] + 1
        toFollower == \/ m.flag \in {"REJECT", "LASTTERM_ERROR", "FIRST_VOTE"} /\ IsMajorityVote(n)
                      \/ m.flag = "LEADER_REJECT" IN
    /\ m.type = "VoteResp"
    /\ Exchange({m}, {})
    /\ IF state[i] # "candidate" \/ m.term + 1 < term[i]
       THEN UNCHANGED <<term, state, lastLeaderTerm, firstVote, heartbeatCount, voteState, uncommitted, waiting>>
       ELSE /\ CASE toFollower ->
                    /\ term' = [term EXCEPT ![i] = CASE m.flag = "LEADER_REJECT" -> m.term
                                                     [] m.flag = "FIRST_VOTE" -> @ - 1
                                                     [] OTHER -> @]
                    /\ lastLeaderTerm' = [lastLeaderTerm EXCEPT ![i] =
                                            IF m.flag = "LEADER_REJECT" THEN m.lastLeaderTerm ELSE @]
                    /\ state' = [state EXCEPT ![i] = "follower"]
                    /\ heartbeatCount' = [heartbeatCount EXCEPT ![i] = 0]
                    /\ LeaveCandidacy(i)
                    /\ DropOwnBlock(i)
                    /\ UNCHANGED firstVote
                 [] m.flag = "GRANTED" /\ IsMajorityVote(n) ->
                    /\ SwitchToLeader(i) /\ RunAsLeader(i)
                    /\ LeaveCandidacy(i)
                    /\ UNCHANGED <<term, heartbeatCount, uncommitted, waiting>>
                 [] OTHER ->
                    /\ voteState' = [voteState EXCEPT ![i][m.flag] = n]
                    /\ UNCHANGED <<term, state, lastLeaderTerm, firstVote, heartbeatCount, uncommitted, waiting>>
    /\ UNCHANGED <<chain, fingerPrint, memberBlock, restarts>>

-----------------------------------------------------------------------------
(* Heartbeats *)

\* The term a node has after a heartbeat: that of a leader it follows.
HeartbeatTerm_Keep(i, m, stepDown) == term[i]
HeartbeatTerm(i, m, stepDown) == IF stepDown THEN m.term ELSE term[i]

\* handleHeartbeat with what the role does with its result.
HandleHeartbeat(i, m) ==
    LET stepDown == \/ m.term > lastLeaderTerm[i] \/ m.term > term[i]
                    \/ state[i] = "candidate" /\ m.term >= term[i]
        changed == stepDown /\ state[i] # "follower" IN
    /\ m.type = "HeartBeat"
    /\ IF (m.term < term[i] /\ m.term <= lastLeaderTerm[i])
          \/ (m.block # NoBlock /\ m.block.number # Number(i) + 1)
       THEN /\ Exchange({m}, {})
            /\ UNCHANGED <<term, state, lastLeaderTerm, firstVote, heartbeatCount, voteState, uncommitted, waiting>>
       ELSE /\ SendResponse(m, [type |-> "HeartBeatResp", from |-> i, to |-> i, term |-> term[i],
                                highest |-> Highest(i), block |-> m.block])
            /\ term' = [term EXCEPT ![i] = HeartbeatTerm(i, m, stepDown)]
            /\ lastLeaderTerm' = [lastLeaderTerm EXCEPT ![i] = m.term]
            /\ firstVote' = [firstVote EXCEPT ![i] = FirstVoteKept(i)]
            /\ state' = [state EXCEPT ![i] = IF stepDown THEN "follower" ELSE @]
            /\ voteState' = [voteState EXCEPT ![i] = IF stepDown THEN NoVotes ELSE @]
            /\ heartbeatCount' = [heartbeatCount EXCEPT ![i] = IF changed THEN 0 ELSE Counted(i)]
            /\ uncommitted' = [uncommitted EXCEPT ![i] =
                                IF changed /\ waiting[i] THEN NoBlock
                                ELSE IF m.block # NoBlock THEN m.block ELSE @]
            /\ waiting' = [waiting EXCEPT ![i] = @ /\ ~changed]
    /\ UNCHANGED <<chain, fingerPrint, memberBlock, restarts>>

\* The leader counts who has stored its block, and commits it with a majority.
HandleHeartbeatResp(i, m) ==
    LET mine == state[i] = "leader" /\ m.term = term[i]
        stored == mine /\ uncommitted[i] # NoBlock /\ m.block = uncommitted[i]
        prints == fingerPrint[i] \cup {m.from}
        commits == stored /\ IsMajorityVote(Cardinality(prints) + 1) IN
    /\ m.type = "HeartBeatResp"
    /\ Exchange({m}, {})
    /\ memberBlock' = [memberBlock EXCEPT ![i][m.from] = IF mine THEN m.highest ELSE @]
    /\ fingerPrint' = [fingerPrint EXCEPT ![i] = IF commits THEN {} ELSE IF stored THEN prints ELSE @]
    /\ chain' = [chain EXCEPT ![i] = IF commits THEN [n \in 1 .. Number(i) + 1 |->
                                                       IF n <= Number(i) THEN @[n] ELSE uncommitted[i]] ELSE @]
    /\ uncommitted' = [uncommitted EXCEPT ![i] = IF commits THEN NoBlock ELSE @]
    /\ waiting' = [waiting EXCEPT ![i] = @ /\ ~commits]
    /\ UNCHANGED <<term, state, lastLeaderTerm, firstVote, heartbeatCount, voteState, restarts>>

-----------------------------------------------------------------------------
(* Blocks *)

ShouldSeal(i) ==
    /\ state[i] = "leader" /\ uncommitted[i] = NoBlock
    /\ \A j \in Node \ {i} : memberBlock[i][j].number <= Number(i)
    /\ IsMajorityVote(1 + Cardinality({j \in Node \ {i} : memberBlock[i][j] = Highest(i)}))

\* RaftSealer::handleBlock and commit: the sealed block is the one to be committed.
SealBlock(i) ==
    /\ ShouldSeal(i) /\ Number(i) < MaxNumber
    /\ uncommitted' = [uncommitted EXCEPT ![i] = [number |-> Number(i) + 1, sealer |-> i, term |-> term[i]]]
    /\ waiting' = [waiting EXCEPT ![i] = TRUE]
    /\ fingerPrint' = [fingerPrint EXCEPT ![i] = {}]
    /\ UNCHANGED <<term, state, lastLeaderTerm, firstVote, heartbeatCount, voteState, chain,
                   memberBlock, msgs, restarts>>

\* Block sync commits a block of another node; reportBlock forgets the stored block.  The
\* sealer thread reports it, when it does not wait.
ReportBlock(i, j) ==
    /\ ~waiting[i] /\ Number(i) < Number(j)
    /\ \A n \in DOMAIN chain[i] : chain[i][n] = chain[j][n]
    /\ chain' = [chain EXCEPT ![i] = [n \in 1 .. Number(i) + 1 |-> chain[j][n]]]
    /\ uncommitted' = [uncommitted EXCEPT ![i] = NoBlock]
    /\ fingerPrint' = [fingerPrint EXCEPT ![i] = {}]
    /\ UNCHANGED <<term, state, lastLeaderTerm, firstVote, heartbeatCount, voteState, waiting,
                   memberBlock, msgs, restarts>>

Restart(i) ==
    /\ restarts < MaxRestarts
    /\ restarts' = restarts + 1
    /\ term' = [term EXCEPT ![i] = 0] /\ state' = [state EXCEPT ![i] = "follower"]
    /\ lastLeaderTerm' = [lastLeaderTerm EXCEPT ![i] = 0]
    /\ firstVote' = [firstVote EXCEPT ![i] = Invalid]
    /\ heartbeatCount' = [heartbeatCount EXCEPT ![i] = 0]
    /\ voteState' = [voteState EXCEPT ![i] = NoVotes]
    /\ uncommitted' = [uncommitted EXCEPT ![i] = NoBlock]
    /\ waiting' = [waiting EXCEPT ![i] = FALSE]
    /\ fingerPrint' = [fingerPrint EXCEPT ![i] = {}]
    /\ memberBlock' = [memberBlock EXCEPT ![i] = [j \in Node |-> NoBlock]]
    /\ UNCHANGED <<chain, msgs>>

Next ==
    \/ \E i \in Node : \/ ElectTimeout(i) \/ CandidateTimeout(i) \/ HeartbeatTimeout(i)
                       \/ BroadcastHeartbeat(i) \/ SealBlock(i) \/ Restart(i)
    \/ \E i \in Node, j \in Node : ReportBlock(i, j)
    \/ \E m \in msgs : \/ HandleVoteRequest(m.to, m) \/ HandleVoteResponse(m.to, m)
                       \/ HandleHeartbeat(m.to, m) \/ HandleHeartbeatResp(m.to, m)

Spec == Init /\ [][Next]_vars

-----------------------------------------------------------------------------
(* Properties *)

\* The terms of a node keep their order through all the steps that take a term back or
\* take one over: the last leader's term is at most the node's, equal for a leader, and
\* below it for a candidate.
TermOrder ==
    \A i \in Node : /\ lastLeaderTerm[i] <= term[i]
                    /\ state[i] = "candidate" => lastLeaderTerm[i] < term[i]
                    /\ state[i] = "leader" => lastLeaderTerm[i] = term[i]

\* A leader is not deposed by a vote request of a term that is not above its own,
\* although the test for this answers nothing and lets the request pass on.
OldVoteReqRefused ==
    \A m \in msgs : (m.type = "VoteReq" /\ state[m.to] = "leader" /\ m.term <= term[m.to]) =>
        VoteFlag(m.to, m) = "LASTTERM_ERROR"

-----------------------------------------------------------------------------
(***************************************************************************)
(* Proofs: the terms of a node keep their order, and a leader refuses the  *)
(* vote requests of its own and of earlier terms, for every set of nodes   *)
(* and every bound.                                                        *)
(***************************************************************************)
Role == {"follower", "candidate", "leader"}

TermsTyped ==
    /\ term \in [Node -> Nat]
    /\ lastLeaderTerm \in [Node -> Nat]
    /\ state \in [Node -> Role]

(* What the terms of a message say of its sender when it was sent.  A vote    *)
(* request is a candidate's, and LEADER_REJECT never leaves a node: VoteFlag  *)
(* says that a later test of handleVoteRequest replaces it.                   *)
MessageOK(m) ==
    /\ m.to \in Node /\ m.from \in Node /\ m.term \in Nat
    /\ m.type = "VoteReq" => m.lastLeaderTerm \in Nat /\ m.lastLeaderTerm < m.term
    /\ m.type = "VoteResp" => m.flag \in Flag \ {"LEADER_REJECT"}

AllOK(set) == \A m \in set : MessageOK(m)

(* TermOrder alone is not inductive: CandidateTimeout and FIRST_VOTE take a   *)
(* term back, which needs a natural number above the last leader's, and a     *)
(* granted vote takes over the term of a request, which is above the last     *)
(* leader's term of the voter only because the sender was a candidate.        *)
RaftInv == TermsTyped /\ TermOrder /\ AllOK(msgs)

-----------------------------------------------------------------------------
(* Messages *)

LEMMA ExchangeKeeps ==
  ASSUME NEW received, NEW sent, AllOK(msgs), AllOK(sent), Exchange(received, sent)
  PROVE  AllOK(msgs')
BY DEF Exchange, AllOK

LEMMA RequestsOK ==
  ASSUME NEW i \in Node, NEW t \in Nat, lastLeaderTerm[i] \in Nat, lastLeaderTerm[i] < t
  PROVE  AllOK(BroadcastMsg(i, GenerateVoteReq(i, t)))
BY DEF AllOK, BroadcastMsg, GenerateVoteReq, MessageOK

LEMMA HeartbeatsOK ==
  ASSUME NEW i \in Node, term[i] \in Nat
  PROVE  AllOK(BroadcastMsg(i, GenerateHeartbeat(i)))
BY DEF AllOK, BroadcastMsg, GenerateHeartbeat, MessageOK

LEMMA FlagSent ==
  ASSUME NEW i, NEW m
  PROVE  VoteFlag(i, m) \in Flag \ {"LEADER_REJECT"}
BY DEF VoteFlag, Flag

-----------------------------------------------------------------------------
(* One step *)

\* A node that becomes a candidate again and again counts its term up.
LEMMA CandidacyKeeps ==
  ASSUME RaftInv, NEW i \in Node, SwitchToCandidate(i), RunAsCandidate(i)
  PROVE  RaftInv'
<1>1. /\ term' = [term EXCEPT ![i] = @ + 1]
      /\ state' = [state EXCEPT ![i] = "candidate"]
      /\ lastLeaderTerm' = lastLeaderTerm
  BY DEF SwitchToCandidate, RunAsCandidate
<1>2. TermsTyped' /\ TermOrder'
  BY <1>1 DEF RaftInv, TermsTyped, TermOrder, Role
<1>3. term'[i] \in Nat /\ lastLeaderTerm[i] \in Nat /\ lastLeaderTerm[i] < term'[i]
  BY <1>1 DEF RaftInv, TermsTyped, TermOrder
<1>4. AllOK(BroadcastMsg(i, GenerateVoteReq(i, term'[i])))
  BY <1>3, RequestsOK
<1>5. AllOK(msgs')
  BY <1>4, ExchangeKeeps DEF RaftInv, RunAsCandidate
<1> QED BY <1>2, <1>5 DEF RaftInv

LEMMA CandidateTimeoutKeeps ==
  ASSUME RaftInv, NEW i \in Node, CandidateTimeout(i)
  PROVE  RaftInv'
<1>1. CASE SwitchToCandidate(i) /\ RunAsCandidate(i)
  BY <1>1, CandidacyKeeps
<1>2. CASE /\ term' = [term EXCEPT ![i] = @ - 1]
           /\ state' = [state EXCEPT ![i] = "follower"]
           /\ lastLeaderTerm' = lastLeaderTerm
           /\ msgs' = msgs
  <2>1. lastLeaderTerm[i] <= term[i] - 1 /\ term[i] - 1 \in Nat
    BY DEF RaftInv, TermsTyped, TermOrder, CandidateTimeout
  <2>2. TermsTyped' /\ TermOrder'
    BY <1>2, <2>1 DEF RaftInv, TermsTyped, TermOrder, Role
  <2> QED BY <1>2, <2>2 DEF RaftInv
<1> QED BY <1>1, <1>2 DEF CandidateTimeout

LEMMA BroadcastHeartbeatKeeps ==
  ASSUME RaftInv, NEW i \in Node, BroadcastHeartbeat(i)
  PROVE  RaftInv'
<1>1. AllOK(BroadcastMsg(i, GenerateHeartbeat(i)))
  BY HeartbeatsOK DEF RaftInv, TermsTyped
<1>2. AllOK(msgs')
  BY <1>1, ExchangeKeeps DEF RaftInv, BroadcastHeartbeat
<1> QED BY <1>2 DEF RaftInv, TermsTyped, TermOrder, BroadcastHeartbeat

\* A vote is granted to a candidate whose last leader is no older than the voter's, and
\* whose term is above that leader's.
LEMMA HandleVoteRequestKeeps ==
  ASSUME RaftInv, NEW m \in msgs, HandleVoteRequest(m.to, m)
  PROVE  RaftInv'
<1> DEFINE i == m.to
           flag == VoteFlag(i, m)
           resp == [type |-> "VoteResp", from |-> i, to |-> i, flag |-> flag,
                    term |-> IF flag = "GRANTED" THEN m.term ELSE term[i],
                    lastLeaderTerm |-> lastLeaderTerm[i]]
<1>1. /\ MessageOK(m) /\ i \in Node
      /\ m.lastLeaderTerm \in Nat /\ m.term \in Nat /\ m.lastLeaderTerm < m.term
  BY DEF RaftInv, AllOK, MessageOK, HandleVoteRequest
<1>2. /\ SendResponse(m, resp)
      /\ term' = [term EXCEPT ![i] = IF flag = "GRANTED" THEN m.term ELSE @]
      /\ lastLeaderTerm' = lastLeaderTerm
      /\ IF flag = "GRANTED" /\ state[i] # "follower"
         THEN state' = [state EXCEPT ![i] = "follower"] ELSE state' = state
  BY DEF HandleVoteRequest
<1>3. MessageOK([resp EXCEPT !.to = m.from])
  <2>1. flag \in Flag \ {"LEADER_REJECT"}
    BY FlagSent
  <2>2. term[i] \in Nat
    BY <1>1 DEF RaftInv, TermsTyped
  <2> HIDE DEF flag
  <2> QED BY <1>1, <2>1, <2>2 DEF MessageOK
<1>4. AllOK(msgs')
  <2>1. AllOK({[resp EXCEPT !.to = m.from]})
    BY <1>3 DEF AllOK
  <2> HIDE DEF resp
  <2> QED BY <2>1, <1>2, ExchangeKeeps DEF RaftInv, SendResponse
<1>5. flag = "GRANTED" => lastLeaderTerm[i] < m.term
  BY <1>1 DEF VoteFlag, RaftInv, TermsTyped
<1>6. TermsTyped' /\ TermOrder'
  <2> HIDE DEF flag, i
  <2> QED BY <1>1, <1>2, <1>5 DEF RaftInv, TermsTyped, TermOrder, Role
<1> QED BY <1>4, <1>6 DEF RaftInv

\* A candidate steps down with its term or with the one before, or becomes the leader.
LEMMA HandleVoteResponseKeeps ==
  ASSUME RaftInv, NEW m \in msgs, HandleVoteResponse(m.to, m)
  PROVE  RaftInv'
<1> DEFINE i == m.to
<1>1. i \in Node /\ m.flag # "LEADER_REJECT"
  BY DEF RaftInv, AllOK, MessageOK, HandleVoteResponse
<1>2. AllOK(msgs')
  BY DEF RaftInv, AllOK, HandleVoteResponse, Exchange
<1>3. \/ UNCHANGED <<term, state, lastLeaderTerm>>
      \/ /\ state[i] = "candidate" /\ lastLeaderTerm' = lastLeaderTerm
         /\ \/ term' = term \/ term' = [term EXCEPT ![i] = @ - 1]
         /\ state' = [state EXCEPT ![i] = "follower"]
      \/ /\ lastLeaderTerm' = [lastLeaderTerm EXCEPT ![i] = term[i]]
         /\ state' = [state EXCEPT ![i] = "leader"]
         /\ term' = term
  BY <1>1 DEF HandleVoteResponse, SwitchToLeader, RunAsLeader, RaftInv, TermsTyped
<1>4. TermsTyped' /\ TermOrder'
  BY <1>1, <1>3 DEF RaftInv, TermsTyped, TermOrder, Role
<1> QED BY <1>2, <1>4 DEF RaftInv

\* A heartbeat that is not refused is of the term of the leader that hears it, or makes
\* the node follow.
LEMMA HandleHeartbeatKeeps ==
  ASSUME RaftInv, NEW m \in msgs, HandleHeartbeat(m.to, m)
  PROVE  RaftInv'
<1> DEFINE i == m.to
           stepDown == \/ m.term > lastLeaderTerm[i] \/ m.term > term[i]
                       \/ state[i] = "candidate" /\ m.term >= term[i]
           resp == [type |-> "HeartBeatResp", from |-> i, to |-> i, term |-> term[i],
                    highest |-> Highest(i), block |-> m.block]
<1>1. i \in Node /\ m.from \in Node /\ m.term \in Nat /\ term[i] \in Nat
  BY DEF RaftInv, AllOK, MessageOK, TermsTyped
<1>2. CASE Exchange({m}, {}) /\ UNCHANGED <<term, state, lastLeaderTerm>>
  <2>1. AllOK(msgs')
    BY <1>2 DEF RaftInv, AllOK, Exchange
  <2> QED BY <1>2, <2>1 DEF RaftInv, TermsTyped, TermOrder
<1>3. CASE /\ ~(m.term < term[i] /\ m.term <= lastLeaderTerm[i])
           /\ SendResponse(m, resp)
           /\ term' = [term EXCEPT ![i] = HeartbeatTerm(i, m, stepDown)]
           /\ lastLeaderTerm' = [lastLeaderTerm EXCEPT ![i] = m.term]
           /\ state' = [state EXCEPT ![i] = IF stepDown THEN "follower" ELSE @]
  <2>1. AllOK({[resp EXCEPT !.to = m.from]})
    BY <1>1 DEF AllOK, MessageOK
  <2>2. AllOK(msgs')
    <3> HIDE DEF resp
    <3> QED BY <2>1, <1>3, ExchangeKeeps DEF RaftInv, SendResponse
  <2>3. lastLeaderTerm' = [lastLeaderTerm EXCEPT ![i] = m.term]
    BY <1>3
  <2>4. ASSUME stepDown  PROVE TermsTyped' /\ TermOrder'
    <3>1. /\ term' = [term EXCEPT ![i] = m.term]
          /\ state' = [state EXCEPT ![i] = "follower"]
      BY <1>3, <2>4 DEF HeartbeatTerm
    <3> HIDE DEF i
    <3> QED BY <1>1, <2>3, <3>1 DEF RaftInv, TermsTyped, TermOrder, Role
  <2>5. ASSUME ~stepDown  PROVE TermsTyped' /\ TermOrder'
    <3>1. /\ m.term <= lastLeaderTerm[i] /\ m.term = term[i]
          /\ state[i] # "candidate"
      BY <1>1, <1>3, <2>5 DEF RaftInv, TermsTyped, TermOrder
    <3>2. UNCHANGED <<term, state>>
      BY <1>3, <2>5 DEF HeartbeatTerm, RaftInv, TermsTyped
    <3> HIDE DEF i
    <3> QED BY <1>1, <2>3, <3>1, <3>2 DEF RaftInv, TermsTyped, TermOrder, Role
  <2> QED BY <2>2, <2>4, <2>5 DEF RaftInv
<1> QED BY <1>2, <1>3 DEF HandleHeartbeat

LEMMA HandleHeartbeatRespKeeps ==
  ASSUME RaftInv, NEW m \in msgs, HandleHeartbeatResp(m.to, m)
  PROVE  RaftInv'
<1>1. AllOK(msgs')
  BY DEF RaftInv, AllOK, HandleHeartbeatResp, Exchange
<1> QED BY <1>1 DEF RaftInv, TermsTyped, TermOrder, HandleHeartbeatResp

LEMMA RaftStep ==
  ASSUME RaftInv, [Next]_vars
  PROVE  RaftInv'
<1>1. CASE UNCHANGED vars
  BY <1>1 DEF vars, RaftInv, TermsTyped, TermOrder, AllOK
<1>2. ASSUME NEW i \in Node, ElectTimeout(i) \/ HeartbeatTimeout(i)  PROVE RaftInv'
  BY <1>2, CandidacyKeeps DEF ElectTimeout, HeartbeatTimeout
<1>3. ASSUME NEW i \in Node, CandidateTimeout(i)  PROVE RaftInv'
  BY <1>3, CandidateTimeoutKeeps
<1>4. ASSUME NEW i \in Node, BroadcastHeartbeat(i)  PROVE RaftInv'
  BY <1>4, BroadcastHeartbeatKeeps
<1>5. ASSUME NEW i \in Node, SealBlock(i)  PROVE RaftInv'
  BY <1>5 DEF SealBlock, RaftInv, TermsTyped, TermOrder, AllOK
<1>6. ASSUME NEW i \in Node, Restart(i)  PROVE RaftInv'
  BY <1>6 DEF Restart, RaftInv, TermsTyped, TermOrder, AllOK, Role
<1>7. ASSUME NEW i \in Node, NEW j \in Node, ReportBlock(i, j)  PROVE RaftInv'
  BY <1>7 DEF ReportBlock, RaftInv, TermsTyped, TermOrder, AllOK
<1>8. ASSUME NEW m \in msgs, HandleVoteRequest(m.to, m)  PROVE RaftInv'
  BY <1>8, HandleVoteRequestKeeps
<1>9. ASSUME NEW m \in msgs, HandleVoteResponse(m.to, m)  PROVE RaftInv'
  BY <1>9, HandleVoteResponseKeeps
<1>10. ASSUME NEW m \in msgs, HandleHeartbeat(m.to, m)  PROVE RaftInv'
  BY <1>10, HandleHeartbeatKeeps
<1>11. ASSUME NEW m \in msgs, HandleHeartbeatResp(m.to, m)  PROVE RaftInv'
  BY <1>11, HandleHeartbeatRespKeeps
<1> QED BY <1>1, <1>2, <1>3, <1>4, <1>5, <1>6, <1>7, <1>8, <1>9, <1>10, <1>11 DEF Next

-----------------------------------------------------------------------------
(* Theorems *)

LEMMA RaftInvariant == Spec => []RaftInv
<1>1. Init => RaftInv
  BY DEF Init, RaftInv, TermsTyped, TermOrder, AllOK, Role
<1> QED BY <1>1, RaftStep, PTL DEF Spec

\* On every set of nodes, through every election, heartbeat, lost message and restart of
\* RaftEngine, the last leader's term of a node is at most its own term, equal to it for
\* a leader and below it for a candidate.
THEOREM TermsOrdered == Spec => []TermOrder
<1>1. RaftInv => TermOrder
  BY DEF RaftInv
<1> QED BY <1>1, RaftInvariant, PTL

\* handleVoteRequest of a leader answers every vote request of a term not above its own
\* with LASTTERM_ERROR, so that no old request deposes a leader.
THEOREM LeaderKeepsOffice == Spec => []OldVoteReqRefused
<1>1. ASSUME RaftInv PROVE OldVoteReqRefused
  <2> SUFFICES ASSUME NEW m \in msgs, m.type = "VoteReq", state[m.to] = "leader",
                      m.term <= term[m.to]
               PROVE  VoteFlag(m.to, m) = "LASTTERM_ERROR"
    BY DEF OldVoteReqRefused
  <2>1. /\ m.to \in Node /\ m.term \in Nat
        /\ m.lastLeaderTerm \in Nat /\ m.lastLeaderTerm < m.term
    BY <1>1 DEF RaftInv, AllOK, MessageOK
  <2>2. lastLeaderTerm[m.to] = term[m.to] /\ term[m.to] \in Nat
    BY <1>1, <2>1 DEF RaftInv, TermsTyped, TermOrder
  <2> QED BY <2>1, <2>2 DEF VoteFlag
<1> QED BY <1>1, RaftInvariant, PTL
=============================================================================
