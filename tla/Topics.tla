------------------------------- MODULE Topics -------------------------------
\* AMOP, the messages of clients to topics: how a node learns the topics of a
\* peer, how a message is sent to a node that follows its topic, and how it is
\* pushed to a client there.
EXTENDS Naturals, FiniteSets, Sequences

(***************************************************************************)
(* How a node learns the topics of a peer (P2PSession::heartBeat and       *)
(* onTopicMessage, Service::setTopics).  The peer sends its topic seq with *)
(* every heartbeat; a seq that differs from the one known makes the node   *)
(* ask for the topics.  Messages are handled by a pool: in any order.      *)
(***************************************************************************)
CONSTANTS Topic,
          MaxSeq     \* bound on the changes of the topics of the peer

VARIABLES topics, topicSeq,      \* Service::m_topics and m_topicSeq of the peer
          setter,                \* the peer is between the two assignments of setTopics
          viewTopics, viewSeq,   \* m_topics and m_topicSeq of the P2PSession with the peer
          seqMsg,                \* SendTopicSeq messages under way
          asked,                 \* a RequestTopics is under way
          reading,               \* the seq that the answering thread of the peer has read
          answer                 \* the answers under way

viewVars == <<topics, topicSeq, setter, viewTopics, viewSeq, seqMsg, asked, reading, answer>>
view == <<viewTopics, viewSeq>>

NoSeq == MaxSeq + 1

ViewInit ==
    /\ topics = {} /\ topicSeq = 0 /\ setter = FALSE
    /\ viewTopics = {} /\ viewSeq = 0
    /\ seqMsg = {} /\ asked = FALSE /\ reading = NoSeq /\ answer = {}

\* Service::setTopics: the topics, then the seq.  "RecursiveMutex(x_topics);" declares a
\* mutex and locks nothing; the callers are serialised by _sessionMutex.
SetTopics ==
    /\ topicSeq < MaxSeq /\ ~setter
    /\ \E ts \in SUBSET Topic : topics' = ts
    /\ setter' = TRUE
    /\ UNCHANGED <<topicSeq, view, seqMsg, asked, reading, answer>>

IncreaseTopicSeq ==
    /\ setter
    /\ topicSeq' = topicSeq + 1 /\ setter' = FALSE
    /\ UNCHANGED <<topics, view, seqMsg, asked, reading, answer>>

HeartBeat ==
    /\ seqMsg' = seqMsg \cup {topicSeq}
    /\ UNCHANGED <<topics, topicSeq, setter, view, asked, reading, answer>>

OnTopicSeq ==
    /\ \E s \in seqMsg : seqMsg' = seqMsg \ {s} /\ asked' = (asked \/ s # viewSeq)
    /\ UNCHANGED <<topics, topicSeq, setter, view, reading, answer>>

\* RequestTopics at the peer: the seq is read first, then the topics.
OnRequestTopics ==
    /\ asked /\ reading = NoSeq
    /\ asked' = FALSE /\ reading' = topicSeq
    /\ UNCHANGED <<topics, topicSeq, setter, view, seqMsg, answer>>

SendTopics ==
    /\ reading # NoSeq
    /\ answer' = answer \cup {[seq |-> reading, topics |-> topics]}
    /\ reading' = NoSeq
    /\ UNCHANGED <<topics, topicSeq, setter, view, seqMsg, asked>>

\* The callback of RequestTopics, or its timeout.
OnTopics ==
    /\ \E a \in answer :
          /\ answer' = answer \ {a}
          /\ viewSeq' = a.seq /\ viewTopics' = a.topics
    /\ UNCHANGED <<topics, topicSeq, setter, seqMsg, asked, reading>>

LoseTopics ==
    /\ \E a \in answer : answer' = answer \ {a}
    /\ UNCHANGED <<topics, topicSeq, setter, view, seqMsg, asked, reading>>

ViewNext ==
    \/ SetTopics \/ IncreaseTopicSeq \/ HeartBeat \/ OnTopicSeq \/ OnRequestTopics
    \/ SendTopics \/ OnTopics \/ LoseTopics

\* Timers and threads make progress.
ViewFairness ==
    /\ WF_viewVars(IncreaseTopicSeq) /\ WF_viewVars(HeartBeat)
    /\ WF_viewVars(OnTopicSeq) /\ WF_viewVars(OnRequestTopics) /\ WF_viewVars(SendTopics)

ViewSpec == ViewInit /\ [][ViewNext]_viewVars
ViewFairSpec == ViewSpec /\ ViewFairness

\* What a session believes of its peer is right when the seqs agree: setTopics changes
\* the topics before the seq and the answer reads them the other way round, so that no
\* interleaving leaves old topics under the current seq.
ViewFresh == (viewSeq = topicSeq /\ ~setter) => viewTopics = topics

Settled == topicSeq = MaxSeq
Learnt == viewTopics = topics

\* When the topics of the peer no longer change, the session with it learns them for good,
\* although answers may be lost and may overtake each other, provided that answers that are
\* sent again and again arrive from time to time.
ViewCatchesUp == SF_viewVars(OnTopics) /\ <>[]Settled => <>[]Learnt

-----------------------------------------------------------------------------
(***************************************************************************)
(* A message of a client to a topic (ChannelRPCServer::                    *)
(* onClientChannelRequest, Service::asyncSendMessageByTopic): it is sent   *)
(* to one of the nodes that follow the topic and, when that fails, to      *)
(* another one.  A session calls the callback of a message as module       *)
(* Session says: at least once, and again when it is dropped before the    *)
(* first call has removed the handler.                                     *)
(***************************************************************************)
CONSTANT Peer

VARIABLES actived,            \* the peers with a live session
          nodeIDs,            \* TopicStatus::m_nodeIDs
          sent,               \* the peers the message was sent to
          handler,            \* the peers whose session has a handler for the message
          pool,               \* tasks: [node, error]
          replies             \* the results given to the client

sendVars == <<actived, nodeIDs, sent, handler, pool, replies>>

Failure(p) == [node |-> p, error |-> TRUE]
Success(p) == [node |-> p, error |-> FALSE]
NotFound == Failure("nobody")

SendInit ==
    /\ actived \in SUBSET Peer
    /\ nodeIDs = {} /\ sent = {} /\ handler = {} /\ pool = {} /\ replies = {}

\* asyncSendMessageByNodeID: without a session the callback is called by the pool.
SendTo(p, nodes, handlers, tasks) ==
    /\ nodeIDs' = nodes \ {p}
    /\ sent' = sent \cup {p}
    /\ handler' = IF p \in actived THEN handlers \cup {p} ELSE handlers
    /\ pool' = IF p \in actived THEN tasks ELSE tasks \cup {Failure(p)}

\* Without nodes the pool tells the client; else TopicStatus picks the first node.
AsyncSendMessageByTopic(nodes) ==
    \/ nodes = {} /\ pool' = {NotFound} /\ UNCHANGED <<nodeIDs, sent, handler>>
    \/ \E p \in nodes : SendTo(p, nodes, {}, {})

\* getPeersByTopic gives some of the nodes.
OnClientChannelRequest ==
    /\ sent = {} /\ pool = {} /\ replies = {}
    /\ \E nodes \in SUBSET Peer : AsyncSendMessageByTopic(nodes)
    /\ UNCHANGED <<actived, replies>>

\* The peer answers, or the timeout of 30 seconds ends: a task that will remove the handler.
Settle(p) ==
    /\ p \in handler /\ pool \cap {Failure(p), Success(p)} = {}
    /\ \E k \in {Failure(p), Success(p)} : pool' = pool \cup {k}
    /\ UNCHANGED <<actived, nodeIDs, sent, handler, replies>>

\* Session::drop calls every handler it finds.
Drop(p) ==
    /\ p \in actived
    /\ actived' = actived \ {p}
    /\ pool' = IF p \in handler THEN pool \cup {Failure(p)} ELSE pool
    /\ handler' = handler \ {p}
    /\ UNCHANGED <<nodeIDs, sent, replies>>

Connect(p) ==
    /\ p \notin actived
    /\ actived' = actived \cup {p}
    /\ UNCHANGED <<nodeIDs, sent, handler, pool, replies>>

\* TopicStatus::onResponse: the next node, or the result for the client.
OnResponse(k) ==
    /\ k \in pool
    /\ IF ~k.error \/ nodeIDs = {}
       THEN /\ replies' = replies \cup {k.error}
            /\ pool' = pool \ {k} /\ handler' = handler \ {k.node}
            /\ UNCHANGED <<nodeIDs, sent>>
       ELSE /\ \E p \in nodeIDs : SendTo(p, nodeIDs, handler \ {k.node}, pool \ {k})
            /\ UNCHANGED replies
    /\ UNCHANGED actived

SendNext ==
    \/ OnClientChannelRequest
    \/ \E p \in Peer : Settle(p) \/ Drop(p) \/ Connect(p)
    \/ \E k \in pool : OnResponse(k)

Callback == {Failure(p) : p \in Peer} \cup {Success(p) : p \in Peer} \cup {NotFound}

\* Timers and the pool make progress.
SendFairness ==
    /\ \A p \in Peer : WF_sendVars(Settle(p))
    /\ \A k \in Callback : WF_sendVars(OnResponse(k))

SendSpec == SendInit /\ [][SendNext]_sendVars
SendFairSpec == SendSpec /\ SendFairness

Answered == (sent = {} /\ pool = {}) \/ replies # {}

\* The client gets a reply to its message, whatever becomes of the nodes and of the
\* sessions with them, even when a callback is called twice.
ClientAnswered == []<>Answered

-----------------------------------------------------------------------------
(***************************************************************************)
(* ChannelRPCServer::asyncPushChannelMessage: a message from another node  *)
(* is pushed to one of the SDK sessions that follow its topic; a session   *)
(* that fails is excluded and another one is tried.  The session that was  *)
(* tried is noted in _currentSession only after asyncSendMessage has       *)
(* returned, and asyncSendMessage may have called onResponse by then: at   *)
(* once for an inactive session, or from the pool.                         *)
(***************************************************************************)
CONSTANT Sdk    \* the sessions that follow the topic

VARIABLES live,   \* sessions with _actived
          status,    \* of the push: new, waiting, answered (callback called), silent
          picked,    \* the session asyncSendMessage is called with, or NoSdk
          passed,    \* asyncSendMessage has found it active
          pending,   \* the calls of sendMessage still to assign _currentSession
          current,   \* _currentSession
          exclude,   \* _exclude
          onResult,   \* sessions with an entry in _responseCallbacks
          failed,    \* sessions whose callback is being called with an error
          tries      \* how often the message was given to a session

pushVars == <<live, status, picked, passed, pending, current, exclude, onResult, failed, tries>>

NoSdk == "none"

PushInit ==
    /\ live \in SUBSET Sdk
    /\ status = "new" /\ picked = NoSdk /\ passed = FALSE
    /\ pending = <<>> /\ current = NoSdk
    /\ exclude = {} /\ onResult = {} /\ failed = {}
    /\ tries = [s \in Sdk |-> 0]

\* Callback::sendMessage up to the call of asyncSendMessage.  Without a session it throws:
\* the first call is then only logged, a later one reaches _callback.
SendMessage(excluded, first) ==
    /\ exclude' = excluded
    /\ IF live \ excluded = {}
       THEN status' = (IF first THEN "silent" ELSE "answered") /\ picked' = NoSdk
       ELSE status' = "waiting" /\ picked' \in live \ excluded
    /\ passed' = FALSE

Push ==
    /\ status = "new"
    /\ SendMessage({}, TRUE)
    /\ UNCHANGED <<live, pending, current, onResult, failed, tries>>

\* onNodeChannelRequest: what cannot be decoded, is empty or is no request is dropped; a
\* request is pushed, and the callback of the push answers the node that has sent it.
OnNodeChannelRequest ==
    \/ Push
    \/ /\ status = "new"
       /\ status' = "silent"
       /\ UNCHANGED <<live, picked, passed, pending, current, exclude, onResult, failed, tries>>

\* asyncSendMessage tests _actived, and calls onResponse at once when it is false.
TestActived ==
    /\ picked # NoSdk /\ ~passed
    /\ IF picked \in live
       THEN passed' = TRUE /\ UNCHANGED <<status, picked, pending, exclude>>
       ELSE /\ pending' = <<picked>> \o pending
            /\ SendMessage(exclude \cup {current}, FALSE)
    /\ UNCHANGED <<live, current, onResult, failed, tries>>

\* The handler is inserted and the message written.
Insert ==
    /\ picked # NoSdk /\ passed
    /\ onResult' = onResult \cup {picked}
    /\ tries' = [tries EXCEPT ![picked] = @ + 1]
    /\ pending' = <<picked>> \o pending
    /\ picked' = NoSdk /\ passed' = FALSE
    /\ UNCHANGED <<live, status, current, exclude, failed>>

\* The calls of sendMessage return, the innermost one first.
NoteCurrent ==
    /\ picked = NoSdk /\ pending # <<>>
    /\ current' = Head(pending) /\ pending' = Tail(pending)
    /\ UNCHANGED <<live, status, picked, passed, exclude, onResult, failed, tries>>

\* The SDK answers: onMessage, then the callback.
Answer(s) ==
    /\ s \in onResult \cap live
    /\ onResult' = onResult \ {s}
    /\ status' = "answered"
    /\ UNCHANGED <<live, picked, passed, pending, current, exclude, failed, tries>>

\* onTimeout does nothing in an inactive session.  Five seconds are enough for the calls
\* of sendMessage to return.
Timeout(s) ==
    /\ s \in onResult \cap live /\ pending = <<>> /\ picked = NoSdk
    /\ onResult' = onResult \ {s} /\ failed' = failed \cup {s}
    /\ UNCHANGED <<live, status, picked, passed, pending, current, exclude, tries>>

Disconnect(s) ==
    /\ s \in live
    /\ live' = live \ {s}
    /\ failed' = IF s \in onResult THEN failed \cup {s} ELSE failed
    /\ onResult' = onResult \ {s}
    /\ UNCHANGED <<status, picked, passed, pending, current, exclude, tries>>

\* onResponse with an error, in a thread of the pool or of the io_service.
OnError(s) ==
    /\ s \in failed /\ picked = NoSdk
    /\ failed' = failed \ {s}
    /\ SendMessage(exclude \cup {current}, FALSE)
    /\ UNCHANGED <<live, pending, current, onResult, tries>>

PushNext ==
    \/ OnNodeChannelRequest \/ TestActived \/ Insert \/ NoteCurrent
    \/ \E s \in Sdk : Answer(s) \/ Timeout(s) \/ Disconnect(s) \/ OnError(s)

PushSpec == PushInit /\ [][PushNext]_pushVars

\* The retries end: however late _currentSession is assigned and whichever session it then
\* names, a session is given the same message at most once for itself and once more for
\* every other session that was found inactive.
RetriesBounded == \A s \in Sdk : tries[s] <= 1 + Cardinality(Sdk \ ({s} \cup live))
=============================================================================
