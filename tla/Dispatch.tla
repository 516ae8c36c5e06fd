------------------------------ MODULE Dispatch ------------------------------
(***************************************************************************)
(* The messages of a node between its sessions and its modules: Service    *)
(* hands a packet to the handler of its protocol id, which carries the     *)
(* group, sends to the nodes of a group, and lets a thread wait for the    *)
(* answer to a message (sendMessageByNodeID, sendMessageByTopic).  The     *)
(* handlers and the callbacks are tasks of the thread pool of the host.    *)
(* A session calls the callback of a message as module Session says.       *)
(***************************************************************************)
EXTENDS Integers, Sequences

CONSTANTS
    Peer,
    Group,         \* group ids
    Module,        \* module ids
    ModuleBits,    \* the width of MODULE_ID
    GroupBits,     \* the width of GROUP_ID
    NodeLists,     \* the node lists a group may be given
    Topics,        \* the sets of nodes that follow the topic of a message
    Worker,        \* the threads of the pool
    MaxPackets     \* bound: packets received

VARIABLES
    actived,       \* the peers with a live session
    nodeList,      \* m_groupID2NodeList
    registered,    \* the keys of m_protocolID2Handler
    tasks,         \* the queue of the thread pool
    busy,          \* the task of each worker, if it has one
    caller,        \* the thread that waits for an answer
    packets,       \* history: the packets received
    handled,       \* history: [handler, packet] for each call of a handler
    sent           \* history: [group, to] of the last message to a group

vars == <<actived, nodeList, registered, tasks, busy, caller, packets, handled, sent>>

\* pc: idle -> waiting -> answered -> done.  pending: the callback that the session with
\* node has (none, asked, or already a task of the pool), rest: the other nodes of the topic.
Caller(pc, node, rest, pending) == [pc |-> pc, node |-> node, rest |-> rest, pending |-> pending]
Idle == Caller("idle", "nobody", {}, "none")

Init ==
    /\ actived \in SUBSET Peer
    /\ nodeList = [g \in Group |-> {}]
    /\ registered = {}
    /\ tasks = <<>> /\ busy = [w \in Worker |-> {}]
    /\ caller = Idle
    /\ packets = <<>> /\ handled = {} /\ sent = {}

getGroupProtoclID(g, m) == IF g < 0 THEN 0 ELSE g * 2^ModuleBits + m

getGroupAndProtocol(id) ==
    [group |-> (id \div 2^ModuleBits) % 2^GroupBits, module |-> id % 2^ModuleBits]

ProtocolID == {getGroupProtoclID(g, m) : g \in Group, m \in Module}

setNodeListByGroupID(g, nodes) ==
    /\ nodeList[g] # nodes
    /\ nodeList' = [nodeList EXCEPT ![g] = nodes]
    /\ UNCHANGED <<actived, registered, tasks, busy, caller, packets, handled, sent>>

registerHandlerByProtoclID(id) ==
    /\ id \notin registered
    /\ registered' = registered \cup {id}
    /\ UNCHANGED <<actived, nodeList, tasks, busy, caller, packets, handled, sent>>

-----------------------------------------------------------------------------
(* Sending *)

\* The sessions with a node of the protocol's group.
sessionInfosByProtocolID(id) ==
    LET g == getGroupAndProtocol(id).group
    IN  IF g \in Group THEN actived \cap nodeList[g] ELSE {}

\* The modules of group g send to the sessions that sessionInfosByProtocolID gives.
Multicast(g, m) ==
    LET to == sessionInfosByProtocolID(getGroupProtoclID(g, m))
    IN  /\ sent' = {[group |-> g, to |-> p, member |-> p \in nodeList[g]] : p \in to}
        /\ UNCHANGED <<actived, nodeList, registered, tasks, busy, caller, packets, handled>>

Answer(error) == [kind |-> "answer", error |-> error]

\* asyncSendMessageByNodeID: without a live session the pool calls the callback.
SendTo(p, rest, queue) ==
    /\ caller' = Caller(IF caller.pc = "idle" THEN "waiting" ELSE caller.pc, p, rest,
                        IF p \in actived THEN "asked" ELSE "none")
    /\ tasks' = IF p \in actived THEN queue ELSE Append(queue, Answer(TRUE))

\* A thread sends a message and locks the mutex that the callback unlocks.
sendMessageByNodeID(p) ==
    /\ caller = Idle
    /\ SendTo(p, {}, tasks)
    /\ UNCHANGED <<actived, nodeList, registered, busy, packets, handled, sent>>

sendMessageByTopic(nodes) ==
    /\ caller = Idle
    /\ IF nodes = {}
       THEN caller' = Caller("waiting", "nobody", {}, "none") /\ tasks' = Append(tasks, Answer(TRUE))
       ELSE \E p \in nodes : SendTo(p, nodes \ {p}, tasks)
    /\ UNCHANGED <<actived, nodeList, registered, busy, packets, handled, sent>>

\* The thread got the mutex.
Return ==
    /\ caller.pc = "answered"
    /\ caller' = [caller EXCEPT !.pc = "done"]
    /\ UNCHANGED <<actived, nodeList, registered, tasks, busy, packets, handled, sent>>

-----------------------------------------------------------------------------
(* The sessions *)

\* A packet that is no answer to a message of this node.
Receive(p, id) ==
    /\ p \in actived /\ Len(packets) < MaxPackets
    /\ packets' = Append(packets, id)
    /\ tasks' = Append(tasks, [kind |-> "onMessage", packet |-> Len(packets) + 1])
    /\ UNCHANGED <<actived, nodeList, registered, busy, caller, handled, sent>>

\* The answer to the message of the caller; the session has the callback until the
\* worker has called it.
PeerAnswers ==
    /\ caller.pending = "asked"
    /\ tasks' = Append(tasks, Answer(FALSE))
    /\ caller' = [caller EXCEPT !.pending = "task"]
    /\ UNCHANGED <<actived, nodeList, registered, busy, packets, handled, sent>>

\* Session::drop calls the callbacks of the session, one that is already a task too.
Drop(p) ==
    LET called == caller.pending # "none" /\ caller.node = p
    IN  /\ p \in actived
        /\ actived' = actived \ {p}
        /\ tasks' = IF called THEN Append(tasks, Answer(TRUE)) ELSE tasks
        /\ caller' = IF called THEN [caller EXCEPT !.pending = "none"] ELSE caller
        /\ UNCHANGED <<nodeList, registered, busy, packets, handled, sent>>

-----------------------------------------------------------------------------
(* The thread pool *)

Take(w) ==
    /\ busy[w] = {} /\ tasks # <<>>
    /\ busy' = [busy EXCEPT ![w] = {Head(tasks)}]
    /\ tasks' = Tail(tasks)
    /\ UNCHANGED <<actived, nodeList, registered, caller, packets, handled, sent>>

Task(w, kind) == \E t \in busy[w] : t.kind = kind
Current(w) == CHOOSE t \in busy[w] : TRUE
Done(w) == busy' = [busy EXCEPT ![w] = {}]

\* Service::onMessage: a request whose protocol has a handler is another task.  The
\* id of a response is negative.
onMessage(w) ==
    LET id == packets[Current(w).packet]
    IN  /\ Task(w, "onMessage")
        /\ Done(w)
        /\ tasks' = IF id > 0 /\ id \in registered
                    THEN Append(tasks, [kind |-> "callback", packet |-> Current(w).packet,
                                        handler |-> id])
                    ELSE tasks
        /\ UNCHANGED <<actived, nodeList, registered, caller, packets, handled, sent>>

Callback(w) ==
    /\ Task(w, "callback")
    /\ Done(w)
    /\ handled' = handled \cup {[handler |-> Current(w).handler, packet |-> Current(w).packet]}
    /\ UNCHANGED <<actived, nodeList, registered, tasks, caller, packets, sent>>

\* The second call of a callback finds the caller past the mutex.
Unlock ==
    caller' = [caller EXCEPT !.pc = IF @ = "waiting" THEN "answered" ELSE @, !.pending = "none"]

\* TopicStatus::onResponse tries the next node after an error; otherwise
\* SessionCallback::onResponse unlocks the mutex of the caller.
onResponse(w) ==
    /\ Task(w, "answer")
    /\ Done(w)
    /\ IF Current(w).error /\ caller.rest # {}
       THEN \E p \in caller.rest : SendTo(p, caller.rest \ {p}, tasks)
       ELSE Unlock /\ UNCHANGED tasks
    /\ UNCHANGED <<actived, nodeList, registered, packets, handled, sent>>

Work(w) == Take(w) \/ onMessage(w) \/ Callback(w) \/ onResponse(w)

Next ==
    \/ \E g \in Group, nodes \in NodeLists : setNodeListByGroupID(g, nodes)
    \/ \E id \in ProtocolID : registerHandlerByProtoclID(id)
    \/ \E g \in Group, m \in Module : Multicast(g, m)
    \/ \E p \in Peer : sendMessageByNodeID(p) \/ Drop(p)
    \/ \E nodes \in Topics : sendMessageByTopic(nodes)
    \/ \E p \in Peer, id \in ProtocolID : Receive(p, id) \/ Receive(p, -id)
    \/ Return \/ PeerAnswers
    \/ \E w \in Worker : Work(w)

Spec == Init /\ [][Next]_vars

\* The workers and the waiting thread run.  The peer need not answer.
FairSpec ==
    /\ Spec
    /\ \A w \in Worker : WF_vars(Work(w))
    /\ WF_vars(Return)

-----------------------------------------------------------------------------
(* Properties *)

\* A packet is handled by the handler of its group and module only, and no
\* response is handled as a request.
HandledByItsModule == \A h \in handled : packets[h.packet] = h.handler

\* What a group sends goes to nodes of the group: the group that
\* sessionInfosByProtocolID takes from the protocol id is the sender's.
StaysInGroup == \A m \in sent : m.member

\* The message has gone out on a session that lives, and there is no answer yet: these
\* requests have no timeout (Options()).
Unanswered == caller.pending = "asked" /\ caller.node \in actived

Returned == caller.pc # "waiting" \/ Unanswered

\* Whatever sessions end meanwhile, a thread that waits in sendMessageByNodeID or
\* sendMessageByTopic returns, unless a live peer keeps silent for ever.
CallerReturns == []<>Returned
=============================================================================
