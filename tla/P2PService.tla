----------------------------- MODULE P2PService -----------------------------
(***************************************************************************)
(* dev::network::Host and dev::p2p::Service: how nodes get and keep one    *)
(* session with each of their static nodes.  heartBeat connects to the     *)
(* static nodes that have no session, Host runs the TCP and TLS handshakes *)
(* of both ends, onConnect keeps the first of several connections to a     *)
(* node, and a session that is lost is removed by a task of the pool.      *)
(*                                                                         *)
(* A connection is a slot of conn; each of its ends goes through           *)
(*   none, backlog (a TCP connection the server has not accepted), tcp     *)
(*   (TLS handshake), queued (onConnect is a task of the pool),            *)
(*   up (P2PSession started), dropped (Session::drop was called),          *)
(*   stopped (P2PSession::stop was called), closed.                        *)
(***************************************************************************)
EXTENDS Naturals, FiniteSets, TLAPS

CONSTANTS Node, Conn,
          Static,       \* Static[n]: the nodes whose endpoints are static nodes of n
          ListenPort,   \* ListenPort[n]
          Crl,          \* Crl[n]: the nodes whose certificates n rejects
          Breaks,       \* when a connection may be lost: subset of {"handshake", "session"}
          MaxTroubles,  \* bound on lost connections and on overlapping attempts
          MayStop       \* nodes whose service may be stopped

VARIABLES run,          \* Service::m_run, Host::m_run
          accepting,    \* an asyncAccept is outstanding
          staticNodes,  \* m_staticNodes: endpoint of a node -> node id, or NoID
          pendingConns, \* m_pendingConns
          tcpClient,    \* m_tcpClient: the endpoint of the last server connected to
          sessions,     \* m_sessions[n][p]: a connection, or NoConn
          conn,         \* conn[c]: [from, to, cli, srv, link]
          troubles

vars == <<run, accepting, staticNodes, pendingConns, tcpClient, sessions, conn, troubles>>

NoID == "noid"
NoConn == 0
NoNode == "nobody"
Free == [from |-> NoNode, to |-> NoNode, cli |-> "none", srv |-> "none", link |-> FALSE]

Init ==
    /\ run = [n \in Node |-> TRUE]
    /\ accepting = [n \in Node |-> TRUE]
    /\ staticNodes = [n \in Node |-> [e \in Static[n] |-> NoID]]
    /\ pendingConns = [n \in Node |-> {}]
    /\ tcpClient = [n \in Node |-> NoNode]
    /\ sessions = [n \in Node |-> [p \in Node |-> NoConn]]
    /\ conn = [c \in Conn |-> Free]
    /\ troubles = 0

End(n, c) == IF conn[c].from = n THEN "cli" ELSE "srv"
Other(c, end) == IF end = "cli" THEN conn[c].srv ELSE conn[c].cli
Node2(c, end) == IF end = "cli" THEN conn[c].from ELSE conn[c].to
PeerOf(c, end) == IF end = "cli" THEN conn[c].to ELSE conn[c].from
Over == {"none", "closed"}

\* A slot is free again when both ends have closed it.
Recycle(r) == IF r.cli = "closed" /\ r.srv \in Over THEN Free ELSE r
SetEnd(c, end, state) == conn' = [conn EXCEPT ![c] = Recycle([@ EXCEPT ![end] = state])]

-----------------------------------------------------------------------------
(* Connecting *)

\* P2PSession::actived, i.e. its m_run: true until P2PSession::stop.
Running(n, c) == c # NoConn /\ conn[c][End(n, c)] \in {"up", "dropped"}
IsConnected(n, p) == Running(n, sessions[n][p])

\* The first test compares the address of the static node with that of the last
\* server this host connected to, and the port with the port this host listens on.
Myself(n, e) == tcpClient[n] = e /\ ListenPort[e] = ListenPort[n]

\* heartBeat for one static node, with asyncConnect.  An attempt that overlaps
\* with another one to the same node is counted as a trouble.
HeartBeat(n, e) ==
    LET overlaps == \E c \in Conn : conn[c].from = n /\ conn[c].to = e IN
    /\ run[n] /\ e \in Static[n]
    /\ ~Myself(n, e)
    /\ staticNodes[n][e] # n
    /\ ~(staticNodes[n][e] # NoID /\ IsConnected(n, staticNodes[n][e]))
    /\ e \notin pendingConns[n]
    /\ overlaps => troubles < MaxTroubles
    /\ \E c \in Conn :
          /\ conn[c] = Free /\ \A d \in Conn : conn[d] = Free => c <= d
          /\ conn' = [conn EXCEPT ![c] = [from |-> n, to |-> e, cli |-> "connecting", srv |-> "none",
                                          link |-> TRUE]]
    /\ troubles' = IF overlaps THEN troubles + 1 ELSE troubles
    /\ UNCHANGED <<run, accepting, staticNodes, pendingConns, tcpClient, sessions>>

\* The kernel of a running server completes the TCP connection before it is accepted.
Connected(c) ==
    /\ conn[c].cli = "connecting" /\ run[conn[c].from]
    /\ IF run[conn[c].to] /\ conn[c].link
       THEN /\ conn' = [conn EXCEPT ![c] = [@ EXCEPT !.cli = "tcp", !.srv = "backlog"]]
            /\ pendingConns' = [pendingConns EXCEPT ![conn[c].from] = @ \cup {conn[c].to}]
            /\ tcpClient' = [tcpClient EXCEPT ![conn[c].from] = conn[c].to]
       ELSE /\ SetEnd(c, "cli", "closed")
            /\ UNCHANGED <<pendingConns, tcpClient>>
    /\ UNCHANGED <<run, accepting, staticNodes, sessions, troubles>>

Accept(c) ==
    /\ conn[c].srv = "backlog"
    /\ run[conn[c].to] /\ accepting[conn[c].to]
    /\ accepting' = [accepting EXCEPT ![conn[c].to] = FALSE]
    /\ conn' = [conn EXCEPT ![c].srv = "tcp"]
    /\ UNCHANGED <<run, staticNodes, pendingConns, tcpClient, sessions, troubles>>

\* newVerifyCallback looks for the node id of the certificate in the list of rejected ones.
Verified(n, p) == p \notin Crl[n]

\* startPeerSession creates the session object and leaves onConnect to the pool.
StartPeerSession(ok) == IF ok THEN "queued" ELSE "closed"

\* handshakeServer: a failed handshake returns before startAccept.
HandshakeServer(c) ==
    LET n == conn[c].to
        ok == conn[c].link /\ conn[c].cli # "closed" /\ Verified(n, conn[c].from) IN
    /\ conn[c].srv = "tcp" /\ run[n]
    /\ SetEnd(c, "srv", StartPeerSession(ok))
    /\ accepting' = [accepting EXCEPT ![n] = ok]
    /\ UNCHANGED <<run, staticNodes, pendingConns, tcpClient, sessions, troubles>>

\* handshakeClient: the last message of the TLS handshake is the server's.
HandshakeClient(c) ==
    LET n == conn[c].from
        ok == conn[c].link /\ conn[c].srv # "closed" /\ Verified(n, conn[c].to) IN
    /\ conn[c].cli = "tcp" /\ run[n]
    /\ ok => conn[c].srv \notin {"backlog", "tcp"}
    /\ SetEnd(c, "cli", StartPeerSession(ok))
    /\ pendingConns' = [pendingConns EXCEPT ![n] = @ \ {conn[c].to}]
    /\ UNCHANGED <<run, accepting, staticNodes, tcpClient, sessions, troubles>>

\* Nobody accepts at e any more: no accept waits, and no handshake goes on whose success
\* would start one.
Deaf(e) ==
    run[e] /\ ~accepting[e] /\ \A c \in Conn : ~(conn[c].to = e /\ conn[c].srv = "tcp")

\* The connect timer closes the socket, and handshakeClient will have an error.  Where
\* the server is about to answer this is counted as a trouble.
ConnectTimeout(c) ==
    LET n == conn[c].from
        due == Deaf(conn[c].to) IN
    /\ conn[c].cli = "tcp" /\ conn[c].link /\ run[n]
    /\ due \/ troubles < MaxTroubles
    /\ conn' = [conn EXCEPT ![c].link = FALSE]
    /\ pendingConns' = [pendingConns EXCEPT ![n] = @ \ {conn[c].to}]
    /\ troubles' = IF due THEN troubles ELSE troubles + 1
    /\ UNCHANGED <<run, accepting, staticNodes, tcpClient, sessions>>

\* updateStaticNodes finds an endpoint only at the end that has connected.
UpdatedStatic(c, end, id) ==
    IF end = "cli" THEN [staticNodes EXCEPT ![conn[c].from][conn[c].to] = id] ELSE staticNodes

\* onConnect, in the pool, under x_sessions: the session that is there wins.
OnConnect(c, end) ==
    LET n == Node2(c, end)  p == PeerOf(c, end) IN
    /\ conn[c][end] = "queued" /\ run[n]
    /\ staticNodes' = UpdatedStatic(c, end, p)
    /\ IF IsConnected(n, p) \/ p = n
       THEN SetEnd(c, end, "closed") /\ UNCHANGED sessions
       ELSE /\ SetEnd(c, end, "up")
            /\ sessions' = [sessions EXCEPT ![n][p] = c]
    /\ UNCHANGED <<run, accepting, pendingConns, tcpClient, troubles>>

-----------------------------------------------------------------------------
(* Losing a session *)

\* A read fails when the link is lost or the peer has closed: Session::drop.
ReadError(c, end) ==
    /\ conn[c][end] = "up" /\ run[Node2(c, end)]
    /\ ~conn[c].link \/ Other(c, end) = "closed"
    /\ SetEnd(c, end, "dropped")
    /\ UNCHANGED <<run, accepting, staticNodes, pendingConns, tcpClient, sessions, troubles>>

\* onMessage with an error, in the pool: first P2PSession::stop ...
StopSession(c, end) ==
    /\ conn[c][end] = "dropped" /\ run[Node2(c, end)]
    /\ SetEnd(c, end, "stopped")
    /\ UNCHANGED <<run, accepting, staticNodes, pendingConns, tcpClient, sessions, troubles>>

\* ... then onDisconnect, which erases the entry only when it is this session's.  The
\* node ids of the static nodes stay: the loop of onDisconnect changes copies.
OnDisconnect_Any(c, end) ==
    LET n == Node2(c, end)  p == PeerOf(c, end) IN
    /\ conn[c][end] = "stopped" /\ run[n]
    /\ sessions' = [sessions EXCEPT ![n][p] = NoConn]
    /\ SetEnd(c, end, "closed")
    /\ UNCHANGED <<run, accepting, staticNodes, pendingConns, tcpClient, troubles>>

OnDisconnect(c, end) ==
    LET n == Node2(c, end)  p == PeerOf(c, end) IN
    /\ conn[c][end] = "stopped" /\ run[n]
    /\ sessions' = [sessions EXCEPT ![n][p] = IF @ = c THEN NoConn ELSE @]
    /\ SetEnd(c, end, "closed")
    /\ UNCHANGED <<run, accepting, staticNodes, pendingConns, tcpClient, troubles>>

\* The network loses a connection.
Break(c) ==
    /\ troubles < MaxTroubles /\ conn[c].link
    /\ \/ "session" \in Breaks /\ {conn[c].cli, conn[c].srv} = {"up"}
       \/ "handshake" \in Breaks /\ conn[c].cli = "tcp"
    /\ conn' = [conn EXCEPT ![c].link = FALSE]
    /\ troubles' = troubles + 1
    /\ UNCHANGED <<run, accepting, staticNodes, pendingConns, tcpClient, sessions>>

\* Service::stop: the io_service and the pool end, then every session is stopped.
CloseAll(n, c) ==
    Recycle([conn[c] EXCEPT !.cli = IF conn[c].from = n THEN "closed" ELSE @,
                            !.srv = IF conn[c].to = n /\ @ # "none" THEN "closed" ELSE @,
                            !.link = @ /\ n \notin {conn[c].from, conn[c].to}])

Stop(n) ==
    /\ n \in MayStop /\ run[n]
    /\ run' = [run EXCEPT ![n] = FALSE]
    /\ accepting' = [accepting EXCEPT ![n] = FALSE]
    /\ pendingConns' = [pendingConns EXCEPT ![n] = {}]
    /\ sessions' = [sessions EXCEPT ![n] = [p \in Node |-> NoConn]]
    /\ conn' = [c \in Conn |-> CloseAll(n, c)]
    /\ UNCHANGED <<staticNodes, tcpClient, troubles>>

ConnStep(c) ==
    \/ Connected(c) \/ Accept(c) \/ HandshakeServer(c) \/ HandshakeClient(c)
    \/ \E end \in {"cli", "srv"} :
          OnConnect(c, end) \/ ReadError(c, end) \/ StopSession(c, end) \/ OnDisconnect(c, end)

Next ==
    \/ \E n \in Node, e \in Node : HeartBeat(n, e)
    \/ \E c \in Conn : ConnStep(c) \/ ConnectTimeout(c) \/ Break(c)
    \/ \E n \in Node : Stop(n)

\* Timers, the io_service and the pool make progress.
Fairness == /\ \A n \in Node, e \in Node : WF_vars(HeartBeat(n, e))
            /\ \A c \in Conn : WF_vars(ConnStep(c))

Spec == Init /\ [][Next]_vars
FairSpec == Spec /\ Fairness

-----------------------------------------------------------------------------
(* Properties *)

\* No session is lost from sight: a P2PSession that was started and not stopped is
\* the one m_sessions has for its node, however connections to the node overlap.
NoOrphanSession ==
    \A c \in Conn, end \in {"cli", "srv"} :
        conn[c][end] \in {"up", "dropped"} => sessions[Node2(c, end)][PeerOf(c, end)] = c

Linked(n, e) == IsConnected(n, e) \/ ~run[n] \/ ~run[e]

\* "reconnect all nodes recorded in m_staticNodes periodically" (Host.cpp): a running
\* node has again and again a session with each running static node.  The code does not
\* keep it: a failed handshake leaves the server deaf, and heartBeat takes a static node
\* with the listen port of this host for this host once it has connected to it.
Reconnects == \A n \in Node : \A e \in Static[n] \ {n} : []<>Linked(n, e)

\* A running node has again and again a session with its running static node e, unless e
\* is deaf after a failed handshake or heartBeat takes e for this node.
Heals(n, e) == Linked(n, e) \/ Deaf(e) \/ Myself(n, e)

-----------------------------------------------------------------------------
(***************************************************************************)
(* Proof that Service loses no session from sight, for every set of nodes  *)
(* and of static nodes and however many connections overlap.               *)
(***************************************************************************)
Ends == {"cli", "srv"}
LiveState == {"up", "dropped"}
NodeOf(r, end) == IF end = "cli" THEN r.from ELSE r.to
FarOf(r, end) == IF end = "cli" THEN r.to ELSE r.from

\* r has the fields of a connection.
IsConn(r) ==
    \E from, to, cli, srv, link :
        r = [from |-> from, to |-> to, cli |-> cli, srv |-> srv, link |-> link]

\* A connection that somebody uses is one of two nodes.
InUse(r) == r.from \in Node /\ r.to \in Node
Placed(r) == InUse(r) \/ (r.cli = "none" /\ r.srv = "none")

\* A P2PSession that was started and not stopped is that of two nodes, and m_sessions of
\* its node, s, has it.
Held(r, c, s) ==
    \A end \in Ends : r[end] \in LiveState =>
        r.from # r.to /\ s[NodeOf(r, end)][FarOf(r, end)] = c

(* NoOrphanSession is not inductive: onConnect overwrites an entry whose      *)
(* session is not running, and finds out whether it runs at the end of the    *)
(* connection that is its own.  This is the end of the entry only because no  *)
(* node holds a session with itself.                                          *)
SessionInv ==
    /\ sessions \in [Node -> [Node -> Conn \cup {NoConn}]]
    /\ conn = [c \in Conn |-> conn[c]]
    /\ \A c \in Conn : IsConn(conn[c]) /\ Placed(conn[c]) /\ Held(conn[c], c, sessions)

\* q is r with some of its ends gone on, and no other session than those of r.
Shrinks(q, r) ==
    /\ IsConn(q) /\ Placed(q)
    /\ \A end \in Ends : q[end] \in LiveState =>
          r[end] \in LiveState /\ q.from = r.from /\ q.to = r.to

LEMMA ConnOf ==
  ASSUME NEW from, NEW to, NEW cli, NEW srv, NEW link
  PROVE  IsConn([from |-> from, to |-> to, cli |-> cli, srv |-> srv, link |-> link])
BY Zenon DEF IsConn

LEMMA FreeIsOver ==
  /\ IsConn(Free) /\ Placed(Free) /\ \A end \in Ends : Free[end] \notin LiveState
<1>1. IsConn(Free)
  BY ConnOf, Zenon DEF Free
<1>2. Free.cli = "none" /\ Free.srv = "none"
  BY DEF Free
<1> QED BY <1>1, <1>2 DEF Placed, Ends, LiveState

LEMMA ShrunkIsHeld ==
  ASSUME NEW r, NEW q, NEW c, NEW s, Held(r, c, s), Shrinks(q, r)
  PROVE  Held(q, c, s)
BY DEF Held, Shrinks, NodeOf, FarOf

LEMMA ShrinkKeeps ==
  ASSUME SessionInv, NEW c \in Conn, NEW q, Shrinks(q, conn[c]),
         conn' = [conn EXCEPT ![c] = q], UNCHANGED sessions
  PROVE  SessionInv'
<1>1. conn' = [d \in Conn |-> IF d = c THEN q ELSE conn[d]]
  BY DEF SessionInv
<1>2. Held(q, c, sessions)
  BY ShrunkIsHeld DEF SessionInv
<1>3. ASSUME NEW d \in Conn
      PROVE  IsConn(conn'[d]) /\ Placed(conn'[d]) /\ Held(conn'[d], d, sessions)
  <2>1. CASE d = c
    <3>1. conn'[d] = q
      BY <1>1, <2>1
    <3> QED BY <1>2, <2>1, <3>1 DEF Shrinks
  <2>2. CASE d # c
    <3>1. conn'[d] = conn[d]
      BY <1>1, <2>2
    <3> QED BY <3>1 DEF SessionInv
  <2> QED BY <2>1, <2>2
<1>4. conn' = [d \in Conn |-> conn'[d]]
  BY <1>1, Zenon
<1> QED BY <1>3, <1>4 DEF SessionInv

LEMMA WithEnd ==
  ASSUME NEW r, IsConn(r), NEW end \in Ends, NEW s
  PROVE  LET q == [r EXCEPT ![end] = s]
         IN  /\ IsConn(q) /\ q.from = r.from /\ q.to = r.to /\ q[end] = s
             /\ \A e \in Ends : e # end => q[e] = r[e]
<1>1. PICK from, to, cli, srv, link :
            r = [from |-> from, to |-> to, cli |-> cli, srv |-> srv, link |-> link]
  BY Zenon DEF IsConn
<1>2. CASE end = "cli"
  <2>1. [r EXCEPT ![end] = s] = [from |-> from, to |-> to, cli |-> s, srv |-> srv, link |-> link]
    BY <1>1, <1>2
  <2>2. IsConn([r EXCEPT ![end] = s])
    BY <2>1, ConnOf
  <2> QED BY <1>1, <1>2, <2>1, <2>2 DEF Ends
<1>3. CASE end = "srv"
  <2>1. [r EXCEPT ![end] = s] = [from |-> from, to |-> to, cli |-> cli, srv |-> s, link |-> link]
    BY <1>1, <1>3
  <2>2. IsConn([r EXCEPT ![end] = s])
    BY <2>1, ConnOf
  <2> QED BY <1>1, <1>3, <2>1, <2>2 DEF Ends
<1> QED BY <1>2, <1>3 DEF Ends

\* The connection r with other states of its ends and of its link.
WithAllOf(r, x, y, z) == [r EXCEPT !.cli = x, !.srv = y, !.link = z]
SameNodes(q, r, x, y) == IsConn(q) /\ q.from = r.from /\ q.to = r.to /\ q.cli = x /\ q.srv = y

LEMMA WithAll ==
  ASSUME NEW r, IsConn(r), NEW x, NEW y, NEW z
  PROVE  SameNodes(WithAllOf(r, x, y, z), r, x, y)
<1> DEFINE q == WithAllOf(r, x, y, z)
<1>1. PICK from, to, cli, srv, link :
            r = [from |-> from, to |-> to, cli |-> cli, srv |-> srv, link |-> link]
  BY Zenon DEF IsConn
<1>2. PICK a : a = [r EXCEPT !.cli = x]
  BY Zenon
<1>3. PICK b : b = [a EXCEPT !.srv = y]
  BY Zenon
<1>4. a = [from |-> from, to |-> to, cli |-> x, srv |-> srv, link |-> link]
  BY <1>1, <1>2
<1>5. b = [from |-> from, to |-> to, cli |-> x, srv |-> y, link |-> link]
  BY <1>3, <1>4
<1>6. q = [b EXCEPT !.link = z]
  BY <1>2, <1>3, Zenon DEF WithAllOf
<1> HIDE DEF q
<1>7. q = [from |-> from, to |-> to, cli |-> x, srv |-> y, link |-> z]
  BY <1>5, <1>6, SMT
<1>8. IsConn(q)
  BY <1>7, ConnOf, Zenon
<1>9. q.from = r.from /\ q.to = r.to /\ q.cli = x /\ q.srv = y
  BY <1>1, <1>7
<1> QED BY <1>8, <1>9 DEF SameNodes, q

LEMMA WithEnds ==
  ASSUME NEW r, IsConn(r), NEW x, NEW y
  PROVE  SameNodes([r EXCEPT !.cli = x, !.srv = y], r, x, y)
<1> DEFINE q == [r EXCEPT !.cli = x, !.srv = y]
<1>1. PICK from, to, cli, srv, link :
            r = [from |-> from, to |-> to, cli |-> cli, srv |-> srv, link |-> link]
  BY Zenon DEF IsConn
<1>2. PICK a : a = [r EXCEPT !.cli = x]
  BY Zenon
<1>3. a = [from |-> from, to |-> to, cli |-> x, srv |-> srv, link |-> link]
  BY <1>1, <1>2
<1>4. q = [a EXCEPT !.srv = y]
  BY <1>2, Zenon
<1> HIDE DEF q
<1>5. q = [from |-> from, to |-> to, cli |-> x, srv |-> y, link |-> link]
  BY <1>3, <1>4, SMT
<1>6. IsConn(q)
  BY <1>5, ConnOf, Zenon
<1>7. q.from = r.from /\ q.to = r.to /\ q.cli = x /\ q.srv = y
  BY <1>1, <1>5
<1> QED BY <1>6, <1>7 DEF SameNodes, q

LEMMA WithLink ==
  ASSUME NEW r, IsConn(r), NEW x
  PROVE  LET q == [r EXCEPT !.link = x]
         IN  IsConn(q) /\ q.from = r.from /\ q.to = r.to /\ q.cli = r.cli /\ q.srv = r.srv
<1>1. PICK from, to, cli, srv, link :
            r = [from |-> from, to |-> to, cli |-> cli, srv |-> srv, link |-> link]
  BY Zenon DEF IsConn
<1>2. [r EXCEPT !.link = x] = [from |-> from, to |-> to, cli |-> cli, srv |-> srv, link |-> x]
  BY <1>1
<1>3. IsConn([r EXCEPT !.link = x])
  BY <1>2, ConnOf
<1> QED BY <1>1, <1>2, <1>3

\* An end that ends its session, or goes on without one, takes no session away; a slot
\* that is recycled had none.
LEMMA EndedShrinks ==
  ASSUME NEW r, IsConn(r), InUse(r), NEW end \in Ends, NEW s,
         s \in LiveState => r[end] \in LiveState
  PROVE  Shrinks(Recycle([r EXCEPT ![end] = s]), r)
<1> DEFINE q == [r EXCEPT ![end] = s]
<1>1. /\ IsConn(q) /\ q.from = r.from /\ q.to = r.to /\ q[end] = s
      /\ \A e \in Ends : e # end => q[e] = r[e]
  BY WithEnd
<1> HIDE DEF q
<1>2. Shrinks(q, r)
  BY <1>1 DEF Shrinks, Placed, InUse
<1>3. Shrinks(Free, r)
  BY FreeIsOver DEF Shrinks
<1>4. Recycle(q) \in {q, Free}
  BY DEF Recycle
<1> QED BY <1>2, <1>3, <1>4 DEF q

LEMMA SetEndKeeps ==
  ASSUME SessionInv, NEW c \in Conn, NEW end \in Ends, NEW s, InUse(conn[c]),
         s \in LiveState => conn[c][end] \in LiveState, SetEnd(c, end, s), UNCHANGED sessions
  PROVE  SessionInv'
<1>1. Shrinks(Recycle([conn[c] EXCEPT ![end] = s]), conn[c])
  BY EndedShrinks DEF SessionInv
<1>2. conn' = [conn EXCEPT ![c] = Recycle([conn[c] EXCEPT ![end] = s])]
  BY DEF SetEnd
<1> QED BY <1>1, <1>2, ShrinkKeeps, Zenon

-----------------------------------------------------------------------------
(* Connecting *)

LEMMA HeartBeatKeeps ==
  ASSUME SessionInv, NEW n \in Node, NEW e \in Node, HeartBeat(n, e)
  PROVE  SessionInv'
<1> DEFINE q == [from |-> n, to |-> e, cli |-> "connecting", srv |-> "none", link |-> TRUE]
<1>1. PICK c \in Conn : conn' = [conn EXCEPT ![c] = q]
  BY Zenon DEF HeartBeat
<1>2. Shrinks(q, conn[c])
  <2>1. IsConn(q)
    BY ConnOf, Zenon
  <2>2. q.from = n /\ q.to = e /\ q.cli = "connecting" /\ q.srv = "none"
    OBVIOUS
  <2> HIDE DEF q
  <2> QED BY <2>1, <2>2 DEF Shrinks, Placed, InUse, Ends, LiveState
<1>3. UNCHANGED sessions
  BY DEF HeartBeat
<1> HIDE DEF q
<1> QED BY <1>1, <1>2, <1>3, ShrinkKeeps, Zenon

LEMMA ConnectedKeeps ==
  ASSUME SessionInv, NEW c \in Conn, Connected(c)
  PROVE  SessionInv'
<1>1. InUse(conn[c]) /\ UNCHANGED sessions
  BY DEF Connected, SessionInv, Placed
<1>2. CASE conn' = [conn EXCEPT ![c] = [@ EXCEPT !.cli = "tcp", !.srv = "backlog"]]
  <2> DEFINE q == [conn[c] EXCEPT !.cli = "tcp", !.srv = "backlog"]
  <2>1. conn' = [conn EXCEPT ![c] = q]
    BY <1>2, Zenon
  <2>2. IsConn(conn[c])
    BY DEF SessionInv
  <2>3. SameNodes(q, conn[c], "tcp", "backlog")
    BY <2>2, WithEnds, Zenon
  <2> HIDE DEF q
  <2>4. Shrinks(q, conn[c])
    BY <1>1, <2>3 DEF SameNodes, Shrinks, Placed, InUse, Ends, LiveState
  <2> QED BY <1>1, <2>1, <2>4, ShrinkKeeps, Zenon
<1>3. CASE SetEnd(c, "cli", "closed")
  BY <1>1, <1>3, SetEndKeeps DEF Ends, LiveState
<1> QED BY <1>2, <1>3, Zenon DEF Connected

LEMMA AcceptKeeps ==
  ASSUME SessionInv, NEW c \in Conn, Accept(c)
  PROVE  SessionInv'
<1>1. InUse(conn[c]) /\ UNCHANGED sessions
  BY DEF Accept, SessionInv, Placed
<1>2. conn' = [conn EXCEPT ![c] = [conn[c] EXCEPT !["srv"] = "tcp"]]
  BY Zenon DEF Accept
<1>3. /\ IsConn(conn[c]) /\ "srv" \in Ends /\ "tcp" \notin LiveState
  BY DEF SessionInv, Ends, LiveState
<1>4. Shrinks([conn[c] EXCEPT !["srv"] = "tcp"], conn[c])
  BY <1>1, <1>3, WithEnd DEF Shrinks, Placed, InUse, Ends
<1> QED BY <1>1, <1>2, <1>4, ShrinkKeeps, Zenon

LEMMA HandshakesKeep ==
  ASSUME SessionInv, NEW c \in Conn, HandshakeServer(c) \/ HandshakeClient(c)
  PROVE  SessionInv'
<1>1. InUse(conn[c]) /\ UNCHANGED sessions
  BY DEF HandshakeServer, HandshakeClient, SessionInv, Placed
<1>2. \A ok : StartPeerSession(ok) \notin LiveState
  BY DEF StartPeerSession, LiveState
<1>3. \E end \in Ends : \E s : s \notin LiveState /\ SetEnd(c, end, s)
  BY <1>2, Zenon DEF HandshakeServer, HandshakeClient, Ends
<1> QED BY <1>1, <1>3, SetEndKeeps

\* onConnect starts a session only when the node has none with the peer that is running:
\* whatever entry it overwrites is that of no live session.
LEMMA OnConnectKeeps ==
  ASSUME SessionInv, NoConn \notin Conn, NEW c \in Conn, NEW end \in Ends, OnConnect(c, end)
  PROVE  SessionInv'
<1> DEFINE n == Node2(c, end)
           p == PeerOf(c, end)
           r == conn[c]
<1>1. /\ InUse(r) /\ IsConn(r)
      /\ n = NodeOf(r, end) /\ p = FarOf(r, end)
  BY DEF OnConnect, Placed, SessionInv, Node2, PeerOf, NodeOf, FarOf, Ends
<1>2. n \in Node /\ p \in Node
  BY <1>1 DEF InUse, NodeOf, FarOf
<1>3. CASE SetEnd(c, end, "closed") /\ UNCHANGED sessions
  BY <1>1, <1>3, SetEndKeeps DEF LiveState
<1>4. CASE /\ ~IsConnected(n, p) /\ p # n /\ SetEnd(c, end, "up")
           /\ sessions' = [sessions EXCEPT ![n][p] = c]
  <2> DEFINE q == [r EXCEPT ![end] = "up"]
  <2>1. /\ IsConn(q) /\ q.from = r.from /\ q.to = r.to /\ q[end] = "up"
        /\ \A e \in Ends : e # end => q[e] = r[e]
    BY <1>1, WithEnd
  <2>2. conn' = [conn EXCEPT ![c] = q]
    <3>1. Recycle(q) = q
      <4> HIDE DEF q
      <4> QED BY <2>1 DEF Recycle, Ends, Over
    <3> QED BY <1>4, <3>1, Zenon DEF SetEnd
  <2> HIDE DEF q
  <2>3. /\ conn'[c] = q /\ conn' = [d \in Conn |-> conn'[d]]
        /\ \A d \in Conn : d # c => conn'[d] = conn[d]
    BY <2>2 DEF SessionInv
  <2>4. /\ sessions' \in [Node -> [Node -> Conn \cup {NoConn}]]
        /\ sessions'[n][p] = c
        /\ \A a, b \in Node : <<a, b>> # <<n, p>> => sessions'[a][b] = sessions[a][b]
    <3> HIDE DEF n, p
    <3> QED BY <1>2, <1>4 DEF SessionInv
  <2>5. Placed(q)
    BY <1>1, <2>1 DEF Placed, InUse
  <2>6. Held(q, c, sessions')
    <3> SUFFICES ASSUME NEW e \in Ends, q[e] \in LiveState
                 PROVE  q.from # q.to /\ sessions'[NodeOf(q, e)][FarOf(q, e)] = c
      BY DEF Held
    <3>1. q.from # q.to
      BY <1>1, <1>4, <2>1 DEF NodeOf, FarOf
    <3>2. CASE e = end
      BY <1>1, <2>1, <2>4, <3>1, <3>2 DEF NodeOf, FarOf
    <3>3. CASE e # end
      <4>1. sessions[NodeOf(r, e)][FarOf(r, e)] = c
        BY <2>1, <3>3 DEF SessionInv, Held
      <4>2. NodeOf(r, e) = p /\ FarOf(r, e) = n
        BY <1>1, <3>3 DEF NodeOf, FarOf, Ends
      <4>3. NodeOf(q, e) = p /\ FarOf(q, e) = n
        BY <2>1, <4>2 DEF NodeOf, FarOf
      <4>4. <<p, n>> # <<n, p>>
        BY <1>4
      <4> HIDE DEF n, p, r
      <4> QED BY <1>2, <2>4, <3>1, <4>1, <4>2, <4>3, <4>4
    <3> QED BY <3>2, <3>3
  <2>7. ASSUME NEW d \in Conn, d # c PROVE Held(conn[d], d, sessions')
    <3> SUFFICES ASSUME NEW e \in Ends, conn[d][e] \in LiveState
                 PROVE  /\ conn[d].from # conn[d].to
                        /\ sessions'[NodeOf(conn[d], e)][FarOf(conn[d], e)] = d
      BY DEF Held
    <3>1. /\ conn[d].from # conn[d].to
          /\ sessions[NodeOf(conn[d], e)][FarOf(conn[d], e)] = d
      BY DEF SessionInv, Held
    <3>2. NodeOf(conn[d], e) \in Node /\ FarOf(conn[d], e) \in Node
      BY DEF SessionInv, Placed, InUse, NodeOf, FarOf, Ends, LiveState
    <3>3. <<NodeOf(conn[d], e), FarOf(conn[d], e)>> # <<n, p>>
      <4> SUFFICES ASSUME NodeOf(conn[d], e) = n, FarOf(conn[d], e) = p PROVE FALSE
        OBVIOUS
      <4>1. sessions[n][p] = d /\ d # NoConn
        BY <3>1
      <4>2. End(n, d) = e
        <5> HIDE DEF n
        <5> QED BY <3>1 DEF End, NodeOf, Ends
      <4>3. Running(n, d)
        BY <4>1, <4>2 DEF Running, LiveState
      <4> QED BY <1>4, <4>1, <4>3 DEF IsConnected
    <3> HIDE DEF n, p
    <3> QED BY <2>4, <3>1, <3>2, <3>3
  <2> QED BY <2>1, <2>3, <2>4, <2>5, <2>6, <2>7 DEF SessionInv
<1> QED BY <1>3, <1>4 DEF OnConnect

-----------------------------------------------------------------------------
(* Losing a session *)

LEMMA ReadErrorKeeps ==
  ASSUME SessionInv, NEW c \in Conn, NEW end \in Ends, ReadError(c, end) \/ StopSession(c, end)
  PROVE  SessionInv'
<1>1. conn[c][end] \in LiveState /\ UNCHANGED sessions
  BY DEF ReadError, StopSession, LiveState
<1>2. InUse(conn[c])
  BY <1>1 DEF SessionInv, Placed, Ends, LiveState
<1>3. \E s \in {"dropped", "stopped"} : SetEnd(c, end, s)
  BY DEF ReadError, StopSession
<1> QED BY <1>1, <1>2, <1>3, SetEndKeeps

\* onDisconnect erases no entry but its own.
LEMMA OnDisconnectKeeps ==
  ASSUME SessionInv, NoConn \notin Conn, NEW c \in Conn, NEW end \in Ends, OnDisconnect(c, end)
  PROVE  SessionInv'
<1> DEFINE n == Node2(c, end)
           p == PeerOf(c, end)
           r == conn[c]
           q == Recycle([r EXCEPT ![end] = "closed"])
<1>1. /\ InUse(r) /\ IsConn(r) /\ r[end] = "stopped"
      /\ n = NodeOf(r, end) /\ p = FarOf(r, end)
  BY DEF OnDisconnect, Placed, SessionInv, Node2, PeerOf, NodeOf, FarOf, Ends
<1>2. n \in Node /\ p \in Node
  BY <1>1 DEF InUse, NodeOf, FarOf
<1>3. Shrinks(q, r) /\ q[end] \notin LiveState
  <2>1. Shrinks(q, r)
    BY <1>1, EndedShrinks DEF LiveState
  <2> HIDE DEF q
  <2> QED BY <1>1, <2>1 DEF Shrinks, LiveState
<1>4. conn' = [conn EXCEPT ![c] = q]
  BY DEF OnDisconnect, SetEnd
<1> HIDE DEF q
<1>5. /\ conn'[c] = q /\ conn' = [d \in Conn |-> conn'[d]]
      /\ \A d \in Conn : d # c => conn'[d] = conn[d]
  BY <1>4 DEF SessionInv
<1>6. sessions' = [sessions EXCEPT ![n][p] = IF @ = c THEN NoConn ELSE @]
  BY DEF OnDisconnect
<1>7. /\ sessions' \in [Node -> [Node -> Conn \cup {NoConn}]]
      /\ \A a, b \in Node : sessions[a][b] # c => sessions'[a][b] = sessions[a][b]
      /\ \A a, b \in Node : <<a, b>> # <<n, p>> => sessions'[a][b] = sessions[a][b]
  <2> HIDE DEF n, p
  <2> QED BY <1>2, <1>6 DEF SessionInv
<1>8. Held(q, c, sessions')
  <2> SUFFICES ASSUME NEW e \in Ends, q[e] \in LiveState
               PROVE  q.from # q.to /\ sessions'[NodeOf(q, e)][FarOf(q, e)] = c
    BY DEF Held
  <2>1. /\ e # end /\ r[e] \in LiveState /\ q.from = r.from /\ q.to = r.to
    BY <1>3 DEF Shrinks
  <2>2. r.from # r.to /\ sessions[NodeOf(r, e)][FarOf(r, e)] = c
    BY <2>1 DEF SessionInv, Held
  <2>3. NodeOf(r, e) = p /\ FarOf(r, e) = n /\ NodeOf(q, e) = p /\ FarOf(q, e) = n /\ p # n
    BY <1>1, <2>1, <2>2 DEF NodeOf, FarOf, Ends
  <2> HIDE DEF n, p, r
  <2> QED BY <1>2, <1>7, <2>1, <2>2, <2>3
<1>9. ASSUME NEW d \in Conn, d # c PROVE Held(conn[d], d, sessions')
  <2> SUFFICES ASSUME NEW e \in Ends, conn[d][e] \in LiveState
               PROVE  /\ conn[d].from # conn[d].to
                      /\ sessions'[NodeOf(conn[d], e)][FarOf(conn[d], e)] = d
    BY DEF Held
  <2>1. /\ conn[d].from # conn[d].to
        /\ sessions[NodeOf(conn[d], e)][FarOf(conn[d], e)] = d
    BY DEF SessionInv, Held
  <2>2. NodeOf(conn[d], e) \in Node /\ FarOf(conn[d], e) \in Node
    BY DEF SessionInv, Placed, InUse, NodeOf, FarOf, Ends, LiveState
  <2> QED BY <1>7, <1>9, <2>1, <2>2
<1> QED BY <1>3, <1>5, <1>7, <1>8, <1>9 DEF SessionInv, Shrinks

LEMMA BreakKeeps ==
  ASSUME SessionInv, NEW c \in Conn, Break(c) \/ ConnectTimeout(c)
  PROVE  SessionInv'
<1>1. conn' = [conn EXCEPT ![c] = [conn[c] EXCEPT !.link = FALSE]] /\ UNCHANGED sessions
  BY DEF Break, ConnectTimeout
<1> DEFINE q == [conn[c] EXCEPT !.link = FALSE]
<1>2. IsConn(conn[c]) /\ Placed(conn[c])
  BY DEF SessionInv
<1>3. /\ IsConn(q) /\ q.from = conn[c].from /\ q.to = conn[c].to
      /\ q.cli = conn[c].cli /\ q.srv = conn[c].srv
  BY <1>2, WithLink, Zenon
<1> HIDE DEF q
<1>4. Shrinks(q, conn[c])
  BY <1>2, <1>3 DEF Shrinks, Placed, InUse, Ends
<1> QED BY <1>1, <1>4, ShrinkKeeps, Zenon DEF q

\* A service that stops closes its end of every connection.
LEMMA StopKeeps ==
  ASSUME SessionInv, NEW n \in Node, Stop(n)
  PROVE  SessionInv'
<1>1. /\ sessions' = [sessions EXCEPT ![n] = [p \in Node |-> NoConn]]
      /\ conn' = [c \in Conn |-> CloseAll(n, c)]
  BY DEF Stop
<1>2. /\ sessions' \in [Node -> [Node -> Conn \cup {NoConn}]]
      /\ \A a \in Node : a # n => sessions'[a] = sessions[a]
  BY <1>1 DEF SessionInv
<1>3. ASSUME NEW c \in Conn
      PROVE  /\ Shrinks(CloseAll(n, c), conn[c])
             /\ \A e \in Ends : CloseAll(n, c)[e] \in LiveState => NodeOf(conn[c], e) # n
  <2> DEFINE r == conn[c]
  <2>1. IsConn(r) /\ Placed(r)
    BY DEF SessionInv
  <2>2. PICK cli : cli = IF r.from = n THEN "closed" ELSE r.cli
    BY Zenon
  <2>3. PICK srv : srv = IF r.to = n /\ r.srv # "none" THEN "closed" ELSE r.srv
    BY Zenon
  <2>4. PICK link : link = (r.link /\ n \notin {r.from, r.to})
    BY Zenon
  <2> DEFINE q == WithAllOf(r, cli, srv, link)
  <2>5. IsConn(q) /\ q.from = r.from /\ q.to = r.to /\ q.cli = cli /\ q.srv = srv
    <3>1. SameNodes(q, r, cli, srv)
      BY <2>1, WithAll
    <3> HIDE DEF q
    <3> QED BY <3>1 DEF SameNodes
  <2>6. CloseAll(n, c) = Recycle(q)
    BY <2>2, <2>3, <2>4, Zenon DEF CloseAll, WithAllOf
  <2> HIDE DEF q
  <2>7. Recycle(q) = Free \/ (Recycle(q) = q /\ Placed(q))
    BY <2>1, <2>2, <2>3, <2>5 DEF Recycle, Over, Placed, InUse
  <2>8. CASE Recycle(q) = Free
    BY <2>6, <2>8, FreeIsOver DEF Shrinks
  <2>9. CASE Recycle(q) = q /\ Placed(q)
    <3>1. Shrinks(q, conn[c])
      BY <2>2, <2>3, <2>9, <2>5 DEF Shrinks, Ends, LiveState
    <3>2. \A e \in Ends : q[e] \in LiveState => NodeOf(conn[c], e) # n
      BY <2>2, <2>3, <2>5 DEF Ends, LiveState, NodeOf
    <3> QED BY <2>6, <2>9, <3>1, <3>2
  <2> QED BY <2>7, <2>8, <2>9
<1>4. ASSUME NEW c \in Conn
      PROVE  Held(CloseAll(n, c), c, sessions')
  <2> DEFINE q == CloseAll(n, c)
  <2> SUFFICES ASSUME NEW e \in Ends, q[e] \in LiveState
               PROVE  q.from # q.to /\ sessions'[NodeOf(q, e)][FarOf(q, e)] = c
    BY DEF Held
  <2>1. /\ conn[c][e] \in LiveState /\ q.from = conn[c].from /\ q.to = conn[c].to
        /\ NodeOf(conn[c], e) # n
    BY <1>3 DEF Shrinks
  <2>2. /\ conn[c].from # conn[c].to
        /\ sessions[NodeOf(conn[c], e)][FarOf(conn[c], e)] = c
    BY <2>1 DEF SessionInv, Held
  <2>3. NodeOf(conn[c], e) \in Node
    BY <2>1 DEF SessionInv, Placed, InUse, NodeOf, Ends, LiveState
  <2>4. NodeOf(q, e) = NodeOf(conn[c], e) /\ FarOf(q, e) = FarOf(conn[c], e)
    BY <2>1 DEF NodeOf, FarOf
  <2> HIDE DEF q
  <2> QED BY <1>2, <2>1, <2>2, <2>3, <2>4
<1>5. conn' = [c \in Conn |-> conn'[c]] /\ \A c \in Conn : conn'[c] = CloseAll(n, c)
  <2> HIDE DEF CloseAll
  <2> QED BY <1>1
<1> QED BY <1>2, <1>3, <1>4, <1>5 DEF SessionInv, Shrinks

-----------------------------------------------------------------------------
LEMMA SessionStep ==
  ASSUME SessionInv, NoConn \notin Conn, [Next]_vars
  PROVE  SessionInv'
<1>1. CASE UNCHANGED vars
  BY <1>1, Zenon DEF vars, SessionInv
<1>2. ASSUME NEW n \in Node, NEW e \in Node, HeartBeat(n, e)  PROVE SessionInv'
  BY <1>2, HeartBeatKeeps
<1>3. ASSUME NEW c \in Conn, Connected(c)  PROVE SessionInv'
  BY <1>3, ConnectedKeeps
<1>4. ASSUME NEW c \in Conn, Accept(c)  PROVE SessionInv'
  BY <1>4, AcceptKeeps
<1>5. ASSUME NEW c \in Conn, HandshakeServer(c) \/ HandshakeClient(c)  PROVE SessionInv'
  BY <1>5, HandshakesKeep
<1>6. ASSUME NEW c \in Conn, NEW end \in Ends, OnConnect(c, end)  PROVE SessionInv'
  BY <1>6, OnConnectKeeps
<1>7. ASSUME NEW c \in Conn, NEW end \in Ends, ReadError(c, end) \/ StopSession(c, end)
      PROVE  SessionInv'
  BY <1>7, ReadErrorKeeps
<1>8. ASSUME NEW c \in Conn, NEW end \in Ends, OnDisconnect(c, end)  PROVE SessionInv'
  BY <1>8, OnDisconnectKeeps
<1>9. ASSUME NEW c \in Conn, Break(c) \/ ConnectTimeout(c)  PROVE SessionInv'
  BY <1>9, BreakKeeps
<1>10. ASSUME NEW n \in Node, Stop(n)  PROVE SessionInv'
  BY <1>10, StopKeeps
<1> QED BY <1>1, <1>2, <1>3, <1>4, <1>5, <1>6, <1>7, <1>8, <1>9, <1>10 DEF Next, ConnStep, Ends

\* For every set of nodes, and with any number of connections between the same two that
\* overlap, break or are closed by a service that stops, a P2PSession that was started
\* and not stopped is the one m_sessions has for its node.
THEOREM SessionsInSight ==
  ASSUME NoConn \notin Conn
  PROVE  Spec => []NoOrphanSession
<1>1. Init => SessionInv
  <2> SUFFICES ASSUME Init PROVE SessionInv
    OBVIOUS
  <2>1. sessions \in [Node -> [Node -> Conn \cup {NoConn}]]
    BY DEF Init
  <2>2. conn = [c \in Conn |-> conn[c]] /\ \A c \in Conn : conn[c] = Free
    BY DEF Init
  <2> QED BY <2>1, <2>2, FreeIsOver DEF SessionInv, Held
<1>2. SessionInv => NoOrphanSession
  BY DEF SessionInv, Held, NoOrphanSession, Ends, LiveState, NodeOf, FarOf, Node2, PeerOf
<1>3. SessionInv /\ [Next]_vars => SessionInv'
  BY SessionStep
<1> QED BY <1>1, <1>2, <1>3, PTL DEF Spec
=============================================================================
