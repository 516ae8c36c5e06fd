---------------------------- MODULE PBFTBroadcast ----------------------------
(***************************************************************************)
(* How a PBFT message spreads over nodes that are not all connected:       *)
(* PBFTEngine::broadcastMsg, the forwarding at the end of handleMsg and    *)
(* the cache of what was sent to whom (PBFTMsgCache.h, QueueSet).  What a  *)
(* message says is left to PBFTEngine; here it is a key with a type, a     *)
(* generator and a height.                                                 *)
(***************************************************************************)
EXTENDS Integers, Sequences, FiniteSets, SequencesExt

CONSTANTS Node,
          Miner,      \* the nodes of m_minerList
          Link,       \* pairs {m, n} with a session
          Key,        \* the signatures that name messages
          PacketType, \* of each key
          Generator,  \* of each key
          Height,     \* of each key
          Highest,    \* m_highestBlock.number() of each node
          ForwardGap, \* 10: how old a message is still forwarded
          maxTTL,
          CacheLimit, \* c_knownPrepare and the others
          MaxClears   \* bound on clearAll

VARIABLES cache,   \* m_broadCastKeyCache of each node: peer, type -> queue of keys
          net,     \* messages under way
          got,     \* keys a node has handled
          sent,    \* how often a node sent a key to a peer
          clears

vars == <<cache, net, got, sent, clears>>

Peers(n) == {m \in Node : {m, n} \in Link}

keyExists(c, m, k) == Contains(c[m][PacketType[k]], k)

\* insertMessage with QueueSet: the oldest key goes when there are more than the limit.
Pushed(queue, k) ==
    Append(IF Len(queue) > CacheLimit THEN Tail(queue) ELSE queue, k)

broadcastMark(c, m, k) ==
    IF keyExists(c, m, k) THEN c ELSE [c EXCEPT ![m][PacketType[k]] = Pushed(@, k)]

\* The miners that get the message, and those that are only noted to know it.
Receivers(n, c, k, filter) == {m \in (Peers(n) \cap Miner) \ filter : ~keyExists(c, m, k)}

Noted(n, c, k, filter) == Receivers(n, c, k, filter) \cup (Peers(n) \cap Miner \cap filter)

MarkAll(c, ms, k) == [m \in Node |-> IF m \in ms THEN broadcastMark(c, m, k)[m] ELSE c[m]]

\* transDataToMessage: no ttl given means the full one.
Ttl(ttl) == IF ttl = 0 THEN maxTTL ELSE ttl

Message(n, m, k, ttl) == [from |-> n, to |-> m, key |-> k, ttl |-> Ttl(ttl)]

\* broadcastMsg of node n, whose cache is c; taken is what n takes from the network.
broadcastMsg(n, c, k, filter, ttl, taken) ==
    LET to == Receivers(n, c, k, filter)
    IN  /\ net' = (net \ taken) \cup {Message(n, m, k, ttl) : m \in to}
        /\ cache' = [cache EXCEPT ![n] = MarkAll(c, Noted(n, c, k, filter), k)]
        /\ sent' = [sent EXCEPT ![n] = [m \in Node |-> [@[m] EXCEPT ![k] = @ + IF m \in to THEN 1 ELSE 0]]]

\* A node sends what it made: a prepare, a sign, a commit or a view change.
Broadcast(n, k) ==
    /\ Generator[k] = n /\ k \notin got[n]
    /\ got' = [got EXCEPT ![n] = @ \cup {k}]
    /\ broadcastMsg(n, cache[n], k, {}, 0, {})
    /\ UNCHANGED clears

Forgotten(c) == [m \in Node |-> [t \in DOMAIN c[m] |-> <<>>]]

\* rehandleCommitedPrepareCache forgets what was sent, and sends the locked block again.
Rehandle(n, k) ==
    /\ Generator[k] = n /\ k \in got[n]
    /\ clears < MaxClears
    /\ clears' = clears + 1
    /\ broadcastMsg(n, Forgotten(cache[n]), k, {}, 0, {})
    /\ UNCHANGED got

Recent(n, k) == Height[k] > Highest[n] \/ Highest[n] - Height[k] < ForwardGap

Filter(msg) == {msg.from, Generator[msg.key]}

\* Only the first copy sent on.
Forwards_First(msg) ==
    msg.ttl # 1 /\ Recent(msg.to, msg.key) /\ msg.key \notin got[msg.to]

Forwards(msg) == msg.ttl # 1 /\ Recent(msg.to, msg.key)

handleMsg(msg) ==
    /\ msg \in net
    /\ got' = [got EXCEPT ![msg.to] = @ \cup {msg.key}]
    /\ IF Forwards(msg)
       THEN broadcastMsg(msg.to, cache[msg.to], msg.key, Filter(msg), msg.ttl - 1, {msg})
       ELSE net' = net \ {msg} /\ UNCHANGED <<cache, sent>>
    /\ UNCHANGED clears

Init ==
    /\ cache = [n \in Node |-> [m \in Node |-> [t \in {PacketType[k] : k \in Key} |-> <<>>]]]
    /\ net = {}
    /\ got = [n \in Node |-> {}]
    /\ sent = [n \in Node |-> [m \in Node |-> [k \in Key |-> 0]]]
    /\ clears = 0

Next ==
    \/ \E n \in Node, k \in Key : Broadcast(n, k) \/ Rehandle(n, k)
    \/ \E msg \in net : handleMsg(msg)

Spec == Init /\ [][Next]_vars

(***************************************************************************)
(* Properties.                                                             *)
(***************************************************************************)

\* Miners that a message of n can reach in at most h hops over miners.
Within(n, h) ==
    LET Reached[i \in 0 .. h] ==
            IF i = 0 THEN {n}
            ELSE Reached[i - 1] \cup {m \in Miner : Peers(m) \cap Reached[i - 1] # {}}
    IN  Reached[h]

\* When the network is quiet, a message that is recent for everyone is known to every
\* miner within two hops of its generator, whichever copy came first: a copy on its last
\* hop that arrives early does not keep a later one from being sent on.
EveryoneInReach ==
    \A k \in Key :
        (net = {} /\ k \in got[Generator[k]] /\ \A n \in Miner : Recent(n, k))
            => \A m \in Within(Generator[k], maxTTL) : k \in got[m]

\* No node sends a message to the same peer twice, unless it was told to forget.
SentOnce == \A n, m \in Node, k \in Key : sent[n][m][k] <= 1 + clears

\* A message does not travel further than its ttl allows, and never back to its generator.
StaysInReach ==
    \A msg \in net : msg.to \in Within(Generator[msg.key], maxTTL) \ {Generator[msg.key]}
=============================================================================
