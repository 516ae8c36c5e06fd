------------------------------ MODULE Messages ------------------------------
\* Messages between nodes and with clients: their contents, and their frames on
\* a byte stream.
EXTENDS RLP, TLC, Integers, Sequences, SequencesExt

(***************************************************************************)
(* What the consensus engines and block sync put on the wire: the PBFT     *)
(* requests with their two signatures, the Raft messages and the sync      *)
(* packets, written with RLPStream and read with RLP (module RLP).  A hash *)
(* is the bytes it is taken of, a signature those bytes after the key.     *)
(***************************************************************************)
CONSTANTS Index,     \* miner indexes
          View, Height, Time,
          BlockHash, \* hashes, of HashSize bytes
          HashSize,
          IntSize,   \* bytes of the widest integer
          SyncPacketIDBase

VARIABLES held,  \* the PrepareReq a node works on, in a set
          sent   \* the last message sent: its kind, its fields and its bytes, in a set

messageVars == <<held, sent>>

-----------------------------------------------------------------------------
(* Fields *)

Number(v) == [type |-> "int", value |-> v]
Data(v) == [type |-> "data", value |-> v]
Raw(v) == [type |-> "raw", value |-> v]

\* A stream the fields are appended to one by one, without a list around them.
Streamed(fields) ==
    LET after[i \in 0 .. Len(fields)] ==
            IF i = 0 THEN Stream(<<>>, <<>>)
            ELSE IF fields[i].type = "int" THEN AppendInt(after[i - 1], fields[i].value)
            ELSE IF fields[i].type = "raw" THEN AppendRaw(after[i - 1], fields[i].value, 1)
            ELSE AppendBytes(after[i - 1], fields[i].value, FALSE)
    IN  after[Len(fields)].out

\* list_rlp.appendList(1).append(tmp.out())
InList(data) == AppendBytes(AppendList(Stream(<<>>, <<>>), 1), data, FALSE).out

\* An RLP list is read through its items: item i as an integer, a hash or bytes.
IntAt(items, i) == ToInt(items[i + 1], IntSize, Strict)
HashAt(items, i) == ToHash(items[i + 1], HashSize, VeryStrict)
BytesAt(items, i) == ToBytes(items[i + 1], Strict)

-----------------------------------------------------------------------------
(* PBFT *)

KeyPair(i) == i + 1

Sign(i, hash) == <<KeyPair(i)>> \o hash

FieldsWithoutBlock(m) == Streamed(<<Number(m.height), Number(m.view), Number(m.idx), Number(m.timestamp)>>)

\* The end of every constructor, by node i.
Signed(m, i) == m @@ [sig |-> Sign(i, m.block_hash), sig2 |-> Sign(i, FieldsWithoutBlock(m))]

BlockEncode(height, hash) == <<height>> \o hash

Unsigned(height, view, idx, timestamp, hash) ==
    [height |-> height, view |-> view, idx |-> idx, timestamp |-> timestamp, block_hash |-> hash]

\* PrepareReq(blockStruct, keyPair, view, idx)
PrepareOfBlock(height, hash, view, i, time) ==
    Signed(Unsigned(height, view, i, time, hash), i) @@ [block |-> BlockEncode(height, hash)]

\* PrepareReq(req, keyPair, view, idx)
PrepareAgain(req, view, i, time) ==
    Signed(Unsigned(req.height, view, i, time, req.block_hash), i) @@ [block |-> req.block]

\* PrepareReq(req, sealing, keyPair): execution may have changed the header, and with it
\* the hash; the index stays the leader's, the signature is that of the node.
PrepareExecuted(req, hash, i, time) ==
    Signed(Unsigned(req.height, req.view, req.idx, time, hash), i) @@ [block |-> BlockEncode(req.height, hash)]

\* SignReq and CommitReq of a PrepareReq.
VoteFor(req, i, time) == Signed(Unsigned(req.height, req.view, i, time, req.block_hash), i)

ViewChangeOf(height, view, i, hash, time) == Signed(Unsigned(height, view, i, time, hash), i)

PBFTFields(m) ==
    <<Number(m.height), Number(m.view), Number(m.idx), Number(m.timestamp),
      Data(m.block_hash), Data(m.sig), Data(m.sig2)>>

PrepareFields(m) == Append(PBFTFields(m), Data(m.block))

PBFTPopulate(d) ==
    [height |-> IntAt(d, 0), view |-> IntAt(d, 1), idx |-> IntAt(d, 2), timestamp |-> IntAt(d, 3),
     block_hash |-> HashAt(d, 4), sig |-> BytesAt(d, 5), sig2 |-> BytesAt(d, 6)]

PreparePopulate(d) == PBFTPopulate(d) @@ [block |-> BytesAt(d, 7)]

CheckSign(m) == m.sig = Sign(m.idx, m.block_hash) /\ m.sig2 = Sign(m.idx, FieldsWithoutBlock(m))

\* PBFTMsgPacket around an encoded request.
PacketEncode(id, ttl, data) == InList(Streamed(<<Number(id), Number(ttl), Data(data)>>))

PacketFields(items) == [id |-> IntAt(items, 0), ttl |-> IntAt(items, 1), data |-> BytesAt(items, 2)]
PacketPopulate(wire) == PacketFields(ListItems(ListItems(wire)[1]))

-----------------------------------------------------------------------------
(* Raft *)

RaftFields(m) == <<Number(m.idx), Number(m.term), Number(m.height), Data(m.blockHash)>>

RaftPopulate(d) ==
    [idx |-> IntAt(d, 0), term |-> IntAt(d, 1), height |-> IntAt(d, 2), blockHash |-> HashAt(d, 3)]

VoteReqFields(m) == RaftFields(m) \o <<Number(m.candidate), Number(m.lastLeaderTerm), Number(m.lastBlockNumber)>>

VoteReqPopulate(d) ==
    RaftPopulate(d) @@
        [candidate |-> IntAt(d, 4), lastLeaderTerm |-> IntAt(d, 5), lastBlockNumber |-> IntAt(d, 6)]

VoteRespFields(m) == RaftFields(m) \o <<Number(m.voteFlag), Number(m.lastLeaderTerm)>>

VoteRespPopulate(d) == RaftPopulate(d) @@ [voteFlag |-> IntAt(d, 4), lastLeaderTerm |-> IntAt(d, 5)]

HeartBeatFields(m) ==
    RaftFields(m) \o <<Number(m.leader), Data(m.uncommitedBlock), Number(m.uncommitedBlockNumber)>>

HeartBeatPopulate(d) ==
    RaftPopulate(d) @@
        [leader |-> IntAt(d, 4), uncommitedBlock |-> BytesAt(d, 5), uncommitedBlockNumber |-> IntAt(d, 6)]

HeartBeatRespFields(m) == Append(RaftFields(m), Data(m.uncommitedBlockHash))

HeartBeatRespPopulate(d) == RaftPopulate(d) @@ [uncommitedBlockHash |-> HashAt(d, 4)]

RaftTypes == <<"vote", "vote resp", "heartbeat", "heartbeat resp">>
RaftPacketType(kind) == (CHOOSE i \in 1 .. 4 : RaftTypes[i] = kind) - 1

\* RaftMsgPacket::streamRLPFields and populate: the type is the first byte.
RaftEncode(kind, fields) == Streamed(<<Number(RaftPacketType(kind)), Data(InList(Streamed(fields)))>>)

RaftDecode(wire) ==
    [type |-> ToInt(SubSeq(wire, 1, 1), IntSize, {ThrowOnFail}),
     data |-> ToBytes(SubSeq(wire, 2, Len(wire)), LaissezFaire)]

-----------------------------------------------------------------------------
(* Sync *)

SyncTypes == <<"status", "transactions", "blocks", "request">>
SyncPacketType(kind) == (CHOOSE i \in 1 .. 4 : SyncTypes[i] = kind) - 1

\* prep and the fields: an identifier, then a list.
SyncEncode(kind, fields) ==
    <<SyncPacketType(kind) + SyncPacketIDBase>> \o AppendListBytes(Stream(<<>>, <<>>), Streamed(fields)).out

CheckPacket(wire) ==
    /\ Len(wire) >= 2 /\ wire[1] < c_rlpDataImmLenStart
    /\ ActualSize(SubSeq(wire, 2, Len(wire))) + 1 = Len(wire)

SyncDecode(wire) ==
    [type |-> ToInt(SubSeq(wire, 1, 1), IntSize, Strict) - SyncPacketIDBase,
     rlp |-> SubSeq(wire, 2, Len(wire))]

StatusFields(m) == <<Number(m.number), Data(m.genesisHash), Data(m.latestHash)>>
StatusPopulate(d) == [number |-> IntAt(d, 0), genesisHash |-> HashAt(d, 1), latestHash |-> HashAt(d, 2)]

\* Transactions are lists already.
TransactionsFields(m) == [i \in DOMAIN m.txs |-> Raw(AppendListBytes(Stream(<<>>, <<>>), m.txs[i]).out)]
TransactionsPopulate(d) == [txs |-> [i \in DOMAIN d |-> Payload(d[i])]]

BlocksFields(m) == [i \in DOMAIN m.blocks |-> Data(m.blocks[i])]
BlocksPopulate(d) == [blocks |-> [i \in DOMAIN d |-> BytesAt(d, i - 1)]]

ReqBlockFields(m) == <<Number(m.from), Number(m.size)>>
ReqBlockPopulate(d) == [from |-> IntAt(d, 0), size |-> IntAt(d, 1)]

-----------------------------------------------------------------------------
(* Sending *)

PBFTTypes == <<"prepare", "sign", "commit", "view change">>
PBFTPacketType(kind) == (CHOOSE i \in 1 .. 4 : PBFTTypes[i] = kind) - 1

IsPBFT(kind) == \E i \in 1 .. 4 : PBFTTypes[i] = kind
IsRaft(kind) == \E i \in 1 .. 4 : RaftTypes[i] = kind

Fields(kind, m) ==
    CASE kind = "prepare" -> PrepareFields(m)
      [] kind \in {"sign", "commit", "view change"} -> PBFTFields(m)
      [] kind = "vote" -> VoteReqFields(m)
      [] kind = "vote resp" -> VoteRespFields(m)
      [] kind = "heartbeat" -> HeartBeatFields(m)
      [] kind = "heartbeat resp" -> HeartBeatRespFields(m)
      [] kind = "status" -> StatusFields(m)
      [] kind = "transactions" -> TransactionsFields(m)
      [] kind = "blocks" -> BlocksFields(m)
      [] kind = "request" -> ReqBlockFields(m)

Wire(kind, m, ttl) ==
    IF IsPBFT(kind) THEN PacketEncode(PBFTPacketType(kind), ttl, InList(Streamed(Fields(kind, m))))
    ELSE IF IsRaft(kind) THEN RaftEncode(kind, Fields(kind, m))
    ELSE SyncEncode(kind, Fields(kind, m))

Populate(kind, d) ==
    CASE kind = "prepare" -> PreparePopulate(d)
      [] kind \in {"sign", "commit", "view change"} -> PBFTPopulate(d)
      [] kind = "vote" -> VoteReqPopulate(d)
      [] kind = "vote resp" -> VoteRespPopulate(d)
      [] kind = "heartbeat" -> HeartBeatPopulate(d)
      [] kind = "heartbeat resp" -> HeartBeatRespPopulate(d)
      [] kind = "status" -> StatusPopulate(d)
      [] kind = "transactions" -> TransactionsPopulate(d)
      [] kind = "blocks" -> BlocksPopulate(d)
      [] kind = "request" -> ReqBlockPopulate(d)

Received(kind, wire) ==
    Populate(kind, ListItems(IF IsPBFT(kind) THEN ListItems(PacketPopulate(wire).data)[1]
                             ELSE IF IsRaft(kind) THEN ListItems(RaftDecode(wire).data)[1]
                             ELSE SyncDecode(wire).rlp))

Send(kind, m) == \E ttl \in {1, 2} : sent' = {[kind |-> kind, msg |-> m, wire |-> Wire(kind, m, ttl)]}

\* A behaviour follows one message and what is made from it.
Fresh == held = {} /\ sent = {}

generatePrepare ==
    /\ Fresh
    /\ \E h \in Height, v \in View, i \in Index, t \in Time, b \in BlockHash :
           Send("prepare", PrepareOfBlock(h, b, v, i, t))
    /\ UNCHANGED held

\* handlePrepareMsg of what came in, by node i.
handlePrepare ==
    /\ \E s \in sent, i \in Index, t \in Time, b \in BlockHash :
           /\ held = {} /\ s.kind = "prepare"
           /\ held' = {PrepareExecuted(Received("prepare", s.wire), b, i, t)}
    /\ UNCHANGED sent

broadcastVote ==
    /\ \E req \in held, i \in Index, t \in Time, kind \in {"sign", "commit"} : Send(kind, VoteFor(req, i, t))
    /\ UNCHANGED held

rehandlePrepare ==
    /\ \E req \in held, v \in View, i \in Index, t \in Time : Send("prepare", PrepareAgain(req, v, i, t))
    /\ UNCHANGED held

broadcastViewChange ==
    /\ Fresh
    /\ \E h \in Height, v \in View, i \in Index, t \in Time, b \in BlockHash :
           Send("view change", ViewChangeOf(h, v, i, b, t))
    /\ UNCHANGED held

sendRaft ==
    /\ Fresh
    /\ \E i \in Index, t \in View, h \in Height, b \in BlockHash :
         LET base == [idx |-> i, term |-> t, height |-> h, blockHash |-> b] IN
         \/ Send("vote", base @@ [candidate |-> i, lastLeaderTerm |-> t, lastBlockNumber |-> h])
         \/ \E flag \in 0 .. 6 : Send("vote resp", base @@ [voteFlag |-> flag, lastLeaderTerm |-> t])
         \/ \E block \in {<<>>, BlockEncode(h, b)} :
                Send("heartbeat", base @@ [leader |-> i, uncommitedBlock |-> block,
                                           uncommitedBlockNumber |-> IF block = <<>> THEN 0 ELSE h])
         \/ Send("heartbeat resp", base @@ [uncommitedBlockHash |-> b])
    /\ UNCHANGED held

sendSync ==
    /\ Fresh
    /\ \E h \in Height, b, c \in BlockHash :
         \/ Send("status", [number |-> h, genesisHash |-> b, latestHash |-> c])
         \/ Send("transactions", [txs |-> <<b, c>>])
         \/ Send("blocks", [blocks |-> <<BlockEncode(h, b), BlockEncode(h, c)>>])
         \/ \E size \in Time : Send("request", [from |-> h, size |-> size])
    /\ UNCHANGED held

MessageInit == held = {} /\ sent = {}

MessageNext ==
    \/ generatePrepare \/ handlePrepare \/ broadcastVote \/ rehandlePrepare
    \/ broadcastViewChange \/ sendRaft \/ sendSync

MessageSpec == MessageInit /\ [][MessageNext]_messageVars

(***************************************************************************)
(* Properties.                                                             *)
(***************************************************************************)

\* Every message is read as it was written, and under its own packet type: the fields are
\* taken from the places they were put in, whatever their lengths.
ReadAsWritten ==
    \A s \in sent :
        /\ Received(s.kind, s.wire) = s.msg
        /\ IsPBFT(s.kind) => PacketPopulate(s.wire).id = PBFTPacketType(s.kind)
        /\ IsRaft(s.kind) => RaftDecode(s.wire).type = RaftPacketType(s.kind)
        /\ ~IsPBFT(s.kind) /\ ~IsRaft(s.kind) =>
               CheckPacket(s.wire) /\ SyncDecode(s.wire).type = SyncPacketType(s.kind)

\* Every PBFT request that goes out verifies with the key of the index it carries, a block
\* that is proposed again in a later view and the votes made from an executed block included.
BroadcastVerifies == \A s \in sent : IsPBFT(s.kind) => CheckSign(Received(s.kind, s.wire))

-----------------------------------------------------------------------------
(***************************************************************************)
(* Messages on a byte stream: P2PMessage between nodes and ChannelMessage  *)
(* between a node and its SDKs, with the topic of an AMOP message in front *)
(* of its data, and the receive loops of Session::doRead and               *)
(* ChannelSession::onRead, which get the stream in pieces cut anywhere.    *)
(* A header field is one byte of Base values, and a seq of SDK messages is *)
(* one byte too.                                                           *)
(***************************************************************************)
CONSTANTS Base,         \* byte values
          Format,       \* {"p2p", "channel"} or one of them
          TopicID,      \* ProtocolID::Topic
          ProtocolID,   \* the protocol ids in use, negative for answers
          Topic,        \* topics, byte strings
          Body,      \* data, byte strings
          MaxLength,    \* MAX_LENGTH of a channel message, header included
          BufferLength, \* bytes read at once
          MaxMessages

VARIABLES format,     \* the protocol of this connection
          framesSent,       \* messages written, oldest first
          pipe,       \* bytes under way
          data,       \* m_data, _recvProtocolBuffer
          delivered,  \* messages given to onMessage
          active      \* the session has not been dropped

frameVars == <<format, framesSent, pipe, data, delivered, active>>

HeaderLength == 4

-----------------------------------------------------------------------------
(* P2PMessage.  A protocol id is a signed number. *)

ToWire(i) == i % Base
FromWire(b) == IF b >= Base \div 2 THEN b - Base ELSE b

Magnitude(i) == IF i < 0 THEN -i ELSE i

P2PEncode(m) ==
    <<(HeaderLength + Len(m.buffer)) % Base, ToWire(m.protocolID), m.packetType, m.seq>> \o m.buffer

P2PDecoded(b) ==
    [protocolID |-> FromWire(b[2]), packetType |-> b[3], seq |-> b[4], buffer |-> SubSeq(b, 5, b[1])]

EncodeAMOPBuffer(m, topic) ==
    IF Magnitude(m.protocolID) # TopicID THEN m
    ELSE [m EXCEPT !.buffer = <<Len(topic)>> \o topic \o @]

DecodeAMOPBuffer(m) ==
    [topic |-> SubSeq(m.buffer, 2, m.buffer[1] + 1), data |-> SubSeq(m.buffer, m.buffer[1] + 2, Len(m.buffer))]

isRequestPacket(m) == m.protocolID > 0

getResponceProtocolID(m) == IF isRequestPacket(m) THEN -m.protocolID ELSE 0

-----------------------------------------------------------------------------
(* ChannelMessage and TopicChannelMessage.  The topic is counted with its  *)
(* own length byte.                                                        *)

ChannelEncode(m) == <<(HeaderLength + Len(m.data)) % Base, m.type, m.seq, m.result>> \o m.data

ChannelDecoded(b) == [type |-> b[2], seq |-> b[3], result |-> b[4], data |-> SubSeq(b, 5, b[1])]

SetTopicAndData(topic, d) == <<(Len(topic) + 1) % Base>> \o topic \o d

TopicOf(m) == SubSeq(m.data, 2, m.data[1])
DataOf(m) == SubSeq(m.data, m.data[1] + 1, Len(m.data))

-----------------------------------------------------------------------------
(* The receive loop *)

Incomplete == 0
Error == -1

\* decode: what it returns for the bytes at hand.
Result(b) ==
    IF Len(b) < HeaderLength THEN Incomplete
    ELSE IF format = "channel" /\ b[1] > MaxLength THEN Error
    ELSE IF Len(b) < b[1] THEN Incomplete
    ELSE b[1]

Decoded(b) == IF format = "p2p" THEN P2PDecoded(b) ELSE ChannelDecoded(b)

\* One message for every piece that is read.
Loop_Once(bytes) ==
    IF Result(bytes) <= 0 THEN [got |-> <<>>, rest |-> bytes, ok |-> Result(bytes) = Incomplete]
    ELSE [got |-> <<Decoded(bytes)>>, rest |-> SubSeq(bytes, Result(bytes) + 1, Len(bytes)), ok |-> TRUE]

\* decode, onMessage, erase, until the result is not a length.
Loop(bytes) ==
    LET After[b \in {SubSeq(bytes, i, Len(bytes)) : i \in 1 .. Len(bytes) + 1}] ==
            IF Result(b) <= 0 THEN [got |-> <<>>, rest |-> b, ok |-> Result(b) = Incomplete]
            ELSE LET more == After[SubSeq(b, Result(b) + 1, Len(b))]
                 IN  [more EXCEPT !.got = <<Decoded(b)>> \o @]
    IN  After[bytes]

Read ==
    /\ active
    /\ \E n \in 1 .. BufferLength :
         /\ n <= Len(pipe)
         /\ pipe' = SubSeq(pipe, n + 1, Len(pipe))
         /\ LET loop == Loop(data \o SubSeq(pipe, 1, n))
            IN  /\ delivered' = delivered \o loop.got
                /\ data' = loop.rest
                /\ active' = loop.ok
    /\ UNCHANGED <<format, framesSent>>

-----------------------------------------------------------------------------

Put(m, wire) ==
    /\ active /\ Len(framesSent) < MaxMessages
    /\ framesSent' = Append(framesSent, m)
    /\ pipe' = pipe \o wire
    /\ UNCHANGED <<format, data, delivered, active>>

SendP2P ==
    /\ format = "p2p"
    /\ \E id \in ProtocolID, topic \in Topic, d \in Body :
         LET m == [protocolID |-> id, packetType |-> 1, seq |-> Len(framesSent), buffer |-> d]
             amop == EncodeAMOPBuffer(m, topic)
         IN  Put([m |-> amop, topic |-> topic, data |-> d], P2PEncode(amop))

SendChannel ==
    /\ format = "channel"
    /\ \E topic \in Topic, d \in Body :
         LET m == [type |-> 1, seq |-> Len(framesSent), result |-> 0, data |-> SetTopicAndData(topic, d)]
         IN  Put([m |-> m, topic |-> topic, data |-> d], ChannelEncode(m))

FrameInit ==
    /\ format \in Format
    /\ framesSent = <<>> /\ delivered = <<>> /\ pipe = <<>> /\ data = <<>>
    /\ active = TRUE

FrameNext == SendP2P \/ SendChannel \/ Read

FrameSpec == FrameInit /\ [][FrameNext]_frameVars

(***************************************************************************)
(* Properties.                                                             *)
(***************************************************************************)

Message(i) == framesSent[i].m

\* However the stream is cut, the messages handed on are the ones written, in their order;
\* nothing is left when all the bytes have come, and only a message over the length limit
\* of the SDK protocol ends the session.
FramesSurvive ==
    /\ Len(delivered) <= Len(framesSent)
    /\ \A i \in DOMAIN delivered : delivered[i] = Message(i)
    /\ active /\ pipe = <<>> => Len(delivered) = Len(framesSent) /\ data = <<>>
    /\ ~active => format = "channel" /\
           \E i \in DOMAIN framesSent : Len(ChannelEncode(Message(i))) > MaxLength

\* The topic and the data of an AMOP message come out as they were put in, on both
\* protocols, and a node answers a request with the negated protocol id.
TopicsSurvive ==
    \A i \in DOMAIN delivered :
        LET m == delivered[i] IN
        IF format = "channel" THEN TopicOf(m) = framesSent[i].topic /\ DataOf(m) = framesSent[i].data
        ELSE /\ Magnitude(m.protocolID) = TopicID =>
                    DecodeAMOPBuffer(m) = [topic |-> framesSent[i].topic, data |-> framesSent[i].data]
             /\ isRequestPacket(m) => FromWire(ToWire(getResponceProtocolID(m))) = -m.protocolID
=============================================================================
