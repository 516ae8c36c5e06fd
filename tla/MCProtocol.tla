----------------------------- MODULE MCProtocol -----------------------------
(* What the nodes of a group must agree on, each part on an instance of its own:
   the commit lock of PBFT, with the variables and constants of PBFTLock; Raft, the
   timers, the sealer and the broadcast; and the encodings and the arithmetic that
   give the same bytes and the same results everywhere.                           *)
EXTENDS PBFTLock, TLC

\* Nothing tells the seals apart.
Symmetry == Permutations(Seal)

Ring == {"a", "b", "c", "d", "e", "o"}
RingLinks == {{"a", "b"}, {"a", "c"}, {"b", "c"}, {"b", "d"}, {"c", "e"}, {"a", "o"}, {"o", "e"}}

\* part is the component of a behaviour and never changes; v1 and the others stand for
\* the variables of the component, in the order of its INSTANCE, and are 0 when it has
\* no use for them.
VARIABLES
    part, v1, v2, v3, v4, v5, v6, v7, v8, v9, v10, v11, v12, v13, v14, v15

\* Raft elections over two terms between two nodes, with two messages under way.
Duel == INSTANCE Raft WITH
    term <- v1, state <- v2, lastLeaderTerm <- v3, firstVote <- v4,
    heartbeatCount <- v5, voteState <- v6, chain <- v7, uncommitted <- v8,
    waiting <- v9, fingerPrint <- v10, memberBlock <- v11, msgs <- v12,
    restarts <- v13,
    Node <- {"a", "b"}, Electable <- {"a", "b"}, MaxTerm <- 2, MaxNumber <- 0,
    MaxMsgs <- 2, HeartbeatCount <- 1, MaxRestarts <- 0

\* Raft elections over two terms between two of three nodes, one message at a time.
Votes == INSTANCE Raft WITH
    term <- v1, state <- v2, lastLeaderTerm <- v3, firstVote <- v4,
    heartbeatCount <- v5, voteState <- v6, chain <- v7, uncommitted <- v8,
    waiting <- v9, fingerPrint <- v10, memberBlock <- v11, msgs <- v12,
    restarts <- v13,
    Node <- {"a", "b", "c"}, Electable <- {"a", "b"}, MaxTerm <- 2, MaxNumber <- 0,
    MaxMsgs <- 1, HeartbeatCount <- 1, MaxRestarts <- 0

\* One Raft leader, one block and a restart of a node.
Commits == INSTANCE Raft WITH
    term <- v1, state <- v2, lastLeaderTerm <- v3, firstVote <- v4,
    heartbeatCount <- v5, voteState <- v6, chain <- v7, uncommitted <- v8,
    waiting <- v9, fingerPrint <- v10, memberBlock <- v11, msgs <- v12,
    restarts <- v13,
    Node <- {"a", "b", "c"}, Electable <- {"a"}, MaxTerm <- 1, MaxNumber <- 1,
    MaxMsgs <- 2, HeartbeatCount <- 1, MaxRestarts <- 1

\* elect: The election timer of a Raft node over nine units of time; a heartbeat is
\* sent each unit.
\* view: The view-change timer with a timeout of two units.
Clocks == INSTANCE ConsensusTimers WITH
    raftNow <- v1, state <- v2, min <- v3, max <- v4, electTimeout <- v5,
    lastElect <- v6, lastSent <- v7, lastReset <- v8, heard <- v9,
    now <- v1, lastConsensus <- v2, lastSign <- v3, changeCycle <- v4, asked <- v5,
    timeouts <- v6, halfway <- v7,
    MinInit <- 2, MaxInit <- 6, Ratio <- 2, UnsignedSize <- 32, MaxRaftTime <- 9,
    ViewTimeout <- 2, kMaxChangeCycle <- 2, MaxTime <- 16

\* The sealer thread beside block sync, the engine's callbacks and a limit of one or
\* three transactions.
Sealing == INSTANCE Sealer WITH
    chain <- v1, limit <- v2, commit <- v3, syncBlock <- v4, callback <- v5,
    engine <- v6, locked <- v7, leader <- v8, interval <- v9, pool <- v10,
    sealing <- v11, maxTx <- v12, step <- v13, proposed <- v14, started <- v15,
    Limit <- {1, 3}, Word <- 16, MaxPool <- 3, MaxNumber <- 2

\* A consensus message over two hops between five miners and an observer.
Near == INSTANCE PBFTBroadcast WITH
    cache <- v1, net <- v2, got <- v3, sent <- v4, clears <- v5,
    Node <- Ring, Miner <- {"a", "b", "c", "d", "e"}, Link <- RingLinks,
    Key <- {"k1"}, PacketType <- [k1 |-> "sign"], Generator <- [k1 |-> "a"],
    Height <- [k1 |-> 11], Highest <- [n \in Ring |-> IF n = "b" THEN 12 ELSE 1],
    ForwardGap <- 10, CacheLimit <- 1, MaxClears <- 1, maxTTL <- 2

\* The same over three hops.
Far == INSTANCE PBFTBroadcast WITH
    cache <- v1, net <- v2, got <- v3, sent <- v4, clears <- v5,
    Node <- Ring, Miner <- {"a", "b", "c", "d", "e"}, Link <- RingLinks,
    Key <- {"k1"}, PacketType <- [k1 |-> "sign"], Generator <- [k1 |-> "a"],
    Height <- [k1 |-> 11], Highest <- [n \in Ring |-> IF n = "b" THEN 12 ELSE 1],
    ForwardGap <- 10, CacheLimit <- 1, MaxClears <- 1, maxTTL <- 3

\* reader: All byte strings of up to four bytes of eight values, and two accesses by
\* index.
\* stream: All nestings of two items and two lists.
Items == INSTANCE RLPItems WITH
    data <- v1, last <- v2, asked <- v3,
    stream <- v1, open <- v2, typed <- v3,
    ByteBase <- 8, c_rlpDataImmLenStart <- 2, c_rlpListStart <- 5,
    c_rlpMaxLengthBytes <- 1, MaxData <- 4, Datum <- {<<>>, <<1>>, <<0, 3>>},
    Number <- {0, 60}, HashSize <- 2, MaxItems <- 2, MaxDepth <- 2, MaxOut <- 4

\* hexprefix: Pairs of nibble paths at every offset.
\* trie: Two changes of a trie with keys that share prefixes and values in and out
\* of line.
Trie == INSTANCE TrieDB WITH
    d1 <- v1, o1 <- v2, d2 <- v3, o2 <- v4, leaf <- v5,
    root <- v1, db <- v2, contents <- v3, changes <- v4,
    NibbleBase <- 4, MaxBytes <- 1, Radix <- 2,
    Key <- {<<0, 0, 0, 0>>, <<0, 0, 1, 0>>, <<1, 0, 0, 0>>, <<1, 0, 1, 0>>},
    Value <- {1, 2}, Big <- {2}, HashSize <- 8, MaxChanges <- 2

\* block: Four operations on two blocks and their encodings.
\* transaction: Six operations on one transaction.
Objects == INSTANCE Block WITH
    blk <- v1, wire <- v2, ops <- v3,
    trans <- v1, forced <- v2, txWire <- v3, refused <- v4, txOps <- v5,
    Obj <- {"a", "b"}, Tx <- {"t"}, Value <- {1, 2}, MaxNumber <- 1, MaxList <- 1,
    MaxGas <- 0, MaxOps <- 4, Signer <- {"s1", "s2"}, Number <- {1, 2},
    MaxTxOps <- 6

\* messages: The consensus and sync packets over small fields.
\* frames: Two messages of either framing, cut anywhere by the socket.
Wire == INSTANCE Messages WITH
    held <- v1, sent <- v2,
    format <- v1, framesSent <- v2, pipe <- v3, data <- v4, delivered <- v5,
    active <- v6,
    ByteBase <- 64, c_rlpDataImmLenStart <- 16, c_rlpListStart <- 40,
    c_rlpMaxLengthBytes <- 1, Index <- {0, 1}, View <- {0, 17}, Height <- {1, 20},
    Time <- {70}, BlockHash <- {<<0, 3>>, <<20, 63>>}, HashSize <- 2, IntSize <- 2,
    SyncPacketIDBase <- 1, Base <- 16, Format <- {"p2p", "channel"}, TopicID <- 3,
    ProtocolID <- {3, -3, 2}, Topic <- {<<>>, <<5>>, <<4, 9>>},
    Body <- {<<>>, <<7>>, <<4, 0, 4>>}, MaxLength <- 9, BufferLength <- 5,
    MaxMessages <- 2

\* text: Byte strings of up to three bytes and texts of up to five characters.
\* mask: All sets of up to four numbers, with one more range.
Core == INSTANCE DevCore WITH
    data <- v1, text <- v2,
    all <- v1, ranges <- v2, members <- v3, other <- v4,
    Unit <- 1, DecimalBase <- 3, HashSize <- 2, MaxData <- 3, MaxText <- 5, Top <- 4

\* abi: All lists of up to three parameters.
\* bloom: Receipts of up to two logs with up to two topics.
Eth == INSTANCE EthCodec WITH
    params <- v1,
    log <- v1, receipt <- v2,
    in <- v1,
    a <- v1, b <- v2,
    Base <- 8, WordSize <- 2, AddressSize <- 1,
    Type <- {"u256", "u160", "byte", "bool", "string32", "string64", "string"},
    Char <- {0, 5}, MaxString <- 3, MaxParams <- 3, Item <- {"a", "b", "c"},
    Sha3 <- [a |-> <<1, 2, 3, 0>>, b |-> <<0, 1, 2, 2>>, c |-> <<3, 3, 1, 2>>],
    ByteBits <- 2, BloomSize <- 4, Parts <- 2, MaxLogs <- 2, MaxTopics <- 2,
    NumberBits <- 3, MaxLength <- 0, Bytes <- 1

\* modexp: All inputs of up to seven bytes of four values.
\* words: All pairs of words of three bytes of two bits.
Words == INSTANCE EthCodec WITH
    params <- v1,
    log <- v1, receipt <- v2,
    in <- v1,
    a <- v1, b <- v2,
    Base <- 4, WordSize <- 1, AddressSize <- 1, Type <- {}, Char <- {}, MaxString <- 0,
    MaxParams <- 0, Item <- {}, Sha3 <- <<>>, ByteBits <- 2, BloomSize <- 1, Parts <- 1,
    MaxLogs <- 0, MaxTopics <- 0, NumberBits <- 2, MaxLength <- 7, Bytes <- 3

-----------------------------------------------------------------------------
\* The variables that a component with this many of them leaves alone.
Zero13 == v14 = 0 /\ v15 = 0
Zero9 == v10 = 0 /\ v11 = 0 /\ v12 = 0 /\ v13 = 0 /\ Zero13
Zero7 == v8 = 0 /\ v9 = 0 /\ Zero9
Zero6 == v7 = 0 /\ Zero7
Zero5 == v6 = 0 /\ Zero6
Zero4 == v5 = 0 /\ Zero5
Zero3 == v4 = 0 /\ Zero4
Zero2 == v3 = 0 /\ Zero3
Zero1 == v2 = 0 /\ Zero2
Zero0 == v1 = 0 /\ Zero1
Same13 == UNCHANGED <<v14, v15>>
Same9 == UNCHANGED <<v10, v11, v12, v13>> /\ Same13
Same7 == UNCHANGED <<v8, v9>> /\ Same9
Same6 == UNCHANGED <<v7>> /\ Same7
Same5 == UNCHANGED <<v6>> /\ Same6
Same4 == UNCHANGED <<v5>> /\ Same5
Same3 == UNCHANGED <<v4>> /\ Same4
Same2 == UNCHANGED <<v3>> /\ Same3
Same1 == UNCHANGED <<v2>> /\ Same2
Same0 == UNCHANGED <<v1>> /\ Same1

all == <<vars, part, v1, v2, v3, v4, v5, v6, v7, v8, v9, v10, v11, v12, v13, v14, v15>>

PartInit ==
    /\ Init
    /\ \/ part = "lock" /\ Zero0
       \/ part = "duel" /\ Duel!Init /\ Zero13
       \/ part = "votes" /\ Votes!Init /\ Zero13
       \/ part = "blocks" /\ Commits!Init /\ Zero13
       \/ part = "elect" /\ Clocks!RaftInit /\ Zero9
       \/ part = "sealer" /\ Sealing!Init
       \/ part = "view" /\ Clocks!ViewInit /\ Zero7
       \/ part = "near" /\ Near!Init /\ Zero5
       \/ part = "far" /\ Far!Init /\ Zero5
       \/ part = "reader" /\ Items!ReadInit /\ Zero3
       \/ part = "stream" /\ Items!WriteInit /\ Zero3
       \/ part = "hexprefix" /\ Trie!KeyInit /\ Zero5
       \/ part = "trie" /\ Trie!TrieInit /\ Zero4
       \/ part = "block" /\ Objects!BlockInit /\ Zero3
       \/ part = "transaction" /\ Objects!TxInit /\ Zero5
       \/ part = "messages" /\ Wire!MessageInit /\ Zero2
       \/ part = "frames" /\ Wire!FrameInit /\ Zero6
       \/ part = "text" /\ Core!TextInit /\ Zero2
       \/ part = "mask" /\ Core!MaskInit /\ Zero4
       \/ part = "abi" /\ Eth!AbiInit /\ Zero1
       \/ part = "bloom" /\ Eth!BloomInit /\ Zero2
       \/ part = "modexp" /\ Words!ExpInit /\ Zero1
       \/ part = "words" /\ Words!WordInit /\ Zero2

PartNext ==
    /\ UNCHANGED part
    /\ \/ part = "lock" /\ Next /\ Same0
       \/ part = "duel" /\ Duel!Next /\ Same13 /\ UNCHANGED vars
       \/ part = "votes" /\ Votes!Next /\ Same13 /\ UNCHANGED vars
       \/ part = "blocks" /\ Commits!Next /\ Same13 /\ UNCHANGED vars
       \/ part = "elect" /\ Clocks!RaftNext /\ Same9 /\ UNCHANGED vars
       \/ part = "sealer" /\ Sealing!Next /\ UNCHANGED vars
       \/ part = "view" /\ Clocks!ViewNext /\ Same7 /\ UNCHANGED vars
       \/ part = "near" /\ Near!Next /\ Same5 /\ UNCHANGED vars
       \/ part = "far" /\ Far!Next /\ Same5 /\ UNCHANGED vars
       \/ part = "reader" /\ Items!ReadNext /\ Same3 /\ UNCHANGED vars
       \/ part = "stream" /\ Items!WriteNext /\ Same3 /\ UNCHANGED vars
       \/ part = "hexprefix" /\ Trie!KeyNext /\ Same5 /\ UNCHANGED vars
       \/ part = "trie" /\ Trie!TrieNext /\ Same4 /\ UNCHANGED vars
       \/ part = "block" /\ Objects!BlockNext /\ Same3 /\ UNCHANGED vars
       \/ part = "transaction" /\ Objects!TxNext /\ Same5 /\ UNCHANGED vars
       \/ part = "messages" /\ Wire!MessageNext /\ Same2 /\ UNCHANGED vars
       \/ part = "frames" /\ Wire!FrameNext /\ Same6 /\ UNCHANGED vars
       \/ part = "text" /\ Core!TextNext /\ Same2 /\ UNCHANGED vars
       \/ part = "mask" /\ Core!MaskNext /\ Same4 /\ UNCHANGED vars
       \/ part = "abi" /\ Eth!AbiNext /\ Same1 /\ UNCHANGED vars
       \/ part = "bloom" /\ Eth!BloomNext /\ Same2 /\ UNCHANGED vars
       \/ part = "modexp" /\ Words!ExpNext /\ Same1 /\ UNCHANGED vars
       \/ part = "words" /\ Words!WordNext /\ Same2 /\ UNCHANGED vars

PartSpec == PartInit /\ [][PartNext]_all

-----------------------------------------------------------------------------
(* Properties *)

\* RaftEngine: the last leader's term of a node is at most its term, equal for a
\* leader and below it for a candidate, whatever step takes a term over or back; a
\* leader is not deposed by a request of a term not above its own
\* (handleVoteRequest); and the window of the election timeout stays within its
\* boundary (increaseElectTime, recoverElectTime).
RaftOrder ==
    /\ part = "duel" => Duel!TermOrder /\ Duel!OldVoteReqRefused
    /\ part = "votes" => Votes!TermOrder /\ Votes!OldVoteReqRefused
    /\ part = "blocks" => Commits!TermOrder /\ Commits!OldVoteReqRefused
    /\ part = "elect" => Clocks!WindowKept

\* TimeManager::changeView: a view change that was asked for is taken at the next
\* check, however long the back-off. Sealer::reportNewBlock and resetSealingBlock:
\* no callback leaves the sealer with a block that can never be proposed.
EngineTimely ==
    /\ part = "view" => Clocks!AskedIsTimely
    /\ part = "sealer" => Sealing!SealingFollowsChain

\* RaftEngine::checkElectTimeout: a follower leaves its leader only after a whole
\* heartbeat timeout of silence. TimeManager::updateChangeCycle: view changes nobody
\* asked for are further and further apart.
WaitsGrow ==
    [][ /\ part = "elect" => Clocks!LeavesSilence
        /\ part = "view" => Clocks!WaitsLonger ]_all

\* PBFTEngine::broadcastMsg and forwardMsg: when nothing is under way, every miner
\* within the hops of the ttl has the message; a node does not send it to a peer
\* twice while the mark is kept (broadcastMark); and it goes only to miners, never
\* back to its generator (broadcastFilter).
GossipReaches ==
    /\ part = "near" => Near!EveryoneInReach
    /\ part = "far" => Far!SentOnce /\ Far!StaysInReach

\* What is written is read back. RLPStream's headers give the encoding of what was
\* appended, and toInt and toHash read it; a block whose hash is not stale, a PBFT, Raft
\* or sync packet, a frame of either protocol wherever the socket cuts it, an AMOP
\* topic, base64, hexadecimal and decimal text and ABI parameters, bools after the first
\* place apart, come back as they were, the dynamic ones where their offset says;
\* FixedHash counts as its big-endian number; and the bloom of a receipt matches every
\* address and topic of its logs.
CodecsInvert ==
    /\ part = "stream" => Items!StreamEncodes /\ Items!ReadsBack
    /\ part = "block" => Objects!DecodesBack
    /\ part = "messages" => Wire!ReadAsWritten
    /\ part = "frames" => Wire!FramesSurvive /\ Wire!TopicsSurvive
    /\ part = "text" => Core!Base64Returns /\ Core!NumberReturns /\ Core!PaddingKeeps
    /\ part = "text" => Core!HashIsNumber /\ Core!HexDecides
    /\ part = "abi" => Eth!AbiRoundTrip /\ Eth!AbiAligned
    /\ part = "bloom" => Eth!NoLogMissed

\* RLP::requireGood and actualSize: an encoding that the strict reader takes is the
\* only one of its item, and operator[] gives the item of the index asked, whatever
\* was asked before. The three overloads of hexPrefixEncode agree, NibbleSlice reads
\* their result back, and two paths encode as their concatenation.
EncodingsUnique ==
    /\ part = "reader" => Items!Canonical /\ Items!IndexedRight
    /\ part = "hexprefix" => Trie!EncodersAgree /\ Trie!KeysJoin

\* GenericTrieDB: the root depends on the contents and not on the order of inserts
\* and removals; the database holds exactly the nodes reachable from the root
\* (killNode, forceInsertNode); and at and the iterator give the contents in the
\* order of the keys.
TrieIsMap ==
    /\ part = "trie" => Trie!RootOfContents /\ Trie!ReferencesCounted /\ Trie!ReadsContents

\* Block, BlockHeader and Transaction: a remembered hash, encoding or sender is that
\* of the present fields, those that appendExtraDataItem replaced apart, and
\* Transaction::decode takes a transaction for its signer's only as it was signed; the
\* signatures of a consensus message that a node makes from another cover its own
\* fields (PrepareReq and its copies).
HashesFresh ==
    /\ part = "block" => Objects!MemosFresh
    /\ part = "transaction" => Objects!RememberedIsTrue /\ Objects!TakenAsSigned
    /\ part = "messages" => Wire!BroadcastVerifies

\* The instructions SDIV, SMOD, SAR, SHL, SHR, SIGNEXTEND and EXP are the arithmetic
\* of signed and unsigned words; the precompiled modexp reads its input as if zeros
\* followed it and charges for the bits of the exponent; and RangeMask keeps its
\* ranges apart and in order and computes the union, difference and inversion of
\* sets.
ArithmeticRight ==
    /\ part = "words" => Words!SignedArithmetic /\ Words!ShiftArithmetic /\ Words!Extension /\ Words!Exponentiation
    /\ part = "modexp" => Words!ReadAsPadded /\ Words!ExponentIsPaid
    /\ part = "mask" => Core!RangesApart /\ Core!MaskIsTheSet
=============================================================================
