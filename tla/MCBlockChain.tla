---------------------------- MODULE MCBlockChain ----------------------------
(***************************************************************************)
(* A chain of three blocks for BlockChain and a block of another fork, and *)
(* the executions that a run explores.                                     *)
(***************************************************************************)
EXTENDS BlockChain, FiniteSetsExt, TLC

CONSTANTS n1, n2

NewBlock(hash, num, parent, txs, config, change) ==
    [hash |-> hash, number |-> num, parent |-> parent, txs |-> txs,
     config |-> config, change |-> change]

MCGenesis == NewBlock("g", 0, "0", <<>>, 1000, Nothing)
B1 == NewBlock("b1", 1, "g", <<"t1", "t2">>, Nothing, Nothing)
B2 == NewBlock("b2", 2, "b1", <<"t3">>, 2000, [node |-> n1, type |-> "observer"])
B3 == NewBlock("b3", 3, "b2", <<"t4">>, Nothing, [node |-> n2, type |-> "observer"])
C2 == NewBlock("c2", 2, "c1", <<"t3">>, Nothing, Nothing)

MCBlocks == {B1, B2, B3, C2}
MCInitialType == [n \in NodeID |-> "miner"]

Symmetry == Permutations(Committer) \cup Permutations(Reader)

\* Two committers can write the same block again and again; look at runs in
\* which one block is written a second time.
OneWrittenTwice ==
    /\ \A i \in DOMAIN db.number2hash : Len(db.number2hash[i]) <= 2
    /\ Cardinality({i \in DOMAIN db.number2hash : Len(db.number2hash[i]) = 2}) <= 1

\* Concurrent misses of one block leave stale hashes in the FIFO, without a
\* bound of their own; look at runs with at most three of them.
FewStaleHashes == Len(blockCache.fifo) <= CacheSize + 4

\* A thread starts with the next block or with the one another thread has just
\* committed.
RecentBlocks ==
    \A c \in Committer : committer[c].pc = "number" => committer[c].block.number >= number

OneCommitter == failures = 0 /\ WrittenOnce /\ \E c \in Committer : committer[c] = Idle
OneReader == \E r \in Reader : reader[r] = NoQuery
TwoCommitters ==
    /\ OneReader /\ OneWrittenTwice
    /\ configCache.number = -1 /\ nodeListCache["observer"].number = -1

OnlyLookups ==
    /\ \A r \in Reader : reader[r].op \in {NoQuery.op, "tx", "block"}
    /\ configCache.number = -1 /\ \A t \in Type : nodeListCache[t].number = -1

OnlyTables ==
    /\ \A r \in Reader : reader[r].op \notin {"tx", "block"}
    /\ blockCache.fifo = <<>>

(* Two readers that look up blocks or query tables beside one committer, or  *)
(* one reader, who asks the tables for miners only, beside two committers, a *)
(* block that is written twice and a failure.                                *)
Scenarios ==
    /\ RecentBlocks
    /\ OneCommitter \/ TwoCommitters
    /\ (OnlyLookups /\ FewStaleHashes) \/ OnlyTables

-----------------------------------------------------------------------------
\* totalTransactionCount counts the transactions of every block that has been
\* written, a second write of the same block by another thread included.
TotalIsSum ==
    LET written == UNION {{i} \X (1..Len(db.number2hash[i])) : i \in 1..MaxNumber}
    IN  db.total = MapThenSumSet(LAMBDA w : Len(BlockOf(db.number2hash[w[1]][w[2]]).txs), written)

\* Lookups find what they ask for, and what the blocks hold adds up to the total
\* that is kept beside them.
LookupsAnswer == TotalIsSum /\ LookupsFind
=============================================================================
