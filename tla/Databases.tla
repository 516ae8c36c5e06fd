----------------------------- MODULE Databases ------------------------------
\* The databases under the tables and the trie: disk encryption, and the overlay
\* of trie nodes.
EXTENDS Integers, Sequences

(***************************************************************************)
(* The databases of a node with and without disk encryption: LevelDB,      *)
(* BasicLevelDB and EncryptedLevelDB, the KeyCenter that turns the cipher  *)
(* data key of the configuration into the data key, and the three uses of  *)
(* them at start-up: the private key file (EncryptedFile), the block       *)
(* database (DBInitializer) and the state database (LevelDB).              *)
(*                                                                         *)
(* The operator edits the configuration and re-encrypts the key file while *)
(* the node is down; the node can stop at any point, and the key centre is *)
(* reachable or not.  A stored value is the pair of the data key it is     *)
(* encrypted with (Plain for none) and the value.                          *)
(***************************************************************************)
CONSTANTS
    Cipher,        \* cipher data keys an operator can configure
    DataKey,       \* DataKey[c]: the hash of what the key centre answers for c
    CentreState,   \* the states of the key centre: "up", "down", "error"
    FatalEnabled,  \* log.FATAL-ENABLED: easylogging aborts only then
    Key, Value,    \* of the records
    MaxEdits,      \* bound: number of edits of the configuration
    MaxWrites      \* bound: number of writes

VARIABLES
    config,    \* g_BCOSConfig.diskEncryption: [enable, cipherDataKey]
    keyFile,   \* what the private key file is encrypted with
    centre,    \* the state of the key centre
    cache,     \* m_lastQueryCipherDataKey and m_lastRcvDataKey
    stage,     \* how far the start-up is: "down", "keyFile", "block", "state", "up"
    db,        \* db[d]: [stamp, data]: the key record and the other records
    handle,    \* m_dataKey of the open handles
    written,   \* what the program stored last, with NoValue for nothing
    edits, writes

diskVars == <<config, keyFile, centre, cache, stage, db, handle, written, edits, writes>>
run == <<stage, handle, cache>>

-----------------------------------------------------------------------------
Plain == "plain"
NoCipher == ""
NoKey == "none"
NoValue == "nothing"
Database == {"block", "state"}
Absent == <<NoKey, NoValue>>
EmptyCache == <<NoCipher, NoKey>>
FileOf(c) == IF c.enable THEN DataKey[c.cipherDataKey] ELSE Plain

TypeOK ==
    /\ config \in [enable : BOOLEAN, cipherDataKey : Cipher \cup {NoCipher}]
    /\ centre \in CentreState
    /\ stage \in {"down", "keyFile", "block", "state", "up"}
    /\ \A d \in Database : db[d].stamp \in Cipher \cup {NoCipher}
    /\ handle \in [Database -> {DataKey[c] : c \in Cipher} \cup {Plain, NoKey}]

DiskInit ==
    /\ \E c \in Cipher :
        config \in {[enable |-> FALSE, cipherDataKey |-> NoCipher],
                    [enable |-> TRUE, cipherDataKey |-> c]}
    /\ keyFile = FileOf(config)
    /\ centre = "up"
    /\ cache = EmptyCache
    /\ stage = "down"
    /\ db = [d \in Database |-> [stamp |-> NoCipher, data |-> [k \in Key |-> Absent]]]
    /\ handle = [d \in Database |-> NoKey]
    /\ written = [d \in Database |-> [k \in Key |-> NoValue]]
    /\ edits = 0 /\ writes = 0

-----------------------------------------------------------------------------
(* The key centre *)

\* KeyCenterHttpClient::connect throws when nobody listens.
connects == centre /= "down"

\* callMethod rethrows with no exception in flight when the HTTP status is not
\* 200 or the answer is no JSON: the process terminates.
callMethod(c) == IF centre = "error" THEN NoKey ELSE DataKey[c]

\* getDataKey: a cached answer needs no connection; an empty cipher key, a
\* refused connection and an error answer are exceptions, and they clear the
\* cache.  The result is the pair of the key (NoKey: no answer) and the cache.
getDataKey(c) ==
    IF c = NoCipher THEN [key |-> NoKey, cache |-> cache]
    ELSE IF cache[1] = c THEN [key |-> cache[2], cache |-> cache]
    ELSE IF connects /\ callMethod(c) /= NoKey THEN [key |-> callMethod(c), cache |-> <<c, callMethod(c)>>]
    ELSE [key |-> NoKey, cache |-> EmptyCache]

\* EncryptedFile::decryptContents, or the plain file.
decryptContents == IF config.enable THEN getDataKey(config.cipherDataKey).key ELSE Plain

-----------------------------------------------------------------------------
(* Opening *)

getKeyOfDatabase(d) == db[d].stamp
empty(d) == db[d].stamp = NoCipher /\ \A k \in Key : db[d].data[k] = Absent

\* BasicLevelDB accepts every database but one with a key record: SIGTERM,
\* whose handler is installed only after the initialization.
BasicOpens(d) == db[d].stamp = NoCipher

\* EncryptedLevelDB: which databases checkOpenDBStatus accepts.
checkOpenDBStatus_NoCompare(d) ==
    IF empty(d) THEN "FirstCreation" ELSE IF getKeyOfDatabase(d) = NoCipher THEN "NoEncrypted" ELSE "Encrypted"
checkOpenDBStatus(d) ==
    IF empty(d) THEN "FirstCreation"
    ELSE IF getKeyOfDatabase(d) = NoCipher THEN "NoEncrypted"
    ELSE IF getKeyOfDatabase(d) /= config.cipherDataKey THEN "CipherKeyError"
    ELSE "Encrypted"

\* LOG(FATAL) aborts when the level is enabled; otherwise the constructor goes
\* on to fetch the data key.
EncryptedOpens(d) ==
    \/ checkOpenDBStatus(d) = "Encrypted"
    \/ checkOpenDBStatus(d) = "FirstCreation" /\ config.cipherDataKey /= NoCipher
    \/ ~FatalEnabled

setCipherDataKey(d) == [db EXCEPT ![d].stamp = config.cipherDataKey]

\* The process ends: its handles and the cache of its key centre are gone.
Exit == stage' = "down" /\ handle' = [d \in Database |-> NoKey] /\ cache' = EmptyCache

Opened(d, key, next) == handle' = [handle EXCEPT ![d] = key] /\ stage' = next

OpenBasic(d, next) ==
    /\ ~config.enable
    /\ \/ BasicOpens(d) /\ Opened(d, Plain, next) /\ UNCHANGED cache
       \/ ~BasicOpens(d) /\ Exit
    /\ UNCHANGED db

\* The key record of a new database is written before the data key is asked for.
OpenEncrypted(d, next) ==
    LET answer == getDataKey(config.cipherDataKey)
    IN  /\ config.enable
        /\ db' = IF EncryptedOpens(d) /\ checkOpenDBStatus(d) = "FirstCreation" THEN setCipherDataKey(d) ELSE db
        /\ IF EncryptedOpens(d) /\ answer.key /= NoKey
           THEN Opened(d, answer.key, next) /\ cache' = answer.cache
           ELSE Exit

OpenDB(d, next) ==
    /\ OpenBasic(d, next) \/ OpenEncrypted(d, next)
    /\ UNCHANGED <<config, keyFile, centre, written, edits, writes>>

-----------------------------------------------------------------------------
(* Start-up *)

\* SecureInitializer::initConfig reads the private key, through
\* EncryptedFile::decryptContents when encryption is enabled; a file that does
\* not decrypt or is no PEM file ends the process.
ReadKeyFile ==
    /\ stage = "keyFile"
    /\ IF decryptContents = keyFile
       THEN /\ stage' = "block"
            /\ cache' = IF config.enable THEN getDataKey(config.cipherDataKey).cache ELSE cache
            /\ UNCHANGED handle
       ELSE Exit
    /\ UNCHANGED <<config, keyFile, centre, db, written, edits, writes>>

Start ==
    /\ stage = "down"
    /\ stage' = "keyFile"
    /\ UNCHANGED <<config, keyFile, centre, cache, db, handle, written, edits, writes>>

OpenBlockDB == stage = "block" /\ OpenDB("block", "state")
OpenStateDB == stage = "state" /\ OpenDB("state", "up")

Stop ==
    /\ stage /= "down"
    /\ Exit
    /\ UNCHANGED <<config, keyFile, centre, db, written, edits, writes>>

-----------------------------------------------------------------------------
(* Reading and writing *)

\* EncryptedLevelDB::Put and Get, the write batch, and BasicLevelDB's plain ones.
encryptValue(d, v) == <<handle[d], v>>
insertSlice(d, v) == encryptValue(d, v)
decryptValue(d, r) == IF r[1] \in {handle[d], NoKey} THEN r[2] ELSE "exception"

Put(d, k, v) ==
    /\ handle[d] /= NoKey /\ writes < MaxWrites
    /\ db' = [db EXCEPT ![d].data[k] = encryptValue(d, v)]
    /\ written' = [written EXCEPT ![d][k] = v]
    /\ writes' = writes + 1
    /\ UNCHANGED <<config, keyFile, centre, run, edits>>

Delete(d, k) ==
    /\ handle[d] /= NoKey /\ writes < MaxWrites
    /\ db[d].data[k] /= Absent
    /\ db' = [db EXCEPT ![d].data[k] = Absent]
    /\ written' = [written EXCEPT ![d][k] = NoValue]
    /\ writes' = writes + 1
    /\ UNCHANGED <<config, keyFile, centre, run, edits>>

\* A batch with one value for every key.
Write(d, v) ==
    /\ handle[d] /= NoKey /\ writes < MaxWrites
    /\ db' = [db EXCEPT ![d].data = [k \in Key |-> insertSlice(d, v)]]
    /\ written' = [written EXCEPT ![d] = [k \in Key |-> v]]
    /\ writes' = writes + 1
    /\ UNCHANGED <<config, keyFile, centre, run, edits>>

-----------------------------------------------------------------------------
(* The environment *)

\* The operator edits the configuration and, or not, encrypts the key file anew.
Edit ==
    /\ stage = "down" /\ edits < MaxEdits
    /\ \E c \in Cipher \cup {NoCipher}, e \in BOOLEAN :
        /\ config' = [enable |-> e, cipherDataKey |-> c]
        /\ \/ UNCHANGED keyFile
           \/ e /\ c /= NoCipher /\ keyFile' = DataKey[c]
           \/ ~e /\ keyFile' = Plain
    /\ edits' = edits + 1
    /\ UNCHANGED <<centre, run, db, written, writes>>

CentreChanges ==
    /\ centre' \in CentreState \ {centre}
    /\ UNCHANGED <<config, keyFile, run, db, written, edits, writes>>

DiskNext ==
    \/ Start \/ ReadKeyFile \/ OpenBlockDB \/ OpenStateDB \/ Stop \/ Edit \/ CentreChanges
    \/ \E d \in Database, k \in Key :
        \/ \E v \in Value : Put(d, k, v)
        \/ Delete(d, k)
    \/ \E d \in Database, v \in Value : Write(d, v)

DiskSpec == DiskInit /\ [][DiskNext]_diskVars

-----------------------------------------------------------------------------
(* Properties *)

\* What Get of an open handle returns is what the program stored last, in this
\* run or in an earlier one, whatever was edited in the configuration between
\* them: no value is decrypted with another key or taken for plain.
ReadsLast ==
    \A d \in Database, k \in Key :
        handle[d] /= NoKey => decryptValue(d, db[d].data[k]) = written[d][k]

\* The key record of a database tells what its records are encrypted with: all
\* of them with the data key of the recorded cipher key, or none when there is
\* no key record.
StampTells ==
    \A d \in Database, k \in Key :
        db[d].data[k] /= Absent =>
            db[d].data[k][1] = IF db[d].stamp = NoCipher THEN Plain ELSE DataKey[db[d].stamp]

-----------------------------------------------------------------------------
(***************************************************************************)
(* OverlayDB of libdevcore: the nodes of a trie in memory in front of the  *)
(* nodes on disk, with commit, rollback and the retries of a failed write. *)
(* commit hands its batch over when it is tried the first time, so what is *)
(* tried again is an empty pointer, which LevelDB::commit refuses.         *)
(***************************************************************************)
CONSTANTS Node,        \* nodes of tries, by their hashes
          MaxRefs,     \* bound on the references to a node
          Attempts,    \* 10 in the code
          MaxFaults    \* bound on the writes that the disk fails

VARIABLES main,        \* m_main: the references to each node in memory, -1 for none ever
          aux,         \* m_aux: the keys of FatGenericTrieDB in memory
          disk,        \* the keys of m_db, nodes and the keys behind them
          pc,          \* where commit is: idle, write, done, exit
          batch,       \* the batch, or nothing once it was moved away
          attempt,
          faults,
          held         \* the nodes that commits have been asked to keep

overlayVars == <<main, aux, disk, pc, batch, attempt, faults, held>>

None == {<<"moved", "away">>}
AuxKey(n) == <<n, "aux">>
MainKey(n) == <<n, "main">>
NoNode == MaxRefs + 1
Count(n) == IF main[n] = NoNode THEN 0 ELSE main[n]

OverlayInit ==
    /\ main = [n \in Node |-> NoNode] /\ aux = {} /\ disk = {} /\ pc = "idle"
    /\ batch = {} /\ attempt = 0 /\ faults = 0 /\ held = {}

\* MemoryDB::lookup with m_enforceRefs unset, then the disk
Lookup(n) == main[n] # NoNode \/ MainKey(n) \in disk
LookupAux(n) == n \in aux \/ AuxKey(n) \in disk

Insert(n) ==
    /\ pc = "idle" /\ Count(n) < MaxRefs
    /\ main' = [main EXCEPT ![n] = Count(n) + 1]
    /\ UNCHANGED <<aux, disk, pc, batch, attempt, faults, held>>

\* A node that is only on disk stays there.
Kill(n) ==
    /\ pc = "idle" /\ Count(n) > 0
    /\ main' = [main EXCEPT ![n] = @ - 1]
    /\ UNCHANGED <<aux, disk, pc, batch, attempt, faults, held>>

InsertAux(n) ==
    /\ pc = "idle"
    /\ aux' = aux \cup {n}
    /\ UNCHANGED <<main, disk, pc, batch, attempt, faults, held>>

\* rollback leaves m_aux as it is.
Rollback ==
    /\ pc = "idle"
    /\ main' = [n \in Node |-> NoNode]
    /\ UNCHANGED <<aux, disk, pc, batch, attempt, faults, held>>

Batch == {MainKey(n) : n \in {m \in Node : Count(m) > 0}} \cup {AuxKey(n) : n \in aux}

Commit ==
    /\ pc = "idle"
    /\ pc' = "write" /\ batch' = Batch /\ attempt' = 0
    /\ held' = held \cup Batch
    /\ UNCHANGED <<main, aux, disk, faults>>

\* One attempt: the write succeeds, or the disk fails it; a batch that has been moved away
\* fails.  The last failure ends the process.
WriteBatch ==
    /\ pc = "write" /\ batch # None
    /\ disk' = disk \cup batch /\ batch' = None /\ pc' = "done"
    /\ UNCHANGED <<main, aux, attempt, faults, held>>
Fail ==
    /\ pc = "write"
    /\ IF batch = None THEN UNCHANGED faults ELSE faults < MaxFaults /\ faults' = faults + 1
    /\ batch' = None
    /\ attempt' = attempt + 1
    /\ pc' = IF attempt = Attempts - 1 THEN "exit" ELSE "write"
    /\ UNCHANGED <<main, aux, disk, held>>

Clear ==
    /\ pc = "done"
    /\ main' = [n \in Node |-> NoNode] /\ aux' = {} /\ pc' = "idle"
    /\ UNCHANGED <<disk, batch, attempt, faults, held>>

OverlayNext ==
    \/ \E n \in Node : Insert(n) \/ Kill(n) \/ InsertAux(n)
    \/ Rollback \/ Commit \/ WriteBatch \/ Fail \/ Clear
OverlaySpec == OverlayInit /\ [][OverlayNext]_overlayVars

-----------------------------------------------------------------------------
\* What a commit was asked to keep can be looked up from then on, while it is written and
\* after memory has been cleared, unless the process ended (OverlayDB::commit, lookup).
CommittedFound ==
    pc # "exit" =>
        \A n \in Node : /\ MainKey(n) \in held => Lookup(n)
                        /\ AuxKey(n) \in held => LookupAux(n)

\* The process ends only when the disk failed every attempt of a commit: "Sleeping for ...
\* seconds, then retrying" (OverlayDB::commit).  The code does not keep this: the batch is
\* gone after the first attempt.
RetriesWrite == pc = "exit" => faults >= Attempts
=============================================================================
