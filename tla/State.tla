------------------------------- MODULE State -------------------------------
(***************************************************************************)
(* The account cache over the state trie (libmptstate State and Account):  *)
(* accounts are loaded from the trie on demand, changed in the cache, and  *)
(* written back by commit() after each transaction; a change log undoes    *)
(* the changes of a reverted call.  The environment is Executive: storage  *)
(* and code change only in accounts that exist, a creation begins with     *)
(* setNonce and clearStorage, kill() is followed by commit().              *)
(*                                                                         *)
(* An account has one storage slot: root is its value in the storage trie  *)
(* the account was loaded with, overlay the value set since, if any.       *)
(***************************************************************************)
EXTENDS Integers, Sequences, FiniteSets, SequencesExt

CONSTANTS Address, Value, Code,
          CacheLimit,   \* of clearCacheIfTooLarge: 1000 in the code
          MaxSaves,     \* bound: nested savepoints
          MaxNonce, MaxBalance,  \* bounds of the values
          MaxChanges    \* bound: changes

VARIABLES trie,       \* what is committed: an account record or Missing
          cache,      \* m_cache
          missing,    \* m_nonExistingAccountsCache
          unchanged,  \* m_unchangedCacheEntries
          changeLog,  \* m_changeLog
          saves,      \* the savepoints of the running executives, innermost last
          changes     \* changes made so far

vars == <<trie, cache, missing, unchanged, changeLog, saves, changes>>

None == -1   \* no overlay value
NewAccount(nonce, balance) ==
    [alive |-> TRUE, dirty |-> TRUE, nonce |-> nonce, balance |-> balance,
     root |-> 0, overlay |-> None, code |-> 0]
Missing == [NewAccount(0, 0) EXCEPT !.alive = FALSE, !.dirty = FALSE]
NotCached == Missing

IsEmpty(acc) == acc.nonce = 0 /\ acc.balance = 0 /\ acc.code = 0
Stored(acc) == IF acc.overlay = None THEN acc.root ELSE acc.overlay

Init ==
    /\ trie = [a \in Address |-> Missing]
    /\ cache = trie
    /\ missing = {} /\ unchanged = {}
    /\ changeLog = <<>> /\ saves = <<>> /\ changes = 0

-----------------------------------------------------------------------------
(* account(): the cached account, or the one of the trie, which enters the *)
(* cache; before that, entries nobody has changed may be dropped.          *)

Dropped(names) == IF Cardinality(names) <= CacheLimit THEN {{}}
                  ELSE {s \in SUBSET names : Cardinality(names \ s) = CacheLimit}

Erase_Any(c, a) == NotCached
Erase(c, a) == IF c[a].dirty THEN c[a] ELSE NotCached

Cached(a) == cache[a] # NotCached

\* The possible outcomes of account(a); is tells whether it returned a pointer.
Account(a) ==
    IF Cached(a) THEN {[is |-> TRUE, cache |-> cache, missing |-> missing, unchanged |-> unchanged]}
    ELSE IF a \in missing
    THEN {[is |-> FALSE, cache |-> cache, missing |-> missing, unchanged |-> unchanged]}
    ELSE IF trie[a] = Missing
    THEN {[is |-> FALSE, cache |-> cache, missing |-> missing \cup {a}, unchanged |-> unchanged]}
    ELSE {[is |-> TRUE,
           cache |-> [b \in Address |-> IF b = a THEN trie[a]
                                        ELSE IF b \in d THEN Erase(cache, b) ELSE cache[b]],
           missing |-> missing, unchanged |-> (unchanged \ d) \cup {a}] : d \in Dropped(unchanged)}

\* The end of an operation on a: its new account, and what is added to the log.
Put(l, a, acc, log) ==
    /\ cache' = [l.cache EXCEPT ![a] = acc]
    /\ missing' = IF \E i \in DOMAIN log : log[i].kind = "Create" THEN l.missing \ {a} ELSE l.missing
    /\ unchanged' = l.unchanged
    /\ changeLog' = changeLog \o log
    /\ changes' = changes + 1
    /\ UNCHANGED <<trie, saves>>

Change(kind, a, value) == <<[kind |-> kind, addr |-> a, value |-> value]>>
Changed(acc) == [acc EXCEPT !.dirty = TRUE]
MayChange == changes < MaxChanges

Read(a) ==
    \E l \in Account(a) :
       /\ cache' = l.cache /\ missing' = l.missing /\ unchanged' = l.unchanged
       /\ UNCHANGED <<trie, changeLog, saves, changes>>

IncNonce(a) ==
    /\ MayChange /\ cache[a].nonce < MaxNonce
    /\ \E l \in Account(a) :
          IF l.is THEN Put(l, a, Changed([l.cache[a] EXCEPT !.nonce = @ + 1]),
                           Change("Nonce", a, l.cache[a].nonce))
          ELSE Put(l, a, NewAccount(1, 0), Change("Create", a, 0))

\* setNonce of a creation; clearStorage finds the storage of the address empty, or
\* drops what an earlier account left there.
SetNonce(a, n) ==
    /\ MayChange
    /\ \E l \in Account(a) :
          IF l.is THEN Put(l, a, Changed([l.cache[a] EXCEPT !.nonce = n]),
                           Change("Nonce", a, l.cache[a].nonce))
          ELSE Put(l, a, NewAccount(n, 0), Change("Create", a, 0))

ClearStorage(a) ==
    /\ MayChange
    /\ cache[a].alive /\ cache[a].overlay = None /\ cache[a].code = 0 /\ cache[a].root # 0
    /\ \E l \in Account(a) :
          Put(l, a, Changed([l.cache[a] EXCEPT !.root = 0]), Change("StorageRoot", a, l.cache[a].root))

\* The log and the account after addBalance(a, amount), given the outcome of account(a).
Touch(acc, a) == IF ~acc.dirty /\ IsEmpty(acc) THEN Change("Touch", a, 0) ELSE <<>>
AddedBalance(l, a, amount) ==
    IF l.is THEN Changed([l.cache[a] EXCEPT !.balance = @ + amount]) ELSE NewAccount(0, amount)
AddedLog(l, a, amount) ==
    (IF l.is THEN Touch(l.cache[a], a) ELSE Change("Create", a, 0))
       \o (IF amount = 0 THEN <<>> ELSE Change("Balance", a, amount))

AddBalance(a, amount) ==
    /\ MayChange /\ cache[a].balance + amount <= MaxBalance
    /\ \E l \in Account(a) : Put(l, a, AddedBalance(l, a, amount), AddedLog(l, a, amount))

\* setBalance adds the difference to what was read.
SetBalance(a, value) ==
    /\ MayChange
    /\ \E l \in Account(a) :
          LET amount == value - (IF l.is THEN l.cache[a].balance ELSE 0) IN
          Put(l, a, AddedBalance(l, a, amount), AddedLog(l, a, amount))

\* subBalance: nothing for 0, otherwise the account must have the value.
SubBalance(a, value) ==
    /\ MayChange /\ value > 0
    /\ \E l \in Account(a) :
          /\ l.is /\ l.cache[a].balance >= value
          /\ Put(l, a, AddedBalance(l, a, -value), AddedLog(l, a, -value))

SetStorage(a, value) ==
    /\ MayChange /\ cache[a].alive
    /\ \E l \in Account(a) :
          Put(l, a, Changed([l.cache[a] EXCEPT !.overlay = value]),
              Change("Storage", a, Stored(l.cache[a])))

\* Account::setCode does not mark the account as changed.
SetCode(a, code) ==
    /\ MayChange /\ cache[a].alive /\ cache[a].dirty
    /\ \E l \in Account(a) :
          Put(l, a, [l.cache[a] EXCEPT !.code = code], Change("Code", a, l.cache[a].code))

-----------------------------------------------------------------------------
Savepoint ==
    /\ Len(saves) < MaxSaves
    /\ saves' = Append(saves, Len(changeLog))
    /\ UNCHANGED <<trie, cache, missing, unchanged, changeLog, changes>>

\* The call returned: its savepoint is not used any more.
Release ==
    /\ saves # <<>>
    /\ saves' = Front(saves)
    /\ UNCHANGED <<trie, cache, missing, unchanged, changeLog, changes>>

Undone(acc, change) ==
    CASE change.kind = "Storage" -> Changed([acc EXCEPT !.overlay = change.value])
      [] change.kind = "StorageRoot" -> Changed([acc EXCEPT !.overlay = None, !.root = change.value])
      [] change.kind = "Balance" -> Changed([acc EXCEPT !.balance = @ - change.value])
      [] change.kind = "Nonce" -> Changed([acc EXCEPT !.nonce = change.value])
      [] change.kind = "Create" -> NotCached
      [] change.kind = "Code" -> [acc EXCEPT !.code = change.value]
      [] change.kind = "Touch" -> [acc EXCEPT !.dirty = FALSE]

UndoIn(c, change) == [c EXCEPT ![change.addr] = Undone(c[change.addr], change)]

\* rollback(savepoint) on the cache: after[n] is the cache with n changes left.
RolledBack(savepoint) ==
    LET after[n \in savepoint..Len(changeLog)] ==
            IF n = Len(changeLog) THEN cache ELSE UndoIn(after[n + 1], changeLog[n + 1])
    IN  after[savepoint]

Rollback ==
    /\ saves # <<>>
    /\ LET savepoint == saves[Len(saves)]
           undone == SubSeq(changeLog, savepoint + 1, Len(changeLog)) IN
       /\ cache' = RolledBack(savepoint)
       /\ unchanged' = unchanged \cup {undone[i].addr : i \in {j \in DOMAIN undone : undone[j].kind = "Touch"}}
       /\ changeLog' = SubSeq(changeLog, 1, savepoint)
    /\ saves' = Front(saves)
    /\ UNCHANGED <<trie, missing, changes>>

Killed(acc) == [Missing EXCEPT !.dirty = TRUE]

\* The suicides of the transaction are killed, the empty accounts it touched too, and
\* what changed is written to the trie.  The cache of missing accounts stays.
Written(acc) == IF acc.alive THEN [acc EXCEPT !.dirty = FALSE, !.root = Stored(acc), !.overlay = None]
                ELSE Missing
Commit(suicides) ==
    /\ saves = <<>>
    /\ \A a \in suicides : cache[a].alive
    /\ LET removed == {a \in Address : a \in suicides \/ (cache[a].dirty /\ IsEmpty(cache[a]))}
           final == [a \in Address |-> IF a \in removed /\ Cached(a) THEN Killed(cache[a]) ELSE cache[a]] IN
       trie' = [a \in Address |-> IF final[a].dirty THEN Written(final[a]) ELSE trie[a]]
    /\ cache' = [a \in Address |-> NotCached]
    /\ unchanged' = {}
    /\ changeLog' = <<>>
    /\ UNCHANGED <<missing, saves, changes>>

\* setRoot: the uncommitted changes are given up; the log of them stays, below every
\* later savepoint.
SetRoot ==
    /\ saves = <<>>
    /\ cache' = [a \in Address |-> NotCached]
    /\ missing' = {} /\ unchanged' = {}
    /\ UNCHANGED <<trie, changeLog, saves, changes>>

Next ==
    \/ \E a \in Address :
          \/ Read(a) \/ IncNonce(a) \/ ClearStorage(a)
          \/ \E v \in Value : \/ SetNonce(a, v) \/ AddBalance(a, v) \/ SetBalance(a, v)
                              \/ SubBalance(a, v) \/ SetStorage(a, v)
          \/ \E c \in Code : SetCode(a, c)
    \/ Savepoint \/ Release \/ Rollback \/ SetRoot
    \/ \E suicides \in SUBSET Address : Commit(suicides)

Spec == Init /\ [][Next]_vars

-----------------------------------------------------------------------------
\* What the getters return for an account of the cache c.
Seen(c, a) ==
    LET acc == IF c[a] # NotCached THEN c[a] ELSE IF a \in missing THEN Missing ELSE trie[a]
    IN  [nonce |-> acc.nonce, balance |-> acc.balance, code |-> acc.code, store |-> Stored(acc)]

Accounts == [a \in Address |-> Seen(cache, a)]
Committed == [a \in Address |-> Seen(trie, a)]
Saved == [i \in DOMAIN saves |-> [a \in Address |-> Seen(RolledBack(saves[i]), a)]]

Abstract == INSTANCE AccountState WITH
    accounts <- Accounts, committed <- Committed, saved <- Saved

AbstractInit == Abstract!Init
AbstractStep == Abstract!Next \/ UNCHANGED <<Accounts, Committed, Saved>>

\* The cache, the change log and the commits implement plain accounts with savepoints:
\* those who read accounts, roll back and commit see nothing else.
Refines == Abstract!Spec
=============================================================================
