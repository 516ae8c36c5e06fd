---------------------------- MODULE AccountState ----------------------------
(***************************************************************************)
(* What StateFace promises of the accounts of the chain: each operation    *)
(* changes the account it names, a savepoint remembers all of them, and a  *)
(* rollback brings them back.  Committing a transaction removes the killed *)
(* accounts and those that are empty.                                      *)
(***************************************************************************)
EXTENDS Integers, Sequences

CONSTANTS Address, Value, Code

VARIABLES accounts,  \* nonce, balance, code and storage of every address
          committed, \* the accounts at the last commit
          saved      \* the accounts at the savepoints, oldest first

Zero == [nonce |-> 0, balance |-> 0, code |-> 0, store |-> 0]
IsEmpty(r) == r.nonce = 0 /\ r.balance = 0 /\ r.code = 0

Init == accounts = [a \in Address |-> Zero] /\ committed = accounts /\ saved = <<>>

\* What one operation may make of an account: it sets one of the fields, and counts
\* the nonce or the balance up or down by a value.
Changed(r) ==
    {[r EXCEPT !.nonce = n] : n \in Value \cup {r.nonce + 1}}
       \cup {[r EXCEPT !.balance = v] : v \in Value \cup {r.balance + w : w \in Value}
                                                 \cup {r.balance - w : w \in {u \in Value : u <= r.balance}}}
       \cup {[r EXCEPT !.store = v] : v \in Value}
       \cup {[r EXCEPT !.code = c] : c \in Code}

Operation ==
    /\ LET old == accounts
           new == accounts' IN
       \E a \in Address : new[a] \in Changed(old[a]) /\ \A b \in Address \ {a} : new[b] = old[b]
    /\ UNCHANGED <<committed, saved>>

Savepoint == saved' = Append(saved, accounts) /\ UNCHANGED <<accounts, committed>>
Rollback == saved # <<>> /\ accounts' = saved[Len(saved)]
                         /\ saved' = SubSeq(saved, 1, Len(saved) - 1)
                         /\ UNCHANGED committed
Release == saved # <<>> /\ saved' = SubSeq(saved, 1, Len(saved) - 1)
                        /\ UNCHANGED <<accounts, committed>>

Commit(killed) ==
    /\ saved' = <<>>
    /\ LET old == accounts
           new == accounts' IN
       /\ \A a \in Address :
             \/ new[a] = IF a \in killed THEN Zero ELSE old[a]
             \/ new[a] = Zero /\ IsEmpty(old[a])
       /\ committed' = new

Reset == saved = <<>> /\ accounts' = committed /\ UNCHANGED <<committed, saved>>

Next ==
    \/ Operation
    \/ Savepoint \/ Rollback \/ Release \/ Reset
    \/ \E killed \in SUBSET Address : Commit(killed)

Spec == Init /\ [][Next]_<<accounts, committed, saved>>
=============================================================================
