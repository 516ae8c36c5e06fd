------------------------------ MODULE MCTxPool ------------------------------
(* Instances of TxPool: three transactions with one nonce.  The block limits   *)
(* let t1 and t3 be MaxBlockLimit + 2 blocks apart, so that t3 may spend the   *)
(* nonce again, and t2 come too early for that after t1 and t3 after t2.       *)
EXTENDS TxPool, TLC

CONSTANTS t1, t2, t3

MCNonceKey == (t1 :> 1) @@ (t2 :> 1) @@ (t3 :> 1)
MCBlockLimit == (t1 :> 1) @@ (t2 :> 3) @@ (t3 :> 4)

\* The block limits of the replay: t1 and t2 have the nonce and the block limit in
\* common.
ReplayNonceKey == (t1 :> 1) @@ (t2 :> 1) @@ (t3 :> 2)
ReplayBlockLimit == (t1 :> 3) @@ (t2 :> 3) @@ (t3 :> 2)

(* drop is called on an empty chain only; topTransactions drops at any time.  *)
EarlyDrop == dropped' \subseteq dropped \/ sealer' # sealer \/ number = 0

(* One transaction is dropped at most: a second only shrinks what import can  *)
(* still accept.                                                              *)
FewDrops == Cardinality(dropped) <= 1

=============================================================================
