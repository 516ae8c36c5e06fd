------------------------------- MODULE Block --------------------------------
\* Blocks, headers and transactions as objects with memoised parts.
EXTENDS Integers, Sequences

(***************************************************************************)
(* Blocks and block headers as objects with memoised parts                 *)
(* (libethcore/Block.cpp, Block.h, BlockHeader.cpp, BlockHeader.h).        *)
(*                                                                         *)
(* A header remembers its hash, a block the encoding of its transactions,  *)
(* the encoding of its receipts and the roots of both.  Every setter has   *)
(* to drop what it makes stale, and all but appendExtraDataItem do; the    *)
(* roots are only written to the header by an explicit                     *)
(* calTransactionRoot(true) or calReceiptRoot(true).  The same objects are *)
(* sealed, executed, copied into caches, encoded for the network and the   *)
(* storage, and decoded by another node.                                   *)
(*                                                                         *)
(* Hashes and roots are what they are computed from.  A memo is a set that *)
(* is empty or holds the remembered value.                                 *)
(***************************************************************************)
CONSTANTS
    Obj,        \* block objects of a node
    Tx,         \* transactions
    Value,      \* values of the plain header fields
    MaxNumber,  \* bound: block number
    MaxList,    \* bound: transactions and receipts of a block
    MaxGas,     \* gas limit of the headers
    MaxOps      \* bound: operations on the objects

VARIABLES
    blk,   \* blk[o]: the object
    wire,  \* the last encoding, with the block it was taken from
    ops    \* operations so far

blockVars == <<blk, wire, ops>>

\* An empty header: m_timestamp = UINT64_MAX stands as plain field "none"
EmptyFields ==
    [parentHash |-> {}, number |-> 0, stateRoot |-> 0, transactionsRoot |-> {},
     receiptsRoot |-> {}, gasUsed |-> 0, plain |-> "none", extraData |-> <<>>]

EmptyBlock ==
    [f |-> EmptyFields, hash |-> {}, patched |-> FALSE, txs |-> <<>>, receipts |-> <<>>, sigs |-> {},
     txsCache |-> {}, receiptsCache |-> {}, transRootCache |-> {}, receiptRootCache |-> {}]

BlockInit ==
    /\ blk = [o \in Obj |-> EmptyBlock]
    /\ wire = {}
    /\ ops = 0

-----------------------------------------------------------------------------
(* BlockHeader *)

\* m_hash = h256() after the field was set
noteDirty(b) == [b EXCEPT !.hash = {}, !.patched = FALSE]

\* The setters, all but one.
Set(b, field, v) == noteDirty([b EXCEPT !.f[field] = v])

\* hash(): computed once
Hash(b) == IF b.hash = {} THEN b.f ELSE CHOOSE h \in b.hash : TRUE
Hashed(b) == [b EXCEPT !.hash = {Hash(b)}]

\* An item of the extra data is replaced, and the hash is kept; patched tells that a
\* hash was remembered.
appendExtraDataItem(b, i, v) ==
    IF i \notin DOMAIN b.f.extraData THEN b
    ELSE [b EXCEPT !.f.extraData[i] = v, !.patched = b.hash # {}]

\* setExtraData of one item
setExtraData(b, i, v) ==
    IF i \notin DOMAIN b.f.extraData THEN b
    ELSE Set(b, "extraData", [b.f.extraData EXCEPT ![i] = v])

setTransactionsRoot(b, r) == Set(b, "transactionsRoot", r)

setReceiptsRoot(b, r) == Set(b, "receiptsRoot", r)

\* Copying calls hash() of the source: the copy and the source both have it
CopyHeader(to, from) ==
    [to EXCEPT !.f = from.f, !.hash = {Hash(from)}, !.patched = from.patched]

\* populateFromParent: timestamp, extra data and roots of the old header stay
populateFromParent(b, parent) ==
    noteDirty([b EXCEPT !.f.stateRoot = parent.f.stateRoot, !.f.number = parent.f.number + 1,
                        !.f.parentHash = {Hash(parent)}, !.f.gasUsed = 0])

\* BlockHeader::verify without parent and block
Verifies(b) == b.f.number >= 0 /\ b.f.gasUsed <= MaxGas

-----------------------------------------------------------------------------
(* TransactionReceipt: the bloom is taken from the logs when the receipt is  *)
(* made, and travels beside them                                             *)

NewReceipt(t, log) == [tx |-> t, log |-> log, bloom |-> {log[i] : i \in DOMAIN log}]

ReceiptRLP(r) == <<r.tx, r.bloom, r.log>>

\* decode on a fresh object: the logs are appended one by one
ReceiptOf(e) == [tx |-> e[1], log |-> <<>> \o e[3], bloom |-> e[2]]

-----------------------------------------------------------------------------
(* Block *)

noteChange(b) == [b EXCEPT !.txsCache = {}, !.receiptsCache = {}]

\* calTransactionRoot: encode and take the root unless the encoding is there
calTransactionRoot(b, update) ==
    LET c == IF b.txsCache # {} THEN b
             ELSE [b EXCEPT !.txsCache = {b.txs}, !.transRootCache = {b.txs}]
    IN  IF update THEN setTransactionsRoot(c, c.transRootCache) ELSE c

calReceiptRoot(b, update) ==
    LET c == IF b.receiptsCache # {} THEN b
             ELSE LET rlp == [i \in DOMAIN b.receipts |-> ReceiptRLP(b.receipts[i])]
                  IN  [b EXCEPT !.receiptsCache = {rlp}, !.receiptRootCache = {rlp}]
    IN  IF update THEN setReceiptsRoot(c, c.receiptRootCache) ELSE c

\* operator=, and the copy constructor on a fresh object.  The cached
\* transactions are copied, their root is not, and then all is dropped.
Assigned(to, from) ==
    noteChange([CopyHeader(to, from) EXCEPT !.txs = from.txs, !.receipts = from.receipts,
                                            !.sigs = from.sigs, !.txsCache = from.txsCache])

resetCurrentBlock(b, parent) ==
    noteChange([populateFromParent(b, parent) EXCEPT
                    !.txs = <<>>, !.receipts = <<>>, !.sigs = {}, !.txsCache = {}])

appendTransactions(b, ts) == noteChange([b EXCEPT !.txs = @ \o ts])

clearAllReceipts(b) == noteChange([b EXCEPT !.receipts = <<>>])

appendTransactionReceipt(b, r) == noteChange([b EXCEPT !.receipts = Append(@, r)])

setSigList(b, s) == [b EXCEPT !.sigs = s]

setEmptyBlock(b) == noteChange(Set(Set(b, "number", 0), "gasUsed", 0))

\* encode: the caches are filled, the header is not given the roots
Encoded(b) == Hashed(calReceiptRoot(calTransactionRoot(b, FALSE), FALSE))

Encoding(b) ==
    LET e == Encoded(b)
    IN  [header |-> e.f, txs |-> e.txsCache, receipts |-> e.receiptsCache, hash |-> Hash(e),
         sigs |-> e.sigs]

\* decode on a fresh object; {} when the hash is not the header's
Decoded(w) ==
    LET b == [EmptyBlock EXCEPT !.f = w.header, !.txs = CHOOSE t \in w.txs : TRUE,
                                !.receipts = LET rs == CHOOSE r \in w.receipts : TRUE
                                             IN  [i \in DOMAIN rs |-> ReceiptOf(rs[i])]]
    IN  IF w.hash # Hash(b) THEN {} ELSE {noteChange([Hashed(b) EXCEPT !.sigs = w.sigs])}

-----------------------------------------------------------------------------
(* What the node does with them *)

\* Setters of one header field each
SetHeader(o) ==
    /\ \/ \E v \in Value : blk' = [blk EXCEPT ![o] = Set(@, "stateRoot", v)]
       \/ \E v \in Value : blk' = [blk EXCEPT ![o] = Set(@, "plain", v)]
       \/ \E v \in 0 .. MaxGas + 1 : blk' = [blk EXCEPT ![o] = Set(@, "gasUsed", v)]
       \/ /\ Len(blk[o].f.extraData) < 1
          /\ \E v \in Value :
                blk' = [blk EXCEPT ![o] = Set(@, "extraData", Append(@.f.extraData, v))]
       \/ \E v \in Value : blk' = [blk EXCEPT ![o] = setExtraData(@, 1, v)]
       \/ \E v \in Value : blk' = [blk EXCEPT ![o] = appendExtraDataItem(@, 1, v)]
    /\ UNCHANGED wire

\* Sealer: a new block on top of the head
ResetSealing(o, parent) ==
    /\ blk[parent].f.number < MaxNumber
    /\ blk' = [blk EXCEPT ![parent] = Hashed(@), ![o] = resetCurrentBlock(@, blk[parent])]
    /\ UNCHANGED wire

AppendTransactions(o, ts) ==
    /\ Len(blk[o].txs) + Len(ts) <= MaxList
    /\ blk' = [blk EXCEPT ![o] = appendTransactions(@, ts)]
    /\ UNCHANGED wire

\* PBFTSealer::handleBlock, RaftSealer::handleBlock
SealRoot(o) ==
    /\ blk' = [blk EXCEPT ![o] = calTransactionRoot(@, TRUE)]
    /\ UNCHANGED wire

\* BlockVerifier::executeBlock: new receipts, their root, the new state root
Execute(o, v) ==
    LET done[k \in 0 .. Len(blk[o].txs)] ==
            IF k = 0 THEN clearAllReceipts(blk[o])
            ELSE appendTransactionReceipt(done[k - 1], NewReceipt(blk[o].txs[k], <<v>>))
    IN  /\ blk' = [blk EXCEPT ![o] =
                       Set(calReceiptRoot(done[Len(blk[o].txs)], TRUE), "stateRoot", v)]
        /\ UNCHANGED wire

Sign(o, v) ==
    /\ blk' = [blk EXCEPT ![o] = setSigList(@, {v})]
    /\ UNCHANGED wire

SetEmpty(o) ==
    /\ blk' = [blk EXCEPT ![o] = setEmptyBlock(@)]
    /\ UNCHANGED wire

Copy(o, from) ==
    /\ o # from
    /\ blk' = [blk EXCEPT ![from] = Hashed(@), ![o] = Assigned(@, blk[from])]
    /\ UNCHANGED wire

Encode(o) ==
    /\ Verifies(blk[o])
    /\ blk' = [blk EXCEPT ![o] = Encoded(@)]
    /\ wire' = {[bytes |-> Encoding(blk[o]), of |-> blk'[o]]}

Decode(o) ==
    /\ \E w \in wire : \E b \in Decoded(w.bytes) : blk' = [blk EXCEPT ![o] = b]
    /\ UNCHANGED wire

Operation ==
    \/ \E o \in Obj : SetHeader(o)
    \/ \E o, parent \in Obj : ResetSealing(o, parent)
    \/ \E o \in Obj, t \in Tx : AppendTransactions(o, <<t>>)
    \/ \E o \in Obj : SealRoot(o)
    \/ \E o \in Obj, v \in Value : Execute(o, v)
    \/ \E o \in Obj, v \in Value : Sign(o, v)
    \/ \E o \in Obj : SetEmpty(o)
    \/ \E o, from \in Obj : Copy(o, from)
    \/ \E o \in Obj : Encode(o)
    \/ \E o \in Obj : Decode(o)

BlockNext == ops < MaxOps /\ ops' = ops + 1 /\ Operation

BlockSpec == BlockInit /\ [][BlockNext]_blockVars

-----------------------------------------------------------------------------
\* A memo is never stale: a remembered hash is the hash of the fields as they
\* are, except for an item of the extra data that appendExtraDataItem replaced; a
\* remembered encoding is that of the list as it is, and the root that
\* calTransactionRoot or calReceiptRoot would write to the header belongs to
\* it (noteDirty and noteChange in every other setter and copy).
MemosFresh ==
    \A o \in Obj :
        /\ \A h \in blk[o].hash :
               h = IF blk[o].patched
                   THEN [blk[o].f EXCEPT !.extraData = h.extraData]
                   ELSE blk[o].f
        /\ blk[o].txsCache \subseteq {blk[o].txs}
        /\ blk[o].txsCache # {} => blk[o].transRootCache = {blk[o].txs}
        /\ LET rlp == [i \in DOMAIN blk[o].receipts |-> ReceiptRLP(blk[o].receipts[i])]
           IN  /\ blk[o].receiptsCache \subseteq {rlp}
               /\ blk[o].receiptsCache # {} => blk[o].receiptRootCache = {rlp}

\* What Block::encode puts on the wire or in the storage is accepted by
\* Block::decode, whose check of the header hash it passes, and gives back
\* the block that was encoded: header, transactions, receipts, signatures.  A header
\* whose hash appendExtraDataItem left stale is the exception.
DecodesBack ==
    \A w \in wire : w.of.patched \/ \E b \in Decoded(w.bytes) :
        /\ b.f = w.of.f /\ b.txs = w.of.txs
        /\ b.receipts = w.of.receipts /\ b.sigs = w.of.sigs

\* Every block that is encoded can be decoded.  The code does not keep this: after
\* appendExtraDataItem on a header that has its hash, hash() is that of the old extra
\* data, and Block::decode refuses the encoding.
AlwaysDecodes == \A w \in wire : Decoded(w.bytes) # {}

-----------------------------------------------------------------------------
(***************************************************************************)
(* A transaction object: signing, hashing, encoding and decoding           *)
(* (libethcore/Transaction.cpp, Transaction.h) and the check of its        *)
(* signature (SignatureStruct in libdevcrypto/Common.cpp).                 *)
(*                                                                         *)
(* The hash with the signature and the sender are remembered in the object *)
(* once computed; whoever changes a field afterwards has to forget them.   *)
(* A hash is what it is computed from; the sender is recovered from the    *)
(* signature and the hash without it, so a signature made over other       *)
(* fields recovers to somebody else.                                       *)
(***************************************************************************)
CONSTANTS
    Signer,   \* the key holders, who are also the addresses
    Number,   \* values of nonce and block limit
    MaxTxOps    \* bound: operations on the object

VARIABLES
    trans,       \* the object
    forced,   \* forceSender was called after the sender was last forgotten
    txWire,     \* the last encoding, with the object it was made from
    refused,  \* the last operation threw
    txOps       \* operations so far

txVars == <<trans, forced, txWire, refused, txOps>>

Nobody == "nobody"       \* the zero address
Stranger == "stranger"   \* whom a signature over other fields recovers to

\* m_vrs: {} is an empty optional; a zero signature is by Nobody
Unsigned == {}
Zero == {[by |-> Nobody, over |-> {}]}

Null == [type |-> "null", nonce |-> 0, blockLimit |-> 0, to |-> Nobody,
         vrs |-> Unsigned, hashWith |-> {}, sender |-> Nobody]

TxInit ==
    /\ trans = Null
    /\ forced = FALSE
    /\ txWire = {}
    /\ refused = FALSE
    /\ txOps = 0

\* encode(WithoutSignature): the receiver is an empty field for a creation
Payload(t) ==
    [nonce |-> t.nonce, blockLimit |-> t.blockLimit, to |-> IF t.type = "call" THEN {t.to} ELSE {}]

\* SignatureStruct::isValid: r and s in range and not zero
isValid(s) == s.by # Nobody

\* recover(*m_vrs, sha3(WithoutSignature))
Recovered(t) ==
    CASE t.vrs = Unsigned -> {}
      [] t.vrs = Zero -> {}
      [] OTHER -> {IF s.over = {Payload(t)} THEN s.by ELSE Stranger : s \in t.vrs}

\* sender(): {} when it throws
sender(t) == IF t.sender # Nobody THEN {t.sender} ELSE Recovered(t)

\* sha3(WithSignature): remembered; {} when encode throws for want of a
\* signature.  A null transaction encodes to nothing.
sha3(t) ==
    IF t.hashWith # {} THEN t.hashWith
    ELSE IF t.type = "null" THEN {[of |-> {}, sig |-> {}]}
    ELSE IF t.vrs = Unsigned THEN {} ELSE {[of |-> {Payload(t)}, sig |-> t.vrs]}

\* clearSignature leaves a zero signature behind, not none
clearSignature(t) == [t EXCEPT !.vrs = Zero, !.sender = Nobody]

setNonce_KeepHash(t, n) == [clearSignature(t) EXCEPT !.nonce = n]
setNonce(t, n) == [clearSignature(t) EXCEPT !.nonce = n, !.hashWith = {}]

setBlockLimit(t, n) == [clearSignature(t) EXCEPT !.blockLimit = n, !.hashWith = {}]

updateSignature(t, s) == [t EXCEPT !.vrs = {s}, !.hashWith = {}, !.sender = Nobody]

\* encode(WithSignature)
TxEncoding(t) ==
    IF t.type = "null" THEN {}
    ELSE IF t.vrs = Unsigned THEN {} ELSE {[fields |-> Payload(t), sig |-> t.vrs]}

\* decode into a fresh object; {} when it throws.  An empty receiver field
\* makes a contract creation.
DecodedTx(e, check) ==
    LET t == [Null EXCEPT !.type = IF e.fields.to = {} THEN "create" ELSE "call",
                          !.nonce = e.fields.nonce,
                          !.blockLimit = e.fields.blockLimit,
                          !.to = IF e.fields.to = {} THEN Nobody ELSE CHOOSE a \in e.fields.to : TRUE,
                          !.vrs = e.sig]
    IN  IF check # "None" /\ ~ \E s \in t.vrs : isValid(s) THEN {}
        ELSE IF check = "Everything" THEN {[t EXCEPT !.sender = a] : a \in sender(t)} ELSE {t}

-----------------------------------------------------------------------------
\* The constructors of unsigned transactions
Construct(type, to, n) ==
    /\ trans.type = "null" /\ (type = "create" => to = Nobody)
    /\ trans' = [Null EXCEPT !.type = type, !.to = to, !.nonce = n]
    /\ refused' = FALSE
    /\ UNCHANGED <<forced, txWire>>

Change(n) ==
    /\ trans.type # "null"
    /\ \/ trans' = setNonce(trans, n)
       \/ trans' = setBlockLimit(trans, n)
    /\ forced' = FALSE
    /\ refused' = FALSE
    /\ UNCHANGED txWire

\* Sign sha3(WithoutSignature) and attach the signature
SignIt(a) ==
    /\ trans.type # "null"
    /\ trans' = updateSignature(trans, [by |-> a, over |-> {Payload(trans)}])
    /\ forced' = FALSE
    /\ refused' = FALSE
    /\ UNCHANGED txWire

\* Rpc::call runs an unsigned transaction in somebody's name
forceSender(a) ==
    /\ trans' = [trans EXCEPT !.sender = a]
    /\ forced' = TRUE
    /\ refused' = FALSE
    /\ UNCHANGED txWire

AskSender ==
    /\ trans' = IF sender(trans) = {} THEN trans ELSE [trans EXCEPT !.sender = CHOOSE a \in sender(trans) : TRUE]
    /\ refused' = (sender(trans) = {})
    /\ UNCHANGED <<forced, txWire>>

AskHash ==
    /\ trans' = [trans EXCEPT !.hashWith = sha3(trans)]
    /\ refused' = (sha3(trans) = {})
    /\ UNCHANGED <<forced, txWire>>

EncodeTx ==
    /\ txWire' = {[bytes |-> e, of |-> trans] : e \in TxEncoding(trans)}
    /\ refused' = (TxEncoding(trans) = {})
    /\ UNCHANGED <<trans, forced>>

\* Another node, or this one after a restart, takes the bytes
DecodeTx(check) ==
    /\ txWire # {}
    /\ \E w \in txWire :
          /\ trans' = IF DecodedTx(w.bytes, check) = {} THEN trans
                   ELSE CHOOSE t \in DecodedTx(w.bytes, check) : TRUE
          /\ forced' = (forced /\ DecodedTx(w.bytes, check) = {})
          /\ refused' = (DecodedTx(w.bytes, check) = {})
    /\ UNCHANGED txWire

TxOperation ==
    \/ \E type \in {"call", "create"}, to \in Signer \cup {Nobody}, n \in Number : Construct(type, to, n)
    \/ \E n \in Number : Change(n)
    \/ \E a \in Signer : SignIt(a)
    \/ \E a \in Signer : forceSender(a)
    \/ AskSender
    \/ AskHash
    \/ EncodeTx
    \/ \E check \in {"None", "Cheap", "Everything"} : DecodeTx(check)

TxNext == txOps < MaxTxOps /\ txOps' = txOps + 1 /\ TxOperation

TxSpec == TxInit /\ [][TxNext]_txVars

-----------------------------------------------------------------------------
\* What the object remembers is true of its fields: the hash is that of the
\* fields and the signature, and the sender, unless it was forced, is the one
\* the signature recovers to (the resets in Transaction::setNonce,
\* setBlockLimit and updateSignature).
RememberedIsTrue ==
    /\ \A h \in trans.hashWith : h.of # {} => h = [of |-> {Payload(trans)}, sig |-> trans.vrs]
    /\ (trans.sender # Nobody /\ ~forced) => trans.sender \in Recovered(trans)

\* A node that takes an encoded transaction with CheckTransaction::Everything
\* sees the kind and the hash the encoding node sees, and as its sender the one who signed
\* these very fields; a transaction whose signature was cleared is refused.
TakenAsSigned ==
    \A w \in txWire : \A t \in DecodedTx(w.bytes, "Everything") :
        /\ t.type = w.of.type
        /\ sha3(t) = sha3([w.of EXCEPT !.hashWith = {}])
        /\ \E s \in t.vrs : isValid(s) /\ (s.over = {Payload(w.of)} => t.sender = s.by)
=============================================================================
