CONSTANTS
    t1 = t1
    t2 = t2
    t3 = t3
    Tx = {t1, t2, t3}
    None = None
    NonceKey <- MCNonceKey
    BlockLimit <- MCBlockLimit
    Limit = 2
    MaxBlockLimit = 1
    MaxTxs = 1
    MaxNumber = 4
SPECIFICATION Spec
CONSTRAINT FewDrops
ACTION_CONSTRAINTS
    EarlyDrop
    NoViewChangeBeforeLoad
INVARIANTS
    NoReplay
    NoncesAgree
