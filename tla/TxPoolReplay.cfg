CONSTANTS
    t1 = t1
    t2 = t2
    t3 = t3
    Tx = {t1, t2, t3}
    None = None
    NonceKey <- ReplayNonceKey
    BlockLimit <- ReplayBlockLimit
    Limit = 2
    MaxBlockLimit = 3
    MaxTxs = 1
    MaxNumber = 3
SPECIFICATION Spec
INVARIANT NoReplay
