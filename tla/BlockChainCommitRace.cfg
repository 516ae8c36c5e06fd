CONSTANTS
    n1 = n1
    n2 = n2
    Committer = {c1, c2}
    Reader = {}
    Block <- MCBlocks
    Genesis <- MCGenesis
    NodeID = {n1, n2}
    InitialType <- MCInitialType
    CacheSize = 0
    MaxFailures = 0
    Nothing = Nothing
SPECIFICATION Spec
PROPERTY CommitAdvances
CHECK_DEADLOCK FALSE
