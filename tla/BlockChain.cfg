CONSTANTS
    n1 = n1
    n2 = n2
    Committer = {c1, c2}
    Reader = {r1, r2}
    Block <- MCBlocks
    Genesis <- MCGenesis
    NodeID = {n1, n2}
    InitialType <- MCInitialType
    CacheSize = 1
    MaxFailures = 1
    Nothing = Nothing
SPECIFICATION Spec
INVARIANTS LookupsAnswer CachesSound
PROPERTY FailureStopsCommits
CONSTRAINT Scenarios
SYMMETRY Symmetry
CHECK_DEADLOCK FALSE
