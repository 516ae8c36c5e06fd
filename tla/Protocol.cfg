CONSTANTS
    N = 4
    Seal = {s1, s2}
    MaxNumber = 2
SPECIFICATION PartSpec
SYMMETRY Symmetry
INVARIANTS
    Agreement
    OneVotePerHeight
    RaftOrder
    EngineTimely
    GossipReaches
    CodecsInvert
    EncodingsUnique
    TrieIsMap
    HashesFresh
    ArithmeticRight
PROPERTIES
    WaitsGrow
CHECK_DEADLOCK FALSE
