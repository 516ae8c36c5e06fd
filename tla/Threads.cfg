SPECIFICATION PartFairSpec
INVARIANTS
    NoLostWakeup
    HandOverSound
    PeersKnown
PROPERTIES
    AskersAnswered
    ThreadsReturn
    NetworkHeals
    SyncCompletes
CHECK_DEADLOCK FALSE
