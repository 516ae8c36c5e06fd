SPECIFICATION PartSpec
INVARIANTS
    SyncAsksRight
    DeliveredWhereMeant
    LedgerFollowsGenesis
    AnswersConsistent
    DataKept
    FrameContained
    TransactionAccounts
    ContractsRight
PROPERTIES
    FailureUndone
    StateRefines
CHECK_DEADLOCK FALSE
