CONSTANTS
    Node = {n1, n2}
    GenesisMiners = {n1}
    Account = {acc1, acc2}
    Granted = {"user", "miners"}
    Item = {item1, item2}
    Value = {"v"}
    MaxNumber = 2
    MaxCalls = 3
    MaxDepth = 2
SPECIFICATION Spec
SYMMETRY Symmetry
INVARIANTS
    LogRestores
    SystemTablesSound
PROPERTIES
    CommitKeepsRows
