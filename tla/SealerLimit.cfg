CONSTANTS
    Limit = {1, 3}
    Word = 16
    MaxPool = 3
    MaxNumber = 2
SPECIFICATION Spec
INVARIANT WithinLimit
CHECK_DEADLOCK FALSE
