SPECIFICATION Spec
CONSTANTS
    N = 2
    Down = {}
    Payload = {p, e}
    EmptyPayload = {e}
    MaxNumber = 2
    MaxView = 1
    MaxRestarts = 1
CONSTRAINT HeightsOrCrash
INVARIANT PrepareIsCurrent
PROPERTY ImplementsLock
