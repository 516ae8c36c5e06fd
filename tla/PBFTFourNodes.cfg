SPECIFICATION Spec
CONSTANTS
    N = 4
    Down = {}
    Payload = {p}
    EmptyPayload = {}
    MaxNumber = 1
    MaxView = 2
    MaxRestarts = 0
CONSTRAINT VotesOrViewChanges
INVARIANTS SignQuorumLocks ViewHasQuorum
