CONSTANTS
    Requests = {r1, r2}
    Identities = {i1, i2}
    Emails = {e1, e2}
    Null = Null
    MaxCalls = 6
SPECIFICATION AccountsSpec
SYMMETRY Symmetry
INVARIANTS LoginFindsItsUser TrailTellsState
CHECK_DEADLOCK FALSE
