CONSTANTS
    Requests = {r1, r2}
    PoolSizes = {1, 2}
    Refs = {o1, o2, o3}
    Prepaid = {o3}
    Caps = {0, 1}
SPECIFICATION IntakeSpec
INVARIANTS IntakeTypeOK CapOvershootBounded
PROPERTY EveryRequestAnswered
