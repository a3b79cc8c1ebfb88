CONSTANTS
    Sellers = {s1, s2}
    Refs = {r1, r2}
    HoldIDs = {h1, h2}
    Null = Null
    Amounts = {1, 2}
    CreditLimit = 0
    GraceAmount = 1
    MaxMinor = 2
SPECIFICATION Spec
SYMMETRY Symmetry
INVARIANTS TypeOK HoldsBacked ConfirmedHoldsCharged OverdraftBounded
PROPERTY ResolvedOnce
