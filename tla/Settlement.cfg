CONSTANTS
    Sellers = {s1, s2}
    Refs <- MCRefs
    HoldIDs = {}
    Null = Null
    Amounts = {0, 1, 2}
    CreditLimit = 0
    GraceAmount = 2
    MaxMinor = 3
    Parcels = {p1}
    Discrepancies = {d1}
    Operators = {o1}
    Workers = {w1, w2}
    MaxFaults = 1
    MaxManual = 1
SPECIFICATION SettlementSpec
SYMMETRY Symmetry
INVARIANTS SettledHasEntry RepeatsBounded BooksBalanceUnlessRepeated
CHECK_DEADLOCK FALSE
