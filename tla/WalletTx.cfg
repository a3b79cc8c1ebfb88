CONSTANTS
    Sellers = {s1, s2}
    Refs = {r1}
    HoldIDs = {h1, h2}
    Null = Null
    Amounts = {1}
    CreditLimit = 0
    GraceAmount = 0
    MaxMinor = 1
    Clients = {c1, c2}
    Idle = Idle
SPECIFICATION FairTxSpec
INVARIANTS DeadlocksMixOrders
PROPERTIES CallsAreAtomic EveryCallReturns
