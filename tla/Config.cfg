CONSTANTS
    c1 = c1
    c2 = c2
    other = other
    small = small
    enterprise = enterprise
    Servers = {s1, s2}
    Contracts = {c1, c2}
    Terms <- MCTerms
    LimitKey = LimitKey
    Marker = Marker
    Null = Null
    SellerTypes = {small, enterprise}
    Scopes = {enterprise}
    Calls = {p1, p2}
    Requests = {q1}
SPECIFICATION FairConfigSpec
INVARIANTS ConfigTypeOK CalmContractInForce
 
