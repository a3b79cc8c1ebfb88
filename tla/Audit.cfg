CONSTANTS
    a1 = a1
    a2 = a2
    a3 = a3
    b = b
    p = p
    app = app
    low = low
    s1 = s1
    s2 = s2
    Ids = {a1, a2, a3, b, p, app, low}
    HighValue = {a1, a2, a3, b, p, app}
    Admin = {a1, a2, a3, b, p, low}
    Sellers = {s1, s2}
    Platform = Platform
    SellerID <- MCSellerID
    Genesis = Genesis
SPECIFICATION AuditSpec
SYMMETRY Symmetry
INVARIANTS VerifierIsExact ForksNeedOverlap SeqsAreDense
CHECK_DEADLOCK FALSE
