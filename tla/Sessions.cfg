CONSTANTS
    Servers = {s1, s2}
    Serving = {s1}
    HttpRequests = {q1, q2}
    Tokens = {t1, t2}
    Users = {u1}
    Roles = {owner}
    NoRoles = NoRoles
    None = None
    Cap = 1
    TTL = 1
SPECIFICATION SessionsSpec
INVARIANT SessionsTypeOK
PROPERTIES RevokedStaysOut RightsCatchUp
