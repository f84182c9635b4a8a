CONSTANTS
    u1 = u1
    h1 = h1
    h2 = h2
    Nobody = Nobody
    t1 = t1  t2 = t2  t3 = t3  t4 = t4
    Token = {t1, t2, t3, t4}
    User = {u1}
    Handler = {h1, h2}
    TTL = 1
    MaxTime = 1
SYMMETRY Alike
CHECK_DEADLOCK FALSE
SPECIFICATION TokensSpec
INVARIANTS
    TokensTypeOK
    ToldMeansRevoked
PROPERTIES
    RevocationStands
    ImplementsSessions
