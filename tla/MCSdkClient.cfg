CONSTANTS
    f1 = f1  f2 = f2  r1 = r1  r2 = r2  w1 = w1  w2 = w2  c1 = c1  c2 = c2
    Flag = {f1}
    Reader = {r1, r2}
    Writer = {w1, w2}
    Call = {c1, c2}
    MaxVersion = 2
    TTL = 1
    MaxHold = 1
    QuietLimit = 4
    SdkTTL = 1
    SdkLimit = 0
    MaxFlight = 1
SYMMETRY Alike
CHECK_DEADLOCK FALSE
SPECIFICATION SdkSpec
INVARIANTS
    SdkTypeOK
    VersionNotOverstated
    StaleBounded
    SdkStaleBounded
