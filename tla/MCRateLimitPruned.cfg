CONSTANTS
    k1 = k1  k2 = k2  p1 = p1  p2 = p2  q1 = q1  q2 = q2
    Key = {k1, k2}
    Process = {p1}
    Request = {q1}
    Limit = 2
    WindowLen = 2
    Expiry = 3
    Delay = 1
    LocalLimit = 1
    MaxTime = 3
    MaxAsked = 4
    MaxCrashes = 1
SYMMETRY Alike
CHECK_DEADLOCK FALSE
SPECIFICATION RateSpec
INVARIANTS
    FallbackAnswers
