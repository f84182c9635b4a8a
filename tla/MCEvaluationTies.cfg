SPECIFICATION EvalSpec
CONSTANTS
    on = on  off = off  other = other  x = x  y = y  p = p  q = q
    Variation = {on, off, other}
    Condition = {}
    Salt = {x, y}
    BucketCount = 4
    MaxTime = 2
    Subject <- Subjects
    Payload <- TiedPayloads
    NewRule <- NoRules
    Scheduled <- AllChanges
INVARIANT Deterministic
CHECK_DEADLOCK FALSE
