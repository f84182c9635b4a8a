SPECIFICATION EvalSpec
CONSTANTS
    on = on  off = off  other = other  x = x  y = y  p = p  q = q
    Variation = {on, off, other}
    Condition = {p, q}
    Salt = {x, y}
    BucketCount = 4
    MaxTime = 2
    Subject <- Subjects
    Payload <- AllPayloads
    NewRule <- Rules
    Scheduled <- AllChanges
INVARIANTS NeverRaises RoundTrip EvaluatesAsDocumented
PROPERTIES GrowthKeepsCohort TimeKeepsCohort
CHECK_DEADLOCK FALSE
