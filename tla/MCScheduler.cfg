SPECIFICATION SchedSpec
CONSTANTS
    c1 = c1  c2 = c2  c3 = c3
    f1 = f1  f2 = f2  f3 = f3  e1 = e1  e2 = e2
    Change = {c1, c2, c3}
    Flag = {f1, f2, f3}
    Env = {e1, e2}
    Scheduler = {s1, s2}
    Manager = {m1}
    FlagOf <- FlagOfThree
    HomeEnv <- HomeOfThree
    At <- AtThree
    Bad = {}
    Archivable = {f2}
    Limit = 2
    MaxTime = 1
    MaxVersion = 2
    MaxCrashes = 1
INVARIANTS SchedTypeOK AppliedOnce DerivedFromLast
PROPERTY AppliedWhenClear
CHECK_DEADLOCK FALSE
