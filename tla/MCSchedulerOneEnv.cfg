SPECIFICATION SchedSpec
CONSTANTS
    c1 = c1  c2 = c2  c3 = c3
    f1 = f1  f2 = f2  f3 = f3  e1 = e1  e2 = e2
    Change = {c1, c2}
    Flag = {f1, f2}
    Env = {e1}
    Scheduler = {s1}
    Manager = {m1}
    FlagOf <- FlagOfTwo
    HomeEnv <- Together
    At <- AtTwo
    Bad = {}
    Archivable = {}
    Limit = 2
    MaxTime = 1
    MaxVersion = 2
    MaxCrashes = 1
PROPERTY EventuallyApplied
CHECK_DEADLOCK FALSE
