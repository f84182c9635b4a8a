CONSTANTS
    f1 = f1
    f2 = f2
    e1 = e1
    r1 = r1
    h1 = h1
    h2 = h2
    Flag = {f1, f2}
    Env = {e1}
    HomeEnv <- OneEnv
    Rule = {r1}
    Handler = {h1, h2}
    Existing = {f1}
    Ops = {"update", "create"}
    MaxVersion = 2
    MaxGuess = 0
    Watched = e1
CHECK_DEADLOCK FALSE
SPECIFICATION SyncSpec
INVARIANTS
    EtagMeansCurrent
