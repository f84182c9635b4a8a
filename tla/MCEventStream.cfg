CONSTANTS
    f1 = f1  f2 = f2  e1 = e1  r1 = r1  h1 = h1  h2 = h2
    Flag = {f1, f2}
    Env = {e1}
    HomeEnv <- OneEnv
    Rule = {}
    Handler = {h1, h2}
    Existing = {f1, f2}
    Ops = {"update"}
    MaxVersion = 2
    MaxGuess = 0
    Watched = e1
    MaxBreaks = 1
CHECK_DEADLOCK FALSE
SPECIFICATION StreamSpec
INVARIANTS
    AnnouncedNotAhead
    EtagMeansCurrent
    SilenceMeansCurrent
PROPERTIES
    StreamRepairs
