CONSTANTS
    f1 = f1
    e1 = e1
    r1 = r1
    h1 = h1
    h2 = h2
    Flag = {f1}
    Env = {e1}
    HomeEnv <- OneEnv
    Rule = {r1}
    Handler = {h1, h2}
    Existing = {}
    Ops <- AllOps
    MaxVersion = 3
    MaxGuess = 0
SYMMETRY Handlers
CHECK_DEADLOCK FALSE
SPECIFICATION Spec
INVARIANTS
    TypeOK
    LinearHistory
    OneWinner
    RollbackRestores
    AddRuleKeepsRest
    ArchivedGainsAtMostOne
PROPERTIES
    SnapshotsImmutable
    ImplementsHistory
