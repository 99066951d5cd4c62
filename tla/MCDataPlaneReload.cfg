SPECIFICATION Spec
SYMMETRY RequestSymmetry
CHECK_DEADLOCK FALSE
CONSTANTS
    path = path
    rule = rule
    scenario = scenario
    None = None
    Paths = {path}
    Rules = {}
    Scenarios = {scenario}
    Configs <- Redefining
    Watchers = {w}
    Clients = {}
    Resetters = {}
    Requests = {q1, q2}
    MaxDraws = 2
    MaxRestarts = 2
INVARIANTS
    TypeOK
    QuietSequencesAreNotMixed
    StepsFollowEachOther
