SPECIFICATION Spec
SYMMETRY RequestSymmetry
CHECK_DEADLOCK FALSE
CONSTANTS
    path = path
    rule = rule
    scenario = scenario
    None = None
    Paths = {path}
    Rules = {rule}
    Scenarios = {scenario}
    Configs <- Switching
    Watchers = {w}
    Clients = {c}
    Resetters = {o}
    Requests = {q1}
    MaxDraws = 2
    MaxRestarts = 1
INVARIANTS
    NoSequenceSurvivesReset
