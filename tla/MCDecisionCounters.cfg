SPECIFICATION Spec
SYMMETRY RequestSymmetry
CHECK_DEADLOCK FALSE
CONSTANTS
    rule = rule
    scenario = scenario
    Keys = {rule, scenario}
    Requests = {q1, q2, q3}
    None = None
    MaxDraws = 3
    MaxRestarts = 1
INVARIANTS
    NoRestartedSequenceContinues
    IndexesAdvance
    NoIndexSkipped
