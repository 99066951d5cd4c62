SPECIFICATION FairSpec
CONSTANTS
    r1 = r1
    r2 = r2
    None = None
    Watchers = {w}
    Clients = {c1, c2}
    Rules <- MCRules
    Configs <- MCConfigs
INVARIANTS
    OverridesContradictFile
    ActiveConfigCompiles
    SwapsWhatItRead
PROPERTIES
    SwitchesAreKept
    ImplementsRuleToggles
    SomeCallFinishes
