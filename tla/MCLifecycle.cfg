SPECIFICATION FairSpec
CONSTANTS
    r1 = r1
    r2 = r2
    None = None
    Requests = {r1, r2}
    Upgrades = {r2}
    Limits = {0, 1}
    ExitOnError = TRUE
    WatchConfig = TRUE
INVARIANTS
    TypeOK
    ReportIsComplete
    StopReasonIsTrue
    ReportExplainsExitCode
PROPERTIES
    OnlySlowPeersAreCut
    RunEnds
