SPECIFICATION Spec
CHECK_DEADLOCK FALSE
CONSTANTS
    None = None
    Chains <- NoChains
    InjectedCodes <- UnavailableOrInterim
    UpstreamCodes <- NotFound
    EarlyHints = TRUE
    HijackResults <- Yes
    Uploads <- Read
INVARIANTS
    ResponsesPassThrough
