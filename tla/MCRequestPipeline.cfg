SPECIFICATION FairSpec
CHECK_DEADLOCK FALSE
CONSTANTS
    None = None
    Chains <- AllChains
    InjectedCodes <- UnavailableOrInterim
    UpstreamCodes <- NotFoundOrSwitch
    EarlyHints = TRUE
    HijackResults <- YesOrNo
    Uploads <- ReadOrUnread
INVARIANTS
    TypeOK
    OneEventPerRequest
    ErrorsAreProxyFailures
    ShortCircuitsStayLocal
    ForwardedRequestsDrain
PROPERTIES
    InjectedWaitsEnd
    AbandonedRequestsEnd
