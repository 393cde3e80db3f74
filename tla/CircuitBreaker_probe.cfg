SPECIFICATION FairSpec
CONSTANTS
    Calls = {c1}
    RateLimit = rate_limit
    Transient = transient
    Kinds = {rate_limit, transient}
    NoKind = none
    NoRow = no_row
    FailureThreshold = 3
    DegradationThreshold = 2
    HalfOpenRequests = 1
    KindLimit <- NoKindLimits
    KindCooldown <- MCKindCooldown
    ResetTimeout = 1
    EscalationCount = 1
    MaxMultiplier = 3
    LongAgo = 3
    MaxThreshold = 3
    MaxCycles = 3
    Options = {}
PROPERTY HalfOpenIsDecided
