SPECIFICATION Spec
CONSTANTS
    Requests = {r1, r2, r3}
    Modes = {"single"}
    MaxTries = 1
    Kinds = {}
    NoKind = none
    NoRow = no_row
    FailureThreshold = 3
    DegradationThreshold = 2
    HalfOpenRequests = 1
    KindLimit <- NoLimits
    KindCooldown <- NoLimits
    ResetTimeout = 2
    EscalationCount = 1
    MaxMultiplier = 2
    LongAgo = 4
    MaxThreshold = 3
    MaxCycles = 2
PROPERTY OnlyProbesClose
