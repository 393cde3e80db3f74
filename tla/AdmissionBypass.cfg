SPECIFICATION BypassSpec
CONSTANTS
    heavy = heavy
    b = b
    c = c
    d = d
    e = e
    Requests <- MCRequests
    Tenant <- MCTenant
    Cost <- MCCost
    MinLimit = 2
    InitialLimit = 2
    MaxLimit = 2
    Step = 1
    MaxQueueCount = 3
    MaxQueueCost = 5
    MaxBypassed = 5
INVARIANTS BypassIsBounded
CHECK_DEADLOCK FALSE
