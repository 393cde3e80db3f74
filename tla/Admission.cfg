SPECIFICATION Spec
CONSTANTS
    a1 = a1
    a2 = a2
    b = b
    c = c
    Requests <- MCRequests
    Tenant <- MCTenant
    Cost <- MCCost
    MinLimit = 1
    InitialLimit = 3
    MaxLimit = 4
    Step = 1
    MaxQueueCount = 3
    MaxQueueCost = 6
INVARIANTS TypeOK NobodyIsStranded
PROPERTIES ReservationsHold IdleRecovers
CHECK_DEADLOCK FALSE
