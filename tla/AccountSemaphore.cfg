SPECIFICATION Spec
CONSTANTS
    Clients = {c1, c2, c3, c4}
    Caps = {1, 2}
    QueueSize = 2
    MaxCooldown = 2
    Probes = TRUE
    Resets = FALSE
    NoGate = no_gate
SYMMETRY ClientSymmetry
INVARIANTS
    TypeOK
    QueueIsTheWaiters
    RunningCountsHolders
PROPERTY ImplementsLimiter
