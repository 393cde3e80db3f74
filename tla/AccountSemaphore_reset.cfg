SPECIFICATION FairSpec
CONSTANTS
    Clients = {c1, c2, c3, c4}
    Caps = {1}
    QueueSize = 2
    MaxCooldown = 2
    Probes = FALSE
    Resets = TRUE
    NoGate = no_gate
INVARIANTS
    NoSlotLeaks
    IdleGateIsAttended
PROPERTY WaitersAreServed
