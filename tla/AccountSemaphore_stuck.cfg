SPECIFICATION FairSpec
CONSTANTS
    Clients = {c1, c2, c3}
    Caps = {1}
    QueueSize = 2
    MaxCooldown = 1
    Probes = TRUE
    Resets = FALSE
    NoGate = no_gate
PROPERTY WaitersAreServed
