CONSTANTS
    r1 = r1
    r2 = r2
    c1 = c1
    c2 = c2
    Connections = {c1, c2}
    Codex = {c1}
    Skipped = {c1}
    Requests = {r1, r2}
    Accounts <- MCAccounts
    Sweeper = sweeper
    MaxToken = 3
    MaxPair = 4
    MaxTries = 2
    Calm = TRUE
SPECIFICATION Spec
INVARIANTS OneRefreshPerGroup RotationsComeHome
PROPERTIES HealthyStaysActive RefreshWaitEnds
CHECK_DEADLOCK FALSE
