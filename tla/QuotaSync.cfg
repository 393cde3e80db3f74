SPECIFICATION SyncSpec
PROPERTY QueueKeepsFlowing
CHECK_DEADLOCK FALSE
CONSTANTS
    r1 = r1
    c1 = c1
    c2 = c2
    Connections = {c1, c2}
    Codex = {c1}
    Skipped = {c1, c2}
    Requests = {r1}
    Accounts <- MCAccounts
    Sweeper = sweeper
    MaxToken = 2
    MaxPair = 3
    MaxTries = 1
    Calm = TRUE
    Syncs = {q1}
