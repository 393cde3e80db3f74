SPECIFICATION Spec
CONSTANTS
    p1 = p1
    p2 = p2
    p3 = p3
    q1 = q1
    a = a
    b = b
    Requests <- MCRequests
    Accounts <- MCAccounts
    Prompt <- MCPrompt
    Rest <- MCRest
    MaxInflight = 1
INVARIANTS OthersKeepServing
