SPECIFICATION FairSpec
PROPERTIES ForeignKeyIsInert VanishedSessionFrees
CONSTANTS
    Owners = {o1}
    Keys = {k1, k2}
    Connections = {c1, c2}
    Calls = {r1, r2}
    Ttl = 1
    OAuth = TRUE
    MaxRows = 2
