SPECIFICATION Spec
PROPERTIES SendIsExclusive
CONSTANTS
    Owners = {o1, o2}
    Keys = {k1}
    Connections = {c1}
    Calls = {r1, r2}
    Ttl = 1
    OAuth = TRUE
    MaxRows = 2
