SPECIFICATION Spec
PROPERTIES EligibleBindingIsKept
CONSTANTS
    Owners = {o1}
    Keys = {k1}
    Connections = {c1, c2}
    Calls = {r1, r2}
    Ttl = 2
    OAuth = TRUE
    MaxRows = 3
