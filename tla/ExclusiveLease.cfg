SPECIFICATION Spec
INVARIANTS IndexesHold GenerationsEnd
PROPERTIES ImplementsRegistry
SYMMETRY LeaseSymmetry
CONSTANTS
    Owners = {o1, o2}
    Keys = {k1}
    Connections = {c1, c2}
    Calls = {r1, r2}
    Ttl = 1
    OAuth = FALSE
    MaxRows = 3
