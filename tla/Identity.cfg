SPECIFICATION IdentitySpec
CONSTANTS
    Processes = {p1, p2}
    Legacy = {d1, d2}
    Old = {o1, o2}
    New = {n1, n2, n3}
    MaxStarts = 3
SYMMETRY Symmetry
INVARIANTS
    IdentityTypeOK
    OneIdentity
    LegacyKept
    RestartServes
PROPERTIES
    NeverReplaced
CHECK_DEADLOCK FALSE
