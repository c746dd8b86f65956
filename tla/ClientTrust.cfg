SPECIFICATION TrustSpec
CONSTANTS
    Clients = {c1, c2}
    Identities = {own, next, other}
    NoFingerprint = NoFingerprint
    Absent = Absent
    Torn = Torn
    MaxStarts = 4
INVARIANTS
    TrustTypeOK
    VouchedOnly
    RefusalHasCause
CHECK_DEADLOCK FALSE
