SPECIFICATION Spec
CONSTANTS
    Ids = {i1}
    Values = {v1, v2}
    Passphrases = {p1, p2}
    Identities = {k1, k2}
    Recipients = {r1, r2}
    Faults = {"read", "write", "delete", "crash"}
    Nil = Nil
    Absent = Absent
    Partial = Partial
    Empty = Empty
SYMMETRY Symmetry
INVARIANTS
    TypeOK
    SealedByIdentity
    AckedValueKept
    NoStaleRead
    RecoveryOnDisk
PROPERTIES
    IdentityNeverRewritten
CHECK_DEADLOCK FALSE
