SPECIFICATION Spec
CONSTANTS
    Ids = {i1, i2}
    Values = {v1, v2}
    Passphrases = {p1, p2}
    Identities = {k1}
    Recipients = {r1, r2}
    Faults = {"crash"}
    Nil = Nil
    Absent = Absent
    Partial = Partial
    Empty = Empty
VIEW WithoutValueHistory
SYMMETRY Symmetry
INVARIANTS
    RecoveryConfirmed
    IndexMatchesDisk
    DeletedStaysDeleted
PROPERTIES
    ImplementsStore
CHECK_DEADLOCK FALSE
