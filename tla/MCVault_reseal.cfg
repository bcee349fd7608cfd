SPECIFICATION Spec
CONSTANTS
    Ids = {i1}
    Values = {v1}
    Passphrases = {p1}
    Identities = {k1}
    Recipients = {r1, r2}
    Faults = {"read"}
    Nil = Nil
    Absent = Absent
    Partial = Partial
    Empty = Empty
INVARIANTS
    RecoveryConfirmed
