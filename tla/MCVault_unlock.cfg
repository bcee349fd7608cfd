SPECIFICATION Spec
CONSTANTS
    Ids = {i1}
    Values = {v1}
    Passphrases = {p1}
    Identities = {k1}
    Recipients = {r1}
    Faults = {"write"}
    Nil = Nil
    Absent = Absent
    Partial = Partial
    Empty = Empty
PROPERTIES
    FailedUnlockLeavesLocked
CHECK_DEADLOCK FALSE
