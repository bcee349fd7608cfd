SPECIFICATION FairStoreSpec
CONSTANTS
    Ids = {i1}
    Values = {v1, v2}
    Passphrases = {p1}
    Identities = {k1}
    Recipients = {r1}
    Handlers = {h1, h2}
    Requests <- UnlockedRequests
    Faults = {"write", "crash"}
    Nil = Nil
    Absent = Absent
    Partial = Partial
    Empty = Empty
INVARIANTS
    NeverMismatched
    RefusedLeavesNothing
PROPERTIES
    Answered
CHECK_DEADLOCK FALSE
