SPECIFICATION StoreSpec
CONSTANTS
    Ids = {i1}
    Values = {v1}
    Passphrases = {p1}
    Identities = {k1}
    Recipients = {r1}
    Handlers = {h1, h2}
    Requests <- MixedRequests
    Faults = {}
    Nil = Nil
    Absent = Absent
    Partial = Partial
    Empty = Empty
PROPERTIES
    ReadEndsNoProcess
