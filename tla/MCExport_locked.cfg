SPECIFICATION ExportSpec
CONSTANTS
    Ids = {i1}
    Values = {v1}
    Passphrases = {p1}
    Identities = {k1}
    Recipients = {r1}
    Handlers = {h1, h2}
    Requests <- LockingRequests
    Exporter = h2
    Binary = {}
    Mangled = Mangled
    Faults = {}
    Nil = Nil
    Absent = Absent
    Partial = Partial
    Empty = Empty
INVARIANTS
    ExportsAllItems
