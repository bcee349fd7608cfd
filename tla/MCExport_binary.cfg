SPECIFICATION ExportSpec
CONSTANTS
    Ids = {i1}
    Values = {v1, v2}
    Passphrases = {p1}
    Identities = {k1}
    Recipients = {r1}
    Handlers = {h1, h2}
    Requests <- CreateRequests
    Exporter = h2
    Binary = {v2}
    Mangled = Mangled
    Faults = {}
    Nil = Nil
    Absent = Absent
    Partial = Partial
    Empty = Empty
INVARIANTS
    ExportsValuesAsCreated
