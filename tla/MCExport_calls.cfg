SPECIFICATION ExportSpec
CONSTANTS
    Ids = {i1, i2}
    Values = {v1, v2}
    Passphrases = {p1, p2}
    Identities = {k1}
    Recipients = {r1}
    Handlers = {h1, h2}
    Requests <- AdminRequests
    Exporter = h2
    Binary = {v2}
    Mangled = Mangled
    Faults = {}
    Nil = Nil
    Absent = Absent
    Partial = Partial
    Empty = Empty
SYMMETRY ExportSymmetry
INVARIANTS
    PromisedReadable
    VerifiedStillHolds
    ExportIsWhole
