SPECIFICATION Spec
CONSTANTS
    Hosts = {h1}
    Ports = {80, 443}
    Logins = {l1, l2}
    Passphrases = {p1}
    Faults = {"file", "get", "set", "remove", "timeout", "crash"}
    Nil = Nil
    Absent = Absent
SYMMETRY Symmetry
INVARIANTS
    CliTypeOK
    PairFromOneLogin
    CallsGoWhereProbed
    ReadUsesLatestLogin
