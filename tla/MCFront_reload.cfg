SPECIFICATION FairSpec
CONSTANTS
    Conns = {c1, c2}
    Loopback = {lo}
    Interfaces = {a1, a2}
    Elsewhere = {b}
    MaxVersion = 2
    Faults = {"start", "lookup", "accept"}
    Nil = Nil
    Torn = Torn
INVARIANTS
    FrontTypeOK
    ServedPairMatches
    OnlyRemotePeers
PROPERTIES
    NeverOlder
    Decided
    RenewalServed
