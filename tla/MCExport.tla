------------------------------ MODULE MCExport ------------------------------
(* Small instances of Export for TLC: one exporting client, and             *)
(* administrators who use the server meanwhile.                             *)
EXTENDS MCCredStore, Export

(* Items are created, and nobody locks.                                     *)
CreateRequests ==
    [rpc : {"unlock"}, pass : Passphrases]
    \cup [rpc : {"create"}, pass : Passphrases, val : Values]

LockingRequests == CreateRequests \cup [rpc : {"lock"}]

ExportSymmetry == Permutations(Ids) \cup Permutations(Passphrases)
=============================================================================
