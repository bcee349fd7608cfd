------------------------------ MODULE MCVault ------------------------------
(* Small instances of Vault for TLC.                                        *)
EXTENDS VaultRefinement, TLC

AllFaults == {"read", "write", "delete", "crash"}
Symmetry == Permutations(Ids) \cup Permutations(Values)
              \cup Permutations(Recipients) \cup Permutations(Passphrases)
              \cup Permutations(Identities)

(* Leaves out what no guard and none of the run's properties read.          *)
WithoutValueHistory == <<up, memory, idFile, recFile, metaFile, valFile, call,
                         life, confirmed>>
=============================================================================
