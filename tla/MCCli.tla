-------------------------------- MODULE MCCli --------------------------------
(* A small instance of Cli for TLC: one host, whose two well-known ports    *)
(* each serve TLS, plain gRPC or something else.                            *)
EXTENDS Cli, TLC

Symmetry == Permutations(Logins) \cup Permutations(Passphrases)
=============================================================================
