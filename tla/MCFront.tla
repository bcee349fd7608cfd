------------------------------- MODULE MCFront -------------------------------
(* A small instance of Front for TLC: a host with two addresses besides     *)
(* loopback, one other host, two connections, two renewals.                 *)
EXTENDS Front, TLC
=============================================================================
