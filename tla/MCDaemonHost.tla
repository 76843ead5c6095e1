----------------------------- MODULE MCDaemonHost ------------------------------
(* Instances of DaemonHost for TLC. *)
EXTENDS DaemonHost, TLC

Symmetry == Permutations(Client)
================================================================================
