---------------------------- MODULE MCContentEngine ----------------------------
(* Instance of ContentEngine for TLC. *)
EXTENDS ContentInvariants, TLC

HashSymmetry == Permutations(Hash)
================================================================================
