------------------------------- MODULE MCFat -------------------------------
(* Small instances of the file system for TLC. *)
EXTENDS Fat, TLC

CONSTANTS n1, n2, long

Symmetry == Permutations(Names)
=============================================================================
