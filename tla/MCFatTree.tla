----------------------------- MODULE MCFatTree -----------------------------
(* Small instances of the tree of the file system for TLC. *)
EXTENDS FatTree

CONSTANTS n1, n2, long

Symmetry == Permutations(Names)
=============================================================================
