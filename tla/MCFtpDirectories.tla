-------------------------- MODULE MCFtpDirectories --------------------------
(* A few directories for TLC. *)
EXTENDS FtpDirectories, TLC

CONSTANTS root, d1, d2, d3, n1, n2

Symmetry == Permutations(Dirs) \cup Permutations(Names)
=============================================================================
