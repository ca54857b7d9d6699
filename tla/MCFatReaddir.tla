---------------------------- MODULE MCFatReaddir ----------------------------
(* Small directories for TLC. *)
EXTENDS FatReaddir

CONSTANTS n1, n2, n3, Foreigner
=============================================================================
