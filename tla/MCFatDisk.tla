----------------------------- MODULE MCFatDisk -----------------------------
(* Small instances of the disk for TLC. *)
EXTENDS FatDisk, TLC

CONSTANTS n1, n2, long

\* No action and no invariant depends on the last reply.
NoReply == <<fat, free, slots, daemon, disk, todo, kind, at, crashes>>

Symmetry == Permutations(Names)
=============================================================================
