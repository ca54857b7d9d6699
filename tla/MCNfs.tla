------------------------------- MODULE MCNfs -------------------------------
(* Small instances of the NFS server, its clients and its host for TLC. *)
EXTENDS NfsServer

CONSTANTS a, b, reader, lister, prober
=============================================================================
