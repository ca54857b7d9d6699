------------------------------- MODULE MCFtp -------------------------------
(* Small instances of the FTP server and its clients for TLC. *)
EXTENDS FtpServer

CONSTANTS c1, c2, c3
=============================================================================
