----------------------------- MODULE MCFtpFiles -----------------------------
(* Files of up to five bytes, stored and retrieved with a buffer of two. *)
EXTENDS FtpFiles

MCUploads == {<<>>, <<1>>, <<2, 1, 2, 1, 1>>}
=============================================================================
