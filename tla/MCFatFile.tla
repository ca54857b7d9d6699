----------------------------- MODULE MCFatFile -----------------------------
(* A file of at most three clusters of two bytes for TLC. *)
EXTENDS FatFile

\* One byte, and four that begin and end inside clusters when their offset is
\* odd.
MCBuffers == {<<1>>, <<2>>, <<1, 2, 1, 2>>}
MCReads   == {<<0, 2>>, <<0, 6>>, <<2, 4>>}
=============================================================================
