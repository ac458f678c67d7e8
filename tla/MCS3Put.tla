------------------------------- MODULE MCS3Put ------------------------------
(* Instances of S3Put for TLC. *)
EXTENDS S3Put

\* Files that differ in one block, and a shorter one.  With parts of two blocks
\* the longer ones have two, the last of them short; with parts of three they
\* are one full part, and the shorter one is put at once.
MCVersions == {<<1, 1, 2>>, <<2, 1, 2>>, <<1, 2>>}
=============================================================================
