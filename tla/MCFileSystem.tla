---------------------------- MODULE MCFileSystem ----------------------------
(***************************************************************************)
(* A small instance of FileSystem for TLC.                                 *)
(***************************************************************************)
EXTENDS FileSystem

CONSTANTS n1, n2, v1, v2

MCPath == {<<n1>>, <<n2>>, <<n1, n2>>}

\* Two bytes, so that they can cross a block.
MCData == {<<v1, v2>>}
=============================================================================
