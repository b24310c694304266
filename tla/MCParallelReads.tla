--------------------------- MODULE MCParallelReads ---------------------------
(***************************************************************************)
(* A small instance of ParallelReads for TLC.                              *)
(***************************************************************************)
EXTENDS ParallelReads

CONSTANTS f, g

MCFileBlocks == f :> <<10>> @@ g :> <<11>>

\* As in fs.c: four inodes and ten blocks.
MCCacheSize == [inode |-> 4, block |-> 10]
==============================================================================
