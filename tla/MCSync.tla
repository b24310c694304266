------------------------------- MODULE MCSync -------------------------------
(***************************************************************************)
(* Small instances of Sync for TLC: one monitor, two or three threads, two *)
(* dynamic priorities.                                                     *)
(***************************************************************************)
EXTENDS Sync, TLC

CONSTANTS main, a, b, x

Symmetry == Permutations({a, b})

\* The clamped static priority and a dynamic one below that of the main thread.
MCCreatePrios == {-1, 2}
=============================================================================
