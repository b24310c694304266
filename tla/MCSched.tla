------------------------------ MODULE MCSched -------------------------------
(***************************************************************************)
(* Small instances of Sched for TLC: three threads, one static and three   *)
(* dynamic priorities, a base quantum of two ticks.                        *)
(***************************************************************************)
EXTENDS SchedLife, TLC

CONSTANTS m, a, b

\* Below the range, so clamped to the static priority, and a dynamic one.
MCCreatePrios == {-1, 2}

\* The threads other than the main one are interchangeable.
Symmetry == Permutations({a, b})

\* KeepOnly is SelectSeq.
ASSUME KeepOnlyIsSelectSeq ==
    \A n \in 0 .. 4 : \A s \in [1 .. n -> 1 .. 3] : \A S \in SUBSET (1 .. 3) :
        LET Kept(x) == x \in S IN KeepOnly(s, S) = SelectSeq(s, Kept)
=============================================================================
