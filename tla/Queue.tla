-------------------------------- MODULE Queue --------------------------------
(***************************************************************************)
(* A queue_t is a FIFO, modelled as a sequence: queue_insert is Append,    *)
(* queue_remove takes the Head and leaves the Tail.                        *)
(***************************************************************************)
EXTENDS Integers, Sequences, FiniteSets, Functions

(***************************************************************************)
(* The elements of s that are in S, in the order they have in s.  It is    *)
(* what the code's drain-and-rebuild loops leave in the rebuilt queue      *)
(* (and, for the complement of S, what they take out, in which order).     *)
(* The k-th kept element is the one at the position of rank k.             *)
(***************************************************************************)
Positions(s, S) == {i \in 1 .. Len(s) : s[i] \in S}
Rank(P, i) == Cardinality({j \in P : j <= i})
KeepOnly(s, S) ==
    LET P == Positions(s, S)
    IN  [k \in 1 .. Cardinality(P) |-> s[CHOOSE i \in P : Rank(P, i) = k]]

\* No element occurs twice in s.
NoDuplicates(s) == \A i, j \in 1 .. Len(s) : s[i] = s[j] => i = j
=============================================================================
