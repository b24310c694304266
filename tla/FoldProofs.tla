----------------------------- MODULE FoldProofs ------------------------------
(***************************************************************************)
(* What FoldLeft of the community modules computes, for one operator op:   *)
(* the values it goes through, from the first element of a sequence to the *)
(* last.  An instance of this module for an operator of a specification    *)
(* says it of that operator.                                               *)
(***************************************************************************)
EXTENDS Integers, NaturalsInduction, WellFoundedInduction, TLAPS

CONSTANT op(_, _)

\* Max of FiniteSetsExt, and FoldLeft(op, base, seq) without its arguments that are
\* operators.
Top(s) == CHOOSE x \in s : \A y \in s : x >= y

Iterates(iter, base, seq, S) ==
    iter = [s \in SUBSET S |-> IF s = {} THEN base
                               ELSE op(iter[s \ {Top(s)}], seq[Top(s)])]

Folded(base, seq) == (CHOOSE iter : Iterates(iter, base, seq, DOMAIN seq))[DOMAIN seq]

\* g[k] is what the first k elements give.
Values(g, base, seq, n) ==
    /\ g[0] = base
    /\ \A k \in 1 .. n : g[k] = op(g[k - 1], seq[k])
    /\ Folded(base, seq) = g[n]

\* Induction from 0 up to n.
LEMMA CountUp ==
  ASSUME NEW n \in Nat, NEW G, 0 \in G, \A k \in 1 .. n : k - 1 \in G => k \in G
  PROVE  n \in G /\ \A k \in 0 .. n : k \in G
<1> DEFINE R == OpToRel(<, Nat)
           Bad == (0 .. n) \ G
<1>1. IsWellFoundedOn(R, Nat)
  BY NatLessThanWellFounded
<1>2. \A x, y \in Nat : <<x, y>> \in R <=> x < y
  BY DEF OpToRel
<1> HIDE DEF R
<1>3. ASSUME Bad # {} PROVE FALSE
  <2> HIDE DEF Bad
  <2>0. Bad \subseteq Nat
    BY DEF Bad
  <2>1. PICK m \in Bad : \A k \in Bad : ~(<<k, m>> \in R)
    BY <1>1, <1>3, <2>0, WFMin
  <2>2. m \in 0 .. n /\ m \notin G
    BY <2>1 DEF Bad
  <2>3. m \in 1 .. n /\ m - 1 \in 0 .. n /\ m - 1 < m
    BY <2>2
  <2>4. m - 1 \notin G
    BY <2>2, <2>3
  <2>5. m - 1 \in Bad
    BY <2>3, <2>4 DEF Bad
  <2>6. <<m - 1, m>> \in R
    BY <1>2, <2>2, <2>3, m - 1 \in Nat, m \in Nat
  <2> QED
    BY <2>1, <2>5, <2>6
<1>4. \A k \in 0 .. n : k \in G
  BY <1>3
<1>5. n \in 0 .. n
  OBVIOUS
<1> QED
  BY <1>4, <1>5

LEMMA TopIs ==
  ASSUME NEW k \in Nat, NEW s, s \subseteq 1 .. k, k \in s
  PROVE  Top(s) = k
<1>1. \A y \in s : k >= y
  OBVIOUS
<1>2. Top(s) \in s /\ \A y \in s : Top(s) >= y
  BY <1>1 DEF Top
<1> DEFINE t == Top(s)
<1>3. t \in s /\ t >= k
  BY <1>2
<1> HIDE DEF t
<1>4. t \in 1 .. k
  BY <1>3
<1>5. t = k
  BY <1>3, <1>4
<1> QED
  BY <1>5 DEF t

LEMMA IterExists ==
  ASSUME NEW base, NEW seq, NEW n \in Nat
  PROVE  \E iter : Iterates(iter, base, seq, 1 .. n)
<1> DEFINE G == {k \in 0 .. n : \E iter : Iterates(iter, base, seq, 1 .. k)}
<1>1. 0 \in G
  <2> DEFINE iter == [s \in SUBSET (1 .. 0) |-> base]
  <2>1. \A s \in SUBSET (1 .. 0) : s = {}
    OBVIOUS
  <2>2. Iterates(iter, base, seq, 1 .. 0)
    BY <2>1 DEF Iterates
  <2> HIDE DEF iter
  <2> QED
    BY <2>2
<1>2. ASSUME NEW k \in 1 .. n, k - 1 \in G PROVE k \in G
  <2>1. PICK old : Iterates(old, base, seq, 1 .. (k - 1))
    BY <1>2
  <2> DEFINE iter == [s \in SUBSET (1 .. k) |->
                        IF k \in s THEN op(old[s \ {k}], seq[k]) ELSE old[s]]
  <2>0. k \in Nat
    OBVIOUS
  <2>2. ASSUME NEW s \in SUBSET (1 .. k)
        PROVE  iter[s] = IF s = {} THEN base
                         ELSE op(iter[s \ {Top(s)}], seq[Top(s)])
    <3>1. CASE k \in s
      <4>1. Top(s) = k
        BY <2>0, <3>1, TopIs
      <4>2. s \ {k} \in SUBSET (1 .. k) /\ k \notin s \ {k} /\ s # {}
        BY <3>1
      <4>3. iter[s \ {k}] = old[s \ {k}]
        BY <4>2
      <4> QED
        BY <3>1, <4>1, <4>2, <4>3
    <3>2. CASE k \notin s
      <4>1. s \subseteq 1 .. (k - 1)
        BY <2>0, <3>2
      <4>0. \A x : s \ {x} \in SUBSET (1 .. k)
        OBVIOUS
      <4>2. old[s] = IF s = {} THEN base ELSE op(old[s \ {Top(s)}], seq[Top(s)])
        BY <2>1, <4>1 DEF Iterates
      <4>3. iter[s] = old[s] /\ iter[s \ {Top(s)}] = old[s \ {Top(s)}]
        BY <3>2, <4>0, <4>1
      <4> QED
        BY <4>2, <4>3
    <3> QED
      BY <3>1, <3>2
  <2>3. iter = [s \in SUBSET (1 .. k) |-> iter[s]]
    OBVIOUS
  <2> HIDE DEF iter
  <2>4. Iterates(iter, base, seq, 1 .. k)
    BY <2>2, <2>3 DEF Iterates
  <2> QED
    BY <2>4
<1> HIDE DEF G
<1>3. n \in G
  BY <1>1, <1>2, CountUp
<1> QED
  BY <1>3 DEF G

\* The values a fold goes through.
LEMMA FoldSteps ==
  ASSUME NEW base, NEW seq, NEW n \in Nat, DOMAIN seq = 1 .. n
  PROVE  \E g : Values(g, base, seq, n)
<1> DEFINE iter == CHOOSE h : Iterates(h, base, seq, 1 .. n)
           g == [k \in 0 .. n |-> iter[1 .. k]]
<1>1. Iterates(iter, base, seq, 1 .. n)
  BY IterExists
<1>2. Folded(base, seq) = iter[1 .. n]
  BY DEF Folded
<1> HIDE DEF iter
<1>3. g[0] = base
  BY <1>1 DEF Iterates
<1>4. ASSUME NEW k \in 1 .. n PROVE g[k] = op(g[k - 1], seq[k])
  <2>1. Top(1 .. k) = k
    BY TopIs
  <2>2. (1 .. k) \ {k} = 1 .. (k - 1) /\ 1 .. k # {} /\ 1 .. k \in SUBSET (1 .. n)
    OBVIOUS
  <2>3. iter[1 .. k] = op(iter[1 .. (k - 1)], seq[k])
    BY <1>1, <2>1, <2>2 DEF Iterates
  <2> QED
    BY <2>3
<1>5. g[n] = iter[1 .. n]
  OBVIOUS
<1> HIDE DEF g
<1> QED
  BY <1>2, <1>3, <1>4, <1>5 DEF Values
=============================================================================
