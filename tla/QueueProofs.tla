----------------------------- MODULE QueueProofs -----------------------------
(***************************************************************************)
(* Lemmas about the operations of module Queue and those of sequences, for *)
(* queues of any length: what each returns, which elements it keeps, and   *)
(* that it neither loses nor repeats one.                                  *)
(***************************************************************************)
EXTENDS Queue, SequenceTheorems, FiniteSetTheorems, NaturalsInduction,
        WellFoundedInduction, TLAPS

-----------------------------------------------------------------------------
(* Numbers.                                                                *)

\* A set of naturals that is not empty has a least element.
LEMMA LeastNatural ==
  ASSUME NEW S \in SUBSET Nat, S # {}
  PROVE  \E m \in S : \A k \in S : m <= k
<1> DEFINE R == OpToRel(<, Nat)
<1>1. IsWellFoundedOn(R, Nat)
  BY NatLessThanWellFounded
<1>2. \A x, y \in Nat : <<x, y>> \in R <=> x < y
  BY DEF OpToRel
<1> HIDE DEF R
<1>3. PICK m \in S : \A k \in S : ~(<<k, m>> \in R)
  BY <1>1, WFMin
<1>4. ASSUME NEW k \in S
      PROVE  m <= k
  <2>1. k \in Nat /\ m \in Nat
    OBVIOUS
  <2>2. ~(k < m)
    BY <1>2, <1>3, <2>1, Zenon
  <2> QED
    BY <2>1, <2>2
<1> QED
  BY <1>4

-----------------------------------------------------------------------------
(* KeepOnly.                                                               *)

\* The positions that are kept are finitely many.
LEMMA PositionsFinite ==
  ASSUME NEW T, NEW s \in Seq(T), NEW S
  PROVE  /\ IsFiniteSet(Positions(s, S))
         /\ Cardinality(Positions(s, S)) \in Nat
         /\ Positions(s, S) \subseteq 1 .. Len(s)
<1>1. Len(s) \in Nat
  BY LenProperties
<1>2. IsFiniteSet(1 .. Len(s))
  BY <1>1, FS_Interval
<1>3. Positions(s, S) \in SUBSET (1 .. Len(s))
  BY DEF Positions
<1>4. IsFiniteSet(Positions(s, S))
  BY <1>2, <1>3, FS_Subset
<1> QED
  BY <1>3, <1>4, FS_CardinalityType

\* Ranks count from 1 to the number of positions, in the order of the positions.
LEMMA RankInRange ==
  ASSUME NEW P, IsFiniteSet(P), P \subseteq Int, NEW i \in P
  PROVE  /\ Rank(P, i) \in 1 .. Cardinality(P)
         /\ \A j \in P : i < j => Rank(P, i) < Rank(P, j)
<1> DEFINE Below(x) == {k \in P : k <= x}
<1>1. ASSUME NEW x
      PROVE  IsFiniteSet(Below(x)) /\ Cardinality(Below(x)) \in Nat
             /\ Cardinality(Below(x)) <= Cardinality(P)
  <2>1. Below(x) \in SUBSET P
    OBVIOUS
  <2> QED
    BY <2>1, FS_Subset, FS_CardinalityType
<1>2. Cardinality(P) \in Nat
  BY FS_CardinalityType
<1>3. Cardinality(Below(i)) # 0
  <2>1. i \in Below(i)
    OBVIOUS
  <2> QED
    BY <1>1, <2>1, FS_EmptySet
<1>4. ASSUME NEW j \in P, i < j
      PROVE  Cardinality(Below(i)) < Cardinality(Below(j))
  <2>1. Below(i) \in SUBSET Below(j)
    <3>1. i \in Int /\ j \in Int /\ i < j
      BY <1>4
    <3>2. \A k \in P : k \in Int /\ (k <= i => k <= j)
      BY <3>1
    <3>3. Below(i) \subseteq Below(j)
      BY <3>2
    <3> QED
      BY <3>3
  <2>2. j \in Below(j) /\ j \notin Below(i)
    BY <1>4
  <2>3. Cardinality(Below(i)) <= Cardinality(Below(j))
        /\ (Cardinality(Below(j)) = Cardinality(Below(i)) => Below(j) = Below(i))
    BY <1>1, <2>1, FS_Subset
  <2> QED
    BY <1>1, <2>2, <2>3
<1> QED
  BY <1>1, <1>2, <1>3, <1>4 DEF Rank

\* Every rank is that of some position.
LEMMA RankOnto ==
  ASSUME NEW P, IsFiniteSet(P), P \subseteq Int, NEW k \in 1 .. Cardinality(P)
  PROVE  \E i \in P : Rank(P, i) = k
<1> DEFINE f == [i \in P |-> Rank(P, i)]
           N == 1 .. Cardinality(P)
<1>1. Cardinality(P) \in Nat
  BY FS_CardinalityType
<1>2. IsFiniteSet(N) /\ Cardinality(N) = Cardinality(P)
  BY <1>1, FS_Interval
<1>3. f \in [P -> N]
  BY RankInRange
<1>4. \A i, j \in P : f[i] = f[j] => i = j
  <2> SUFFICES ASSUME NEW i \in P, NEW j \in P, i # j
               PROVE  f[i] # f[j]
    OBVIOUS
  <2>1. i < j \/ j < i
    OBVIOUS
  <2>2. f[i] \in Int /\ f[j] \in Int
    BY <1>1, <1>3
  <2>3. i < j => f[i] < f[j]
    BY RankInRange
  <2>4. j < i => f[j] < f[i]
    BY RankInRange
  <2> QED
    BY <2>1, <2>2, <2>3, <2>4
<1>5. f \in Injection(P, N)
  BY <1>3, <1>4 DEF Injection, IsInjective
<1>6. f \in Surjection(P, N)
  BY <1>2, <1>5, FS_Injection
<1> QED
  BY <1>6 DEF Surjection

\* KeepOnly is a sequence of elements of s, one for each position kept.
LEMMA KeepOnlyElements ==
  ASSUME NEW T, NEW s \in Seq(T), NEW S
  PROVE  /\ KeepOnly(s, S) \in Seq(T)
         /\ Len(KeepOnly(s, S)) = Cardinality(Positions(s, S))
         /\ \A k \in 1 .. Len(KeepOnly(s, S)) : \E i \in Positions(s, S) :
               Rank(Positions(s, S), i) = k /\ KeepOnly(s, S)[k] = s[i]
<1> DEFINE P == Positions(s, S)
           n == Cardinality(P)
           pos(k) == CHOOSE i \in P : Rank(P, i) = k
<1>1. IsFiniteSet(P) /\ n \in Nat /\ P \subseteq 1 .. Len(s) /\ P \subseteq Int
  BY PositionsFinite, LenProperties
<1>2. KeepOnly(s, S) = [k \in 1 .. n |-> s[pos(k)]]
  BY DEF KeepOnly
<1>3. ASSUME NEW k \in 1 .. n
      PROVE  pos(k) \in P /\ Rank(P, pos(k)) = k
  <2>1. \E i \in P : Rank(P, i) = k
    BY <1>1, RankOnto
  <2> QED
    BY <2>1
<1>4. \A k \in 1 .. n : s[pos(k)] \in T
  BY <1>1, <1>3, ElementOfSeq
<1> HIDE DEF P, n, pos
<1>5. KeepOnly(s, S) \in [1 .. n -> T]
  BY <1>2, <1>4
<1>6. KeepOnly(s, S) \in Seq(T) /\ Len(KeepOnly(s, S)) = n
  BY <1>1, <1>5
<1>7. ASSUME NEW k \in 1 .. n
      PROVE  \E i \in P : Rank(P, i) = k /\ KeepOnly(s, S)[k] = s[i]
  BY <1>2, <1>3
<1> QED
  BY <1>6, <1>7 DEF P, n

\* The elements that are kept are exactly those of S, and none is repeated.
LEMMA KeepOnlyRange ==
  ASSUME NEW T, NEW s \in Seq(T), NEW S
  PROVE  /\ KeepOnly(s, S) \in Seq(T)
         /\ Range(KeepOnly(s, S)) = Range(s) \cap S
         /\ NoDuplicates(s) => NoDuplicates(KeepOnly(s, S))
<1> DEFINE P == Positions(s, S)
           K == KeepOnly(s, S)
<1>1. IsFiniteSet(P) /\ P \subseteq 1 .. Len(s) /\ P \subseteq Int
      /\ \A i \in 1 .. Len(s) : i \in P <=> s[i] \in S
  BY PositionsFinite, LenProperties DEF Positions
<1>2. /\ K \in Seq(T) /\ Len(K) = Cardinality(P)
      /\ \A k \in 1 .. Len(K) : \E i \in P : Rank(P, i) = k /\ K[k] = s[i]
  BY KeepOnlyElements
<1>3. Range(K) = {K[k] : k \in 1 .. Len(K)} /\ Range(s) = {s[i] : i \in 1 .. Len(s)}
  BY <1>2, RangeEquality
<1> HIDE DEF P, K
<1>4. NoDuplicates(s) => NoDuplicates(K)
  BY <1>1, <1>2 DEF NoDuplicates
<1>5. Range(K) \subseteq Range(s) \cap S
  BY <1>1, <1>2, <1>3
<1>6. ASSUME NEW i \in P
      PROVE  s[i] \in Range(K)
  <2>1. Rank(P, i) \in 1 .. Len(K)
    BY <1>1, <1>2, RankInRange
  <2>2. PICK j \in P : Rank(P, j) = Rank(P, i) /\ K[Rank(P, i)] = s[j]
    BY <1>2, <2>1
  <2>3. Rank(P, i) \in Int /\ Rank(P, j) \in Int
    BY <2>1, <2>2
  <2>4. (i < j => Rank(P, i) < Rank(P, j)) /\ (j < i => Rank(P, j) < Rank(P, i))
    BY <1>1, RankInRange
  <2>5. i = j
    BY <1>1, <2>2, <2>3, <2>4
  <2> QED
    BY <1>3, <2>1, <2>2, <2>5
<1>7. Range(s) \cap S \subseteq Range(K)
  BY <1>1, <1>3, <1>6
<1> QED
  BY <1>2, <1>4, <1>5, <1>7 DEF K

-----------------------------------------------------------------------------
(* Other operations on one queue.                                          *)

\* queue_insert adds one thread, at the tail.
LEMMA AppendRange ==
  ASSUME NEW T, NEW s \in Seq(T), NEW t \in T
  PROVE  /\ Append(s, t) \in Seq(T)
         /\ Append(s, t) # << >>
         /\ Range(Append(s, t)) = Range(s) \cup {t}
         /\ NoDuplicates(s) /\ t \notin Range(s) => NoDuplicates(Append(s, t))
<1> DEFINE A == Append(s, t)
<1>1. /\ A \in Seq(T) /\ A # << >> /\ Len(A) = Len(s) + 1 /\ Len(s) \in Nat
      /\ \A i \in 1 .. Len(s) : A[i] = s[i]
      /\ A[Len(s) + 1] = t
  BY AppendProperties, LenProperties
<1>2. Range(A) = {A[i] : i \in 1 .. Len(A)} /\ Range(s) = {s[i] : i \in 1 .. Len(s)}
  BY <1>1, RangeEquality
<1> HIDE DEF A
<1>3. Range(A) \subseteq Range(s) \cup {t}
  BY <1>1, <1>2
<1>4. Range(s) \cup {t} \subseteq Range(A)
  BY <1>1, <1>2
<1>5. ASSUME NoDuplicates(s), t \notin Range(s)
      PROVE  NoDuplicates(A)
  BY <1>1, <1>2, <1>5 DEF NoDuplicates
<1> QED
  BY <1>1, <1>3, <1>4, <1>5 DEF A

\* queue_remove takes the head, and leaves the other threads.
LEMMA TailRange ==
  ASSUME NEW T, NEW s \in Seq(T), s # << >>
  PROVE  /\ Head(s) \in T
         /\ Tail(s) \in Seq(T)
         /\ Head(s) \in Range(s)
         /\ Range(s) = {Head(s)} \cup Range(Tail(s))
         /\ NoDuplicates(s) => NoDuplicates(Tail(s)) /\ Head(s) \notin Range(Tail(s))
<1> DEFINE B == Tail(s)
<1>1. /\ B \in Seq(T) /\ Len(B) = Len(s) - 1 /\ Len(s) \in Nat \ {0}
      /\ \A i \in 1 .. Len(B) : B[i] = s[i + 1]
      /\ Head(s) \in T
  BY HeadTailProperties, EmptySeq
<1>2. Head(s) = s[1]
  OBVIOUS
<1>3. Range(B) = {B[i] : i \in 1 .. Len(B)} /\ Range(s) = {s[i] : i \in 1 .. Len(s)}
  BY <1>1, RangeEquality
<1> HIDE DEF B
<1>4. Range(s) \subseteq {Head(s)} \cup Range(B)
  <2> SUFFICES ASSUME NEW i \in 1 .. Len(s)
               PROVE  s[i] \in {Head(s)} \cup Range(B)
    BY <1>3
  <2>1. CASE i = 1
    BY <1>2, <2>1
  <2>2. CASE i # 1
    <3>1. i - 1 \in 1 .. Len(B) /\ (i - 1) + 1 = i
      BY <1>1, <2>2
    <3>2. B[i - 1] = s[i]
      BY <1>1, <3>1
    <3> QED
      BY <1>3, <3>1, <3>2
  <2> QED
    BY <2>1, <2>2
<1>5. {Head(s)} \cup Range(B) \subseteq Range(s)
  BY <1>1, <1>2, <1>3
<1>6. ASSUME NoDuplicates(s)
      PROVE  NoDuplicates(B) /\ Head(s) \notin Range(B)
  BY <1>1, <1>2, <1>3, <1>6 DEF NoDuplicates
<1>7. Head(s) \in Range(s)
  BY <1>5
<1> QED
  BY <1>1, <1>4, <1>5, <1>6, <1>7 DEF B

\* Two queues with no thread in common, each with no thread twice.
LEMMA ConcatRange ==
  ASSUME NEW T, NEW s \in Seq(T), NEW u \in Seq(T)
  PROVE  /\ s \o u \in Seq(T)
         /\ Range(s \o u) = Range(s) \cup Range(u)
         /\ NoDuplicates(s) /\ NoDuplicates(u) /\ Range(s) \cap Range(u) = {}
              => NoDuplicates(s \o u)
<1> DEFINE C == s \o u
<1>1. /\ C \in Seq(T) /\ Len(C) = Len(s) + Len(u)
      /\ Len(s) \in Nat /\ Len(u) \in Nat
      /\ \A i \in 1 .. Len(s) + Len(u) :
            C[i] = IF i <= Len(s) THEN s[i] ELSE u[i - Len(s)]
  BY ConcatProperties, LenProperties
<1>2. Range(s) = {s[i] : i \in 1 .. Len(s)} /\ Range(u) = {u[i] : i \in 1 .. Len(u)}
  BY RangeEquality
<1>3. Range(C) = Range(s) \cup Range(u)
  BY RangeConcatenation
<1> HIDE DEF C
<1>4. ASSUME NoDuplicates(s), NoDuplicates(u), Range(s) \cap Range(u) = {},
             NEW i \in 1 .. Len(C), NEW j \in 1 .. Len(C), C[i] = C[j]
      PROVE  i = j
  <2>1. CASE i <= Len(s) /\ j <= Len(s)
    BY <1>1, <1>4, <2>1 DEF NoDuplicates
  <2>2. CASE i > Len(s) /\ j > Len(s)
    <3>1. i - Len(s) \in 1 .. Len(u) /\ j - Len(s) \in 1 .. Len(u)
          /\ u[i - Len(s)] = u[j - Len(s)]
      BY <1>1, <1>4, <2>2
    <3>2. i - Len(s) = j - Len(s)
      BY <1>4, <3>1 DEF NoDuplicates
    <3> QED
      BY <1>1, <3>2
  <2>3. CASE i <= Len(s) /\ j > Len(s)
    <3>1. C[i] \in Range(s) /\ C[j] \in Range(u)
      BY <1>1, <1>2, <2>3
    <3> QED
      BY <1>4, <3>1
  <2>4. CASE i > Len(s) /\ j <= Len(s)
    <3>1. C[j] \in Range(s) /\ C[i] \in Range(u)
      BY <1>1, <1>2, <2>4
    <3> QED
      BY <1>4, <3>1
  <2> QED
    BY <1>1, <2>1, <2>2, <2>3, <2>4
<1> QED
  BY <1>1, <1>3, <1>4 DEF C, NoDuplicates

-----------------------------------------------------------------------------
(* What a rebuild leaves in place.                                         *)

\* When what is kept is a first part of the queue, it is kept as it is.
LEMMA KeepOnlyPrefix ==
  ASSUME NEW T, NEW s \in Seq(T), NEW S, NEW n \in 0 .. Len(s),
         Positions(s, S) = 1 .. n
  PROVE  /\ KeepOnly(s, S) \in Seq(T) /\ Len(KeepOnly(s, S)) = n
         /\ \A k \in 1 .. n : KeepOnly(s, S)[k] = s[k]
<1>1. n \in Nat
  BY LenProperties
<1>2. Cardinality(1 .. n) = n
  BY <1>1, FS_Interval
<1>3. KeepOnly(s, S) \in Seq(T) /\ Len(KeepOnly(s, S)) = n
  BY <1>2, KeepOnlyElements
<1>4. ASSUME NEW i \in 1 .. n
      PROVE  Rank(1 .. n, i) = i
  <2>1. {j \in 1 .. n : j <= i} = 1 .. i
    BY <1>1
  <2>2. Cardinality(1 .. i) = i
    BY FS_Interval
  <2> QED
    BY <2>1, <2>2 DEF Rank
<1>5. ASSUME NEW k \in 1 .. n
      PROVE  KeepOnly(s, S)[k] = s[k]
  <2>1. PICK i \in Positions(s, S) :
          Rank(Positions(s, S), i) = k /\ KeepOnly(s, S)[k] = s[i]
    <3>1. \A m \in 1 .. Len(KeepOnly(s, S)) : \E i \in Positions(s, S) :
             Rank(Positions(s, S), i) = m /\ KeepOnly(s, S)[m] = s[i]
      BY KeepOnlyElements
    <3> QED
      BY <1>3, <3>1
  <2>2. i \in 1 .. n /\ Rank(1 .. n, i) = k
    BY <2>1
  <2> QED
    BY <1>4, <2>1, <2>2
<1> QED
  BY <1>3, <1>5

\* A rebuild that drops nothing changes nothing.
LEMMA KeepOnlyAll ==
  ASSUME NEW T, NEW s \in Seq(T), NEW S, Range(s) \subseteq S
  PROVE  KeepOnly(s, S) = s
<1>1. Len(s) \in Nat /\ \A i \in 1 .. Len(s) : s[i] \in Range(s)
  BY LenProperties, RangeEquality
<1>2. Positions(s, S) = 1 .. Len(s)
  BY <1>1 DEF Positions
<1>3. /\ KeepOnly(s, S) \in Seq(T) /\ Len(KeepOnly(s, S)) = Len(s)
      /\ \A k \in 1 .. Len(s) : KeepOnly(s, S)[k] = s[k]
  BY <1>1, <1>2, KeepOnlyPrefix
<1> QED
  BY <1>3, SeqEqual

\* One that drops the last element leaves the others.
LEMMA KeepOnlyButLast ==
  ASSUME NEW T, NEW s \in Seq(T), NEW t \in T, NEW S, Range(s) \subseteq S, t \notin S
  PROVE  KeepOnly(Append(s, t), S) = s
<1> DEFINE u == Append(s, t)
<1>1. /\ Len(s) \in Nat /\ u \in Seq(T) /\ Len(u) = Len(s) + 1
      /\ u[Len(s) + 1] = t /\ \A i \in 1 .. Len(s) : u[i] = s[i]
  BY AppendProperties, LenProperties
<1>2. \A i \in 1 .. Len(s) : s[i] \in Range(s)
  BY RangeEquality
<1> HIDE DEF u
<1>3. Positions(u, S) = 1 .. Len(s)
  BY <1>1, <1>2 DEF Positions
<1>4. /\ KeepOnly(u, S) \in Seq(T) /\ Len(KeepOnly(u, S)) = Len(s)
      /\ \A k \in 1 .. Len(s) : KeepOnly(u, S)[k] = u[k]
  BY <1>1, <1>3, KeepOnlyPrefix
<1> QED
  BY <1>1, <1>4, SeqEqual DEF u
=============================================================================
