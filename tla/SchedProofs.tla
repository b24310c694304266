---------------------------- MODULE SchedProofs -----------------------------
(***************************************************************************)
(* Proofs about the scheduler, for every number of threads and priorities, *)
(* every quantum and every workload: first what holds in every state, then *)
(* what a step does.                                                       *)
(***************************************************************************)
EXTENDS Sched, SchedLife, QueueProofs

-----------------------------------------------------------------------------
(* Runqueues.                                                              *)

\* rq_melhor_prio is the index of a queue that has a thread, and of no later
\* one than any such queue; it is -1 exactly when no queue has a thread.
LEMMA MelhorPrio ==
  ASSUME NEW rq
  PROVE  /\ rq_vazia(rq) <=> \A p \in Prio : rq[p] = << >>
         /\ ~rq_vazia(rq) =>
               /\ rq_melhor_prio(rq) \in Prio
               /\ rq[rq_melhor_prio(rq)] # << >>
               /\ \A q \in Prio : q < rq_melhor_prio(rq) => rq[q] = << >>
<1>1. CASE \A p \in Prio : rq[p] = << >>
  BY <1>1 DEF rq_vazia, rq_melhor_prio
<1>2. CASE ~ \A p \in Prio : rq[p] = << >>
  <2> DEFINE S == {p \in Prio : rq[p] # << >>}
             Best(p) == rq[p] # << >> /\ \A q \in Prio : q < p => rq[q] = << >>
  <2>1. S \in SUBSET Nat /\ S # {}
    BY <1>2, PrioritiesAssumption DEF Prio
  <2>2. PICK m \in S : \A k \in S : m <= k
    BY <2>1, LeastNatural
  <2>3. m \in Prio /\ Best(m)
    <3> SUFFICES ASSUME NEW q \in Prio, q < m
                 PROVE  rq[q] = << >>
      OBVIOUS
    <3>1. q \in Nat /\ m \in Nat
      BY <2>1, PrioritiesAssumption DEF Prio
    <3> QED
      BY <2>2, <3>1
  <2>4. rq_melhor_prio(rq) = CHOOSE p \in Prio : Best(p)
    BY <1>2 DEF rq_melhor_prio
  <2>5. rq_melhor_prio(rq) \in Prio /\ Best(rq_melhor_prio(rq))
    BY <2>3, <2>4
  <2>6. rq_melhor_prio(rq) # -1
    BY <2>5, PrioritiesAssumption DEF Prio
  <2> QED
    BY <1>2, <2>5, <2>6 DEF rq_vazia
<1> QED
  BY <1>1, <1>2

\* rq_inserir: one more thread, at its priority.
LEMMA InserirRange ==
  ASSUME NEW T, NEW rq \in [Prio -> Seq(T)], NEW t \in T, NEW p \in Prio
  PROVE  /\ rq_inserir(rq, t, p) \in [Prio -> Seq(T)]
         /\ ~rq_vazia(rq_inserir(rq, t, p))
         /\ \A q \in Prio : Range(rq_inserir(rq, t, p)[q]) =
               IF q = p THEN Range(rq[q]) \cup {t} ELSE Range(rq[q])
         /\ rq_threads(rq_inserir(rq, t, p)) = rq_threads(rq) \cup {t}
         /\ (\A q \in Prio : NoDuplicates(rq[q])) /\ t \notin rq_threads(rq)
              => \A q \in Prio : NoDuplicates(rq_inserir(rq, t, p)[q])
<1> DEFINE new == rq_inserir(rq, t, p)
<1>1. /\ Append(rq[p], t) \in Seq(T)
      /\ Append(rq[p], t) # << >>
      /\ Range(Append(rq[p], t)) = Range(rq[p]) \cup {t}
      /\ NoDuplicates(rq[p]) /\ t \notin Range(rq[p])
           => NoDuplicates(Append(rq[p], t))
  BY AppendRange
<1>2. \A q \in Prio : new[q] = IF q = p THEN Append(rq[q], t) ELSE rq[q]
  BY DEF rq_inserir
<1>3. new \in [Prio -> Seq(T)]
  BY <1>1 DEF rq_inserir
<1> HIDE DEF new
<1>4. ~rq_vazia(new)
  BY <1>1, <1>2, MelhorPrio
<1>5. \A q \in Prio : Range(new[q]) =
         IF q = p THEN Range(rq[q]) \cup {t} ELSE Range(rq[q])
  BY <1>1, <1>2
<1>6. rq_threads(new) = rq_threads(rq) \cup {t}
  BY <1>5 DEF rq_threads
<1>7. ASSUME \A q \in Prio : NoDuplicates(rq[q]), t \notin rq_threads(rq)
      PROVE  \A q \in Prio : NoDuplicates(new[q])
  <2>1. t \notin Range(rq[p])
    BY <1>7 DEF rq_threads
  <2> QED
    BY <1>1, <1>2, <1>7, <2>1
<1> QED
  BY <1>3, <1>4, <1>5, <1>6, <1>7 DEF new

\* The queues of r hold the threads of rq and those of s, each at its priority.
HoldsAlso(r, rq, s, prio) ==
    \A q \in Prio : Range(r[q]) = Range(rq[q]) \cup {t \in Range(s) : prio[t] = q}

\* Inserting the threads of a sequence one by one, each at its priority.
LEMMA InserirTodasRange ==
  ASSUME NEW T, NEW rq \in [Prio -> Seq(T)], NEW s \in Seq(T),
         NEW prio \in [T -> Prio]
  PROVE  /\ rq_inserir_todas(rq, s, prio) \in [Prio -> Seq(T)]
         /\ HoldsAlso(rq_inserir_todas(rq, s, prio), rq, s, prio)
         /\ rq_threads(rq_inserir_todas(rq, s, prio)) = rq_threads(rq) \cup Range(s)
         /\ /\ \A q \in Prio : NoDuplicates(rq[q])
            /\ NoDuplicates(s)
            /\ Range(s) \cap rq_threads(rq) = {}
            => \A q \in Prio : NoDuplicates(rq_inserir_todas(rq, s, prio)[q])
<1> DEFINE new == rq_inserir_todas(rq, s, prio)
           at(q) == KeepOnly(s, {t \in DOMAIN prio : prio[t] = q})
<1>1. Range(s) \subseteq T
  BY RangeOfSeq
<1>2. ASSUME NEW q \in Prio
      PROVE  /\ at(q) \in Seq(T)
             /\ Range(at(q)) = {t \in Range(s) : prio[t] = q}
             /\ NoDuplicates(s) => NoDuplicates(at(q))
  BY <1>1, KeepOnlyRange
<1>3. \A q \in Prio : new[q] = rq[q] \o at(q)
  BY DEF rq_inserir_todas
<1>4. ASSUME NEW q \in Prio
      PROVE  /\ rq[q] \o at(q) \in Seq(T)
             /\ Range(rq[q] \o at(q)) = Range(rq[q]) \cup Range(at(q))
             /\ NoDuplicates(rq[q]) /\ NoDuplicates(at(q))
                  /\ Range(rq[q]) \cap Range(at(q)) = {}
                  => NoDuplicates(rq[q] \o at(q))
  BY <1>2, ConcatRange
<1>5. new \in [Prio -> Seq(T)]
  BY <1>4 DEF rq_inserir_todas
<1> HIDE DEF new, at
<1>6. \A q \in Prio : Range(new[q]) = Range(rq[q]) \cup {t \in Range(s) : prio[t] = q}
  BY <1>2, <1>3, <1>4
<1>7. rq_threads(new) = rq_threads(rq) \cup Range(s)
  <2>1. \A t \in Range(s) : prio[t] \in Prio
    BY <1>1
  <2> QED
    BY <1>6, <2>1 DEF rq_threads
<1>8. ASSUME \A q \in Prio : NoDuplicates(rq[q]), NoDuplicates(s),
             Range(s) \cap rq_threads(rq) = {}, NEW q \in Prio
      PROVE  NoDuplicates(new[q])
  <2>1. Range(rq[q]) \cap Range(at(q)) = {}
    BY <1>2, <1>8 DEF rq_threads
  <2> QED
    BY <1>2, <1>3, <1>4, <1>8, <2>1
<1> QED
  BY <1>5, <1>6, <1>7, <1>8 DEF new, HoldsAlso

\* rq_retirar: it takes a best thread, and leaves the other ones.
LEMMA RetirarRange ==
  ASSUME NEW T, NEW rq \in [Prio -> Seq(T)], ~rq_vazia(rq)
  PROVE  /\ rq_primeira(rq) \in T
         /\ rq_resto(rq) \in [Prio -> Seq(T)]
         /\ rq_primeira(rq) \in Range(rq[rq_melhor_prio(rq)])
         /\ \A q \in Prio : Range(rq_resto(rq)[q]) \subseteq Range(rq[q])
         /\ rq_threads(rq) = {rq_primeira(rq)} \cup rq_threads(rq_resto(rq))
         /\ NoDuplicates(rq[rq_melhor_prio(rq)])
              => rq_primeira(rq) \notin Range(rq_resto(rq)[rq_melhor_prio(rq)])
         /\ \A q \in Prio : q < rq_melhor_prio(rq) => rq_resto(rq)[q] = << >>
         /\ (\A q \in Prio : NoDuplicates(rq[q]))
              => \A q \in Prio : NoDuplicates(rq_resto(rq)[q])
<1> DEFINE b == rq_melhor_prio(rq)
           new == rq_resto(rq)
<1>1. /\ b \in Prio /\ rq[b] # << >>
      /\ \A q \in Prio : q < b => rq[q] = << >>
  BY MelhorPrio
<1>2. /\ Head(rq[b]) \in T
      /\ Tail(rq[b]) \in Seq(T)
      /\ Head(rq[b]) \in Range(rq[b])
      /\ Range(rq[b]) = {Head(rq[b])} \cup Range(Tail(rq[b]))
      /\ NoDuplicates(rq[b])
           => NoDuplicates(Tail(rq[b])) /\ Head(rq[b]) \notin Range(Tail(rq[b]))
  BY <1>1, TailRange
<1>3. rq_primeira(rq) = Head(rq[b])
  BY DEF rq_primeira
<1>4. /\ new \in [Prio -> Seq(T)]
      /\ \A q \in Prio : new[q] = IF q = b THEN Tail(rq[q]) ELSE rq[q]
  BY <1>1, <1>2 DEF rq_resto
<1> HIDE DEF b, new
<1>5. \A q \in Prio : Range(new[q]) \subseteq Range(rq[q])
  BY <1>2, <1>4
<1>6. rq_threads(rq) = {Head(rq[b])} \cup rq_threads(new)
  BY <1>1, <1>2, <1>4 DEF rq_threads
<1>7. \A q \in Prio : q < b => new[q] = << >>
  <2> SUFFICES ASSUME NEW q \in Prio, q < b
               PROVE  new[q] = << >>
    OBVIOUS
  <2>1. q # b
    BY <1>1, PrioritiesAssumption DEF Prio
  <2> QED
    BY <1>1, <1>4, <2>1
<1>8. (\A q \in Prio : NoDuplicates(rq[q])) => \A q \in Prio : NoDuplicates(new[q])
  BY <1>1, <1>2, <1>4
<1> QED
  BY <1>1, <1>2, <1>3, <1>4, <1>5, <1>6, <1>7, <1>8 DEF b, new

-----------------------------------------------------------------------------
(* How many times a thread is queued.                                      *)

\* Slots, place by place.
SlotsAre(rq, t) ==
  /\ Slots(rq, t) \subseteq Prio \X Nat
  /\ \A p \in Prio, i \in Nat :
        <<p, i>> \in Slots(rq, t) <=> i \in 1 .. Len(rq[p]) /\ rq[p][i] = t

LEMMA SlotsMembers ==
  ASSUME NEW T, NEW rq \in [Prio -> Seq(T)], NEW t
  PROVE  SlotsAre(rq, t)
<1>1. \A p \in Prio : Len(rq[p]) \in Nat
  BY LenProperties
<1>2. \A p \in Prio : Positions(rq[p], {t}) \subseteq Nat
  BY <1>1 DEF Positions
<1>3. ASSUME NEW x \in Slots(rq, t)
      PROVE  x \in Prio \X Nat
  <2>1. PICK p \in Prio : x \in {<<p, i>> : i \in Positions(rq[p], {t})}
    BY DEF Slots
  <2>2. PICK i \in Positions(rq[p], {t}) : x = <<p, i>>
    BY <2>1
  <2>3. i \in Nat
    BY <1>2
  <2> QED
    BY <2>2, <2>3
<1>4. ASSUME NEW p \in Prio, NEW i \in Nat
      PROVE  <<p, i>> \in Slots(rq, t) <=> i \in Positions(rq[p], {t})
  BY DEF Slots
<1> QED
  BY <1>3, <1>4 DEF Positions, SlotsAre

\* Two sets of places are the same if they have the same places.
LEMMA PlacesEqual ==
  ASSUME NEW A \in SUBSET (Prio \X Nat), NEW B \in SUBSET (Prio \X Nat),
         \A p \in Prio, i \in Nat : <<p, i>> \in A <=> <<p, i>> \in B
  PROVE  A = B
OBVIOUS

\* A thread is queued a finite number of times, and not at all when it is not
\* among the threads of the run queue.
LEMMA OccurrencesType ==
  ASSUME NEW T, NEW rq \in [Prio -> Seq(T)], NEW t
  PROVE  /\ IsFiniteSet(Slots(rq, t))
         /\ Occurrences(rq, t) \in Nat
         /\ Occurrences(rq, t) = 0 <=> t \notin rq_threads(rq)
         /\ rq_vazia(rq) => Occurrences(rq, t) = 0
<1> DEFINE Of(p) == {<<p, i>> : i \in Positions(rq[p], {t})}
           F == {Of(p) : p \in Prio}
<1>1. ASSUME NEW p \in Prio
      PROVE  IsFiniteSet(Of(p))
  <2> DEFINE f == [i \in Positions(rq[p], {t}) |-> <<p, i>>]
  <2>1. IsFiniteSet(Positions(rq[p], {t}))
    BY PositionsFinite
  <2>2. f \in Surjection(Positions(rq[p], {t}), Of(p))
    BY DEF Surjection
  <2> QED
    BY <2>1, <2>2, FS_Surjection
<1>2. IsFiniteSet(F)
  <2> DEFINE f == [p \in Prio |-> Of(p)]
  <2>1. IsFiniteSet(Prio)
    BY PrioritiesAssumption, FS_Interval DEF Prio
  <2> HIDE DEF Of
  <2>2. f \in Surjection(Prio, F)
    BY DEF Surjection
  <2> QED
    BY <2>1, <2>2, FS_Surjection
<1>3. IsFiniteSet(Slots(rq, t))
  BY <1>1, <1>2, FS_UNION DEF Slots
<1>4. Slots(rq, t) = {} <=> t \notin rq_threads(rq)
  <2>1. \A p \in Prio : Range(rq[p]) = {rq[p][i] : i \in 1 .. Len(rq[p])}
    BY RangeEquality
  <2>2. t \in rq_threads(rq) <=> \E p \in Prio : t \in Range(rq[p])
    BY DEF rq_threads
  <2>3. \A p \in Prio : t \in Range(rq[p]) <=> Positions(rq[p], {t}) # {}
    BY <2>1 DEF Positions
  <2>4. ASSUME NEW p \in Prio
        PROVE  Of(p) = {} <=> Positions(rq[p], {t}) = {}
    <3>1. \A i \in Positions(rq[p], {t}) : <<p, i>> \in Of(p)
      OBVIOUS
    <3>2. Positions(rq[p], {t}) = {} => Of(p) = {}
      OBVIOUS
    <3> QED
      BY <3>1, <3>2
  <2>5. Slots(rq, t) = UNION F
    BY DEF Slots
  <2> HIDE DEF Of
  <2>6. Slots(rq, t) = {} <=> \A p \in Prio : Of(p) = {}
    <3>1. UNION F = {} <=> \A A \in F : A = {}
      OBVIOUS
    <3> QED
      BY <2>5, <3>1
  <2> QED
    BY <2>2, <2>3, <2>4, <2>6
<1>5. rq_vazia(rq) => t \notin rq_threads(rq)
  <2>1. \A p \in Prio : rq[p] = << >> => Range(rq[p]) = {}
    BY DEF Range
  <2> QED
    BY <2>1, MelhorPrio DEF rq_threads
<1> QED
  BY <1>3, <1>4, <1>5, FS_CardinalityType, FS_EmptySet DEF Occurrences

\* queue_insert at one priority: once more.
LEMMA InserirOccurrences ==
  ASSUME NEW T, NEW rq \in [Prio -> Seq(T)], NEW u \in T, NEW p \in Prio, NEW t
  PROVE  Occurrences(rq_inserir(rq, u, p), t) =
            Occurrences(rq, t) + (IF u = t THEN 1 ELSE 0)
<1> DEFINE new == rq_inserir(rq, u, p)
           n == Len(rq[p]) + 1
<1>1. /\ new \in [Prio -> Seq(T)]
      /\ \A q \in Prio : q # p => new[q] = rq[q]
      /\ Len(new[p]) = n /\ n \in Nat /\ n \notin 1 .. Len(rq[p])
      /\ \A i \in 1 .. Len(rq[p]) : new[p][i] = rq[p][i]
      /\ new[p][n] = u
      /\ 1 .. Len(new[p]) = 1 .. Len(rq[p]) \cup {n}
  BY AppendProperties, LenProperties, InserirRange DEF rq_inserir
<1>2. /\ Slots(rq, t) \subseteq Prio \X Nat /\ Slots(new, t) \subseteq Prio \X Nat
      /\ \A q \in Prio, i \in Nat :
            /\ <<q, i>> \in Slots(rq, t) <=> i \in 1 .. Len(rq[q]) /\ rq[q][i] = t
            /\ <<q, i>> \in Slots(new, t) <=> i \in 1 .. Len(new[q]) /\ new[q][i] = t
  <2>1. SlotsAre(rq, t)
    BY SlotsMembers
  <2>2. SlotsAre(new, t)
    <3>1. new \in [Prio -> Seq(T)]
      BY <1>1
    <3> HIDE DEF new
    <3> QED
      BY <3>1, SlotsMembers
  <2> QED
    BY <2>1, <2>2 DEF SlotsAre
<1> HIDE DEF new, n
<1>3. <<p, n>> \notin Slots(rq, t)
  BY <1>1, <1>2
<1>4. CASE u = t
  <2>1. Slots(rq, t) \cup {<<p, n>>} \subseteq Prio \X Nat
    BY <1>1, <1>2
  <2>2. \A q \in Prio, i \in Nat :
          <<q, i>> \in Slots(new, t) <=> <<q, i>> \in Slots(rq, t) \cup {<<p, n>>}
    BY <1>1, <1>2, <1>4
  <2>3. Slots(new, t) = Slots(rq, t) \cup {<<p, n>>}
    BY <1>2, <2>1, <2>2, PlacesEqual
  <2>4. IsFiniteSet(Slots(rq, t))
    BY OccurrencesType
  <2> QED
    BY <1>3, <1>4, <2>3, <2>4, FS_AddElement DEF Occurrences, new
<1>5. CASE u # t
  <2>1. \A q \in Prio, i \in Nat :
          <<q, i>> \in Slots(new, t) <=> <<q, i>> \in Slots(rq, t)
    BY <1>1, <1>2, <1>5
  <2>2. Slots(new, t) = Slots(rq, t)
    BY <1>2, <2>1, PlacesEqual
  <2>3. Occurrences(rq, t) \in Nat
    BY OccurrencesType
  <2> QED
    BY <1>5, <2>2, <2>3 DEF Occurrences, new
<1> QED
  BY <1>4, <1>5

\* Inserting the threads of a sequence: once more for each of them.
LEMMA InserirTodasOccurrences ==
  ASSUME NEW T, NEW rq \in [Prio -> Seq(T)], NEW s \in Seq(T), NoDuplicates(s),
         NEW prio \in [T -> Prio], NEW t
  PROVE  Occurrences(rq_inserir_todas(rq, s, prio), t)
            = Occurrences(rq, t) + One(t \in Range(s))
<1> DEFINE new == rq_inserir_todas(rq, s, prio)
           at(q) == KeepOnly(s, {u \in DOMAIN prio : prio[u] = q})
<1>1. Range(s) \subseteq T
  BY RangeOfSeq
<1>2. ASSUME NEW q \in Prio
      PROVE  /\ at(q) \in Seq(T) /\ NoDuplicates(at(q))
             /\ \A i \in 1 .. Len(at(q)) : at(q)[i] \in Range(s) /\ prio[at(q)[i]] = q
             /\ t \in Range(s) /\ prio[t] = q => \E i \in 1 .. Len(at(q)) : at(q)[i] = t
  <2>1. /\ at(q) \in Seq(T) /\ NoDuplicates(at(q))
        /\ Range(at(q)) = {u \in Range(s) : prio[u] = q}
    BY <1>1, KeepOnlyRange
  <2>2. Range(at(q)) = {at(q)[i] : i \in 1 .. Len(at(q))}
    BY <2>1, RangeEquality
  <2> HIDE DEF at
  <2> QED
    BY <2>1, <2>2
<1>3. ASSUME NEW q \in Prio
      PROVE  /\ Len(rq[q]) \in Nat /\ Len(at(q)) \in Nat
             /\ Len(new[q]) = Len(rq[q]) + Len(at(q))
             /\ \A i \in 1 .. Len(rq[q]) : new[q][i] = rq[q][i]
             /\ \A i \in Len(rq[q]) + 1 .. Len(rq[q]) + Len(at(q)) :
                   new[q][i] = at(q)[i - Len(rq[q])]
  <2>1. new[q] = rq[q] \o at(q)
    BY DEF rq_inserir_todas
  <2> QED
    BY <1>2, <2>1, ConcatProperties, LenProperties
<1>4. new \in [Prio -> Seq(T)]
  BY InserirTodasRange
<1>5. /\ Slots(rq, t) \subseteq Prio \X Nat /\ Slots(new, t) \subseteq Prio \X Nat
      /\ \A q \in Prio, i \in Nat :
            /\ <<q, i>> \in Slots(rq, t) <=> i \in 1 .. Len(rq[q]) /\ rq[q][i] = t
            /\ <<q, i>> \in Slots(new, t) <=> i \in 1 .. Len(new[q]) /\ new[q][i] = t
  <2>1. SlotsAre(rq, t)
    BY SlotsMembers
  <2>2. SlotsAre(new, t)
    <3>1. new \in [Prio -> Seq(T)]
      BY <1>4
    <3> HIDE DEF new
    <3> QED
      BY <3>1, SlotsMembers
  <2> QED
    BY <2>1, <2>2 DEF SlotsAre
<1>6. IsFiniteSet(Slots(rq, t)) /\ Occurrences(rq, t) \in Nat
  BY OccurrencesType
<1> HIDE DEF new, at
\* What a place of the new queues is: one of the old ones, or that of an element of s.
<1>7. ASSUME NEW q \in Prio, NEW i \in Nat
      PROVE  <<q, i>> \in Slots(new, t) <=>
                \/ <<q, i>> \in Slots(rq, t)
                \/ \E j \in 1 .. Len(at(q)) : i = Len(rq[q]) + j /\ at(q)[j] = t
  <2> DEFINE m == Len(rq[q])
             l == Len(at(q))
  <2>3. /\ m \in Nat /\ l \in Nat /\ Len(new[q]) = m + l
        /\ \A j \in 1 .. m : new[q][j] = rq[q][j]
        /\ \A j \in m + 1 .. m + l : new[q][j] = at(q)[j - m]
        /\ <<q, i>> \in Slots(rq, t) <=> i \in 1 .. m /\ rq[q][i] = t
        /\ <<q, i>> \in Slots(new, t) <=> i \in 1 .. m + l /\ new[q][i] = t
    <3>1. /\ <<q, i>> \in Slots(rq, t) <=> i \in 1 .. m /\ rq[q][i] = t
          /\ <<q, i>> \in Slots(new, t) <=> i \in 1 .. Len(new[q]) /\ new[q][i] = t
      BY <1>5
    <3> QED
      BY <1>3, <3>1
  <2> HIDE DEF m, l
  <2>1. CASE i \in 1 .. m
    BY <2>1, <2>3 DEF l, m
  <2>2. CASE i \notin 1 .. m
    <3>1. <<q, i>> \in Slots(new, t) => i - m \in 1 .. l /\ at(q)[i - m] = t
      <4> SUFFICES ASSUME <<q, i>> \in Slots(new, t)
                   PROVE  i - m \in 1 .. l /\ at(q)[i - m] = t
        OBVIOUS
      <4>1. i \in m + 1 .. m + l
        BY <2>2, <2>3
      <4> QED
        BY <2>3, <4>1
    <3>2. ASSUME NEW j \in 1 .. l, i = m + j, at(q)[j] = t
          PROVE  <<q, i>> \in Slots(new, t)
      <4>1. i \in m + 1 .. m + l /\ i - m = j /\ i \in 1 .. m + l
        BY <2>3, <3>2
      <4>2. new[q][i] = at(q)[i - m]
        BY <2>3, <4>1
      <4> QED
        BY <2>3, <3>2, <4>1, <4>2
    <3>3. i = m + (i - m)
      BY <2>3
    <3> QED
      BY <2>2, <2>3, <3>1, <3>2, <3>3 DEF l, m
  <2> QED
    BY <2>1, <2>2
<1>8. CASE t \in Range(s)
  <2> DEFINE q == prio[t]
  <2>1. q \in Prio
    BY <1>1, <1>8
  <2>2. PICK k \in 1 .. Len(at(q)) : at(q)[k] = t
    BY <1>2, <1>8, <2>1
  <2> DEFINE n == Len(rq[q]) + k
  <2>3. n \in Nat /\ n \notin 1 .. Len(rq[q])
    BY <1>3, <2>1
  <2>4. \A j \in 1 .. Len(at(q)) : at(q)[j] = t => j = k
    BY <1>2, <2>1, <2>2 DEF NoDuplicates
  <2>5. \A p \in Prio : \A j \in 1 .. Len(at(p)) : at(p)[j] = t => p = q
    BY <1>2
  <2> HIDE DEF q, n
  <2>6. <<q, n>> \notin Slots(rq, t)
    BY <1>5, <2>1, <2>3
  <2>7. \A p \in Prio, i \in Nat :
          <<p, i>> \in Slots(new, t) <=> <<p, i>> \in Slots(rq, t) \cup {<<q, n>>}
    <3> SUFFICES ASSUME NEW p \in Prio, NEW i \in Nat
                 PROVE  <<p, i>> \in Slots(new, t)
                           <=> <<p, i>> \in Slots(rq, t) \cup {<<q, n>>}
      OBVIOUS
    <3>1. (\E j \in 1 .. Len(at(p)) : i = Len(rq[p]) + j /\ at(p)[j] = t)
             <=> p = q /\ i = n
      BY <2>2, <2>4, <2>5 DEF n
    <3> QED
      BY <1>7, <3>1
  <2>8. Slots(rq, t) \cup {<<q, n>>} \subseteq Prio \X Nat
    BY <1>5, <2>1, <2>3
  <2>9. Slots(new, t) = Slots(rq, t) \cup {<<q, n>>}
    BY <1>5, <2>7, <2>8, PlacesEqual
  <2> QED
    BY <1>6, <1>8, <2>6, <2>9, FS_AddElement DEF Occurrences, new, One
<1>9. CASE t \notin Range(s)
  <2>1. \A p \in Prio, i \in Nat :
          <<p, i>> \in Slots(new, t) <=> <<p, i>> \in Slots(rq, t)
    <3>1. ASSUME NEW p \in Prio, NEW j \in 1 .. Len(at(p)) PROVE at(p)[j] # t
      BY <1>2, <1>9
    <3> HIDE DEF at
    <3> QED
      BY <1>7, <3>1
  <2>2. Slots(new, t) = Slots(rq, t)
    BY <1>5, <2>1, PlacesEqual
  <2> QED
    BY <1>6, <1>9, <2>2 DEF Occurrences, new, One
<1> QED
  BY <1>8, <1>9 DEF One

\* rq_retirar: once less for the thread that is taken.
LEMMA RetirarOccurrences ==
  ASSUME NEW T, NEW rq \in [Prio -> Seq(T)], ~rq_vazia(rq), NEW t
  PROVE  Occurrences(rq, t) =
            Occurrences(rq_resto(rq), t) + (IF rq_primeira(rq) = t THEN 1 ELSE 0)
<1> DEFINE b == rq_melhor_prio(rq)
           new == rq_resto(rq)
           A == Slots(rq, t) \ {<<b, 1>>}
           B == Slots(new, t)
           f == [x \in A |-> IF x[1] = b THEN <<b, x[2] - 1>> ELSE x]
<1>1. b \in Prio /\ rq[b] # << >>
  BY MelhorPrio
<1>2. /\ new \in [Prio -> Seq(T)]
      /\ \A q \in Prio : q # b => new[q] = rq[q]
      /\ Len(rq[b]) \in Nat \ {0} /\ Len(new[b]) = Len(rq[b]) - 1
      /\ \A i \in 1 .. Len(new[b]) : new[b][i] = rq[b][i + 1]
      /\ rq_primeira(rq) = rq[b][1]
  BY <1>1, RetirarRange, HeadTailProperties, EmptySeq, LenProperties DEF rq_resto, rq_primeira
<1>3. /\ Slots(rq, t) \subseteq Prio \X Nat /\ B \subseteq Prio \X Nat
      /\ \A q \in Prio, i \in Nat :
            /\ <<q, i>> \in Slots(rq, t) <=> i \in 1 .. Len(rq[q]) /\ rq[q][i] = t
            /\ <<q, i>> \in B <=> i \in 1 .. Len(new[q]) /\ new[q][i] = t
  BY <1>2, SlotsMembers DEF SlotsAre
<1>4. IsFiniteSet(Slots(rq, t)) /\ Occurrences(rq, t) \in Nat
  BY OccurrencesType
<1> HIDE DEF b, new
<1>5. \A q \in Prio, i \in Nat :
        <<q, i>> \in A <=> /\ i \in 1 .. Len(rq[q]) /\ rq[q][i] = t
                           /\ q = b => i # 1
  BY <1>3
<1>6. A \subseteq Prio \X Nat
  BY <1>3
<1> HIDE DEF A, B
<1>7. \A q \in Prio, i \in Nat : <<q, i>> \in A =>
        f[<<q, i>>] = IF q = b THEN <<b, i - 1>> ELSE <<q, i>>
  OBVIOUS
<1>8. \A q \in Prio, i \in Nat : <<q, i>> \in A => f[<<q, i>>] \in B
  <2> SUFFICES ASSUME NEW q \in Prio, NEW i \in Nat, <<q, i>> \in A
               PROVE  f[<<q, i>>] \in B
    OBVIOUS
  <2>1. CASE q = b
    <3>1. i - 1 \in Nat /\ i - 1 \in 1 .. Len(new[b]) /\ new[b][i - 1] = rq[b][i]
      BY <1>2, <1>5, <2>1
    <3> QED
      BY <1>1, <1>3, <1>5, <1>7, <2>1, <3>1
  <2>2. CASE q # b
    BY <1>2, <1>3, <1>5, <1>7, <2>2
  <2> QED
    BY <2>1, <2>2
<1>9. f \in [A -> B]
  <2>1. ASSUME NEW x \in A
        PROVE  f[x] \in B
    <3>1. PICK q \in Prio, i \in Nat : x = <<q, i>>
      BY <1>6
    <3> QED
      BY <1>8, <3>1
  <2> QED
    BY <2>1
<1>10. ASSUME NEW x \in A, NEW y \in A, f[x] = f[y]
       PROVE  x = y
  <2>1. PICK q \in Prio, i \in Nat : x = <<q, i>>
    BY <1>6
  <2>2. PICK r \in Prio, j \in Nat : y = <<r, j>>
    BY <1>6
  <2>3. /\ f[x] = IF q = b THEN <<b, i - 1>> ELSE <<q, i>>
        /\ f[y] = IF r = b THEN <<b, j - 1>> ELSE <<r, j>>
    BY <1>7, <2>1, <2>2
  <2> HIDE DEF f
  <2>4. CASE q = b /\ r = b
    <3>1. <<b, i - 1>> = <<b, j - 1>>
      BY <1>10, <2>3, <2>4
    <3> QED
      BY <2>1, <2>2, <2>4, <3>1
  <2>5. CASE q # b /\ r # b
    BY <1>10, <2>1, <2>2, <2>3, <2>5
  <2>6. CASE q = b /\ r # b
    <3>1. <<b, i - 1>> = <<r, j>>
      BY <1>10, <2>3, <2>6
    <3> QED
      BY <2>6, <3>1
  <2>7. CASE q # b /\ r = b
    <3>1. <<q, i>> = <<b, j - 1>>
      BY <1>10, <2>3, <2>7
    <3> QED
      BY <2>7, <3>1
  <2> QED
    BY <2>4, <2>5, <2>6, <2>7
<1>11. ASSUME NEW y \in B
       PROVE  \E x \in A : f[x] = y
  <2>1. PICK q \in Prio, i \in Nat : y = <<q, i>>
    BY <1>3 DEF B
  <2>2. CASE q = b
    <3>1. i \in 1 .. Len(new[b]) /\ new[b][i] = t
      BY <1>3, <2>1, <2>2 DEF B
    <3>2. i + 1 \in 1 .. Len(rq[b]) /\ i + 1 # 1 /\ rq[b][i + 1] = t /\ i + 1 \in Nat
      BY <1>2, <3>1
    <3>3. <<b, i + 1>> \in A
      BY <1>1, <1>5, <3>2
    <3>4. f[<<b, i + 1>>] = <<b, i>>
      BY <1>1, <1>7, <3>2, <3>3
    <3> QED
      BY <2>1, <2>2, <3>3, <3>4
  <2>3. CASE q # b
    <3>1. <<q, i>> \in A
      BY <1>2, <1>3, <1>5, <2>1, <2>3 DEF B
    <3> QED
      BY <1>7, <2>1, <2>3, <3>1
  <2> QED
    BY <2>2, <2>3
<1>12. ExistsBijection(A, B)
  <2> HIDE DEF f
  <2>1. f \in Injection(A, B)
    BY <1>9, <1>10 DEF Injection, IsInjective
  <2>2. f \in Surjection(A, B)
    BY <1>9, <1>11 DEF Surjection
  <2> QED
    BY <2>1, <2>2 DEF ExistsBijection, Bijection
<1>13. /\ IsFiniteSet(A)
       /\ Cardinality(A) = IF <<b, 1>> \in Slots(rq, t) THEN Cardinality(Slots(rq, t)) - 1
                           ELSE Cardinality(Slots(rq, t))
  BY <1>4, FS_RemoveElement DEF A
<1>14. Cardinality(B) = Cardinality(A)
  BY <1>12, <1>13, FS_Bijection
<1>15. <<b, 1>> \in Slots(rq, t) <=> rq_primeira(rq) = t
  BY <1>1, <1>2, <1>3
<1> QED
  BY <1>4, <1>13, <1>14, <1>15 DEF B, Occurrences, new

Runqueues == [Prio -> Seq(Thread)]

-----------------------------------------------------------------------------
(* Arithmetic of priorities and quanta.                                    *)

LEMMA ConstantsType ==
  /\ MaxQuantum \in Nat
  /\ QUANTUM_BASE \in 0 .. MaxQuantum /\ QUANTUM_BASE \in Nat /\ QUANTUM_BASE > 0
  /\ MAIN_PRIO \in Prio
  /\ DYN_MIN_PRIO \in Prio /\ NUM_PRIORITIES - 1 \in Prio
  /\ DYN_MIN_PRIO <= NUM_PRIORITIES - 1
  /\ STATIC_MAX_PRIO < DYN_MIN_PRIO
  /\ NUM_PRIORITIES \in Nat /\ STATIC_MAX_PRIO \in Nat /\ DYN_MIN_PRIO \in Nat
BY ScheduleAssumption, PrioritiesAssumption DEF MaxQuantum, Prio

\* A PCB record has its fields and their types, for leaves that keep PCB opaque.
LEMMA PCBFields ==
  ASSUME NEW p \in PCB
  PROVE  /\ p.priority \in Prio /\ p.priority \in Nat
         /\ p.base_priority \in Prio /\ p.base_priority \in Nat
         /\ p.quantum \in 0 .. MaxQuantum /\ p.quantum \in Nat
         /\ p.nice \in 0 .. MAX_NICE /\ p.nice \in Nat
         /\ p.wake_in \in Nat
         /\ p.join_tid \in Thread \cup {NULL}
BY ScheduleAssumption, PrioritiesAssumption DEF PCB, MaxQuantum, Prio

\* Clamp (the adjustment of priorities and nice values) stays in its range.
LEMMA ClampInRange ==
  ASSUME NEW n \in Int, NEW lo \in Int, NEW hi \in Int, lo <= hi
  PROVE  Clamp(n, lo, hi) \in lo .. hi
BY DEF Clamp

\* sthread_create_p and sthread_init build a PCB of the right type.
LEMMA NewPCBType ==
  ASSUME NEW p \in Prio
  PROVE  NewPCB(p) \in PCB
BY ConstantsType, ScheduleAssumption DEF NewPCB, PCB

\* A dynamic thread stays dynamic.
LEMMA NextPriorityDynamic ==
  ASSUME NEW p \in PCB, NEW qpu \in Int
  PROVE  /\ NextPriority(p, qpu) \in Prio
         /\ NextPriority(p, qpu) >= DYN_MIN_PRIO
<1>1. p.base_priority - qpu + p.nice \in Int
  BY PCBFields
<1>2. DYN_MIN_PRIO \in Int /\ NUM_PRIORITIES - 1 \in Int
      /\ DYN_MIN_PRIO <= NUM_PRIORITIES - 1
  BY ConstantsType, ScheduleAssumption, PrioritiesAssumption
<1>3. NextPriority(p, qpu) \in DYN_MIN_PRIO .. NUM_PRIORITIES - 1
  BY <1>1, <1>2, ClampInRange DEF NextPriority
<1> QED
  BY <1>2, <1>3, ConstantsType DEF Prio

\* recalcular gives a dynamic thread a quantum that is not empty and that is
\* within bounds however often quanta are left unused, and it changes neither
\* a static thread nor anything but quantum and priority.
LEMMA RecalcularProperties ==
  ASSUME NEW p \in PCB
  PROVE  /\ Recalcular(p) \in PCB
         /\ Recalcular(p).base_priority = p.base_priority
         /\ Recalcular(p).join_tid = p.join_tid
         /\ Recalcular(p).wake_in = p.wake_in
         /\ p.priority <= STATIC_MAX_PRIO => Recalcular(p) = p
         /\ p.priority > STATIC_MAX_PRIO =>
               /\ Recalcular(p).priority >= DYN_MIN_PRIO
               /\ Recalcular(p).quantum > 0
<1> DEFINE q == QUANTUM_BASE + p.quantum \div 2
           n == NextPriority(p, p.quantum)
<1>1. p.quantum \in 0 .. MaxQuantum
  BY DEF PCB
<1>2. q \in 0 .. MaxQuantum /\ q > 0
  BY <1>1, ScheduleAssumption DEF MaxQuantum
<1>3. n \in Prio /\ n >= DYN_MIN_PRIO
  BY <1>1, NextPriorityDynamic
<1> HIDE DEF q, n
<1>4. p.priority \in Nat /\ STATIC_MAX_PRIO \in Nat
  BY PCBFields, ConstantsType
<1>5. CASE p.priority <= STATIC_MAX_PRIO
  BY <1>5, <1>4, ConstantsType DEF Recalcular
<1>6. CASE p.priority > STATIC_MAX_PRIO
  <2>1. ~(p.priority <= STATIC_MAX_PRIO)
    BY <1>6, <1>4
  <2>2. Recalcular(p) = [p EXCEPT !.quantum = q, !.priority = n]
    BY <2>1 DEF Recalcular, q, n
  <2> QED
    BY <1>2, <1>3, <2>1, <2>2 DEF PCB
<1> QED
  BY <1>5, <1>6, <1>4

\* The division of sthread_sleep gives no negative number of ticks.
LEMMA NumTicksType ==
  ASSUME NEW time \in Nat
  PROVE  NumTicks(time) \in Nat
<1>1. 10 * time \in Nat /\ CLOCK_TICK \in Nat \ {0}
  BY ScheduleAssumption
<1> QED
  BY <1>1 DEF NumTicks

-----------------------------------------------------------------------------
(* Type correctness.                                                       *)

LEMMA RunNextType ==
  ASSUME NEW a \in Runqueues, NEW e \in Runqueues, NEW level \in {"LOW", "HIGH"},
         Running, RunNext(a, e, level)
  PROVE  /\ active_rq' \in Runqueues /\ expired_rq' \in Runqueues
         /\ active_thr' \in Thread \cup {NULL}
         /\ Running' => active_thr' \in Thread
         /\ spl' \in {"LOW", "HIGH"}
         /\ status' \in {"running", "exited", "crashed"}
<1> DEFINE act == IF EpochOver(a) THEN e ELSE a
           exp == IF EpochOver(a) THEN a ELSE e
<1>1. act \in Runqueues /\ exp \in Runqueues
  OBVIOUS
<1>2. expired_rq' = exp
  BY DEF RunNext
<1>3. CASE rq_vazia(act)
  BY <1>1, <1>2, <1>3 DEF RunNext, Running
<1>4. CASE ~rq_vazia(act)
  <2>1. rq_primeira(act) \in Thread /\ rq_resto(act) \in Runqueues
    BY <1>1, <1>4, RetirarRange DEF Runqueues
  <2>2. /\ active_rq' = rq_resto(act) /\ active_thr' = rq_primeira(act)
        /\ status' = status
        /\ spl' \in {"LOW", level}
    BY <1>4 DEF RunNext
  <2> QED
    BY <1>1, <1>2, <2>1, <2>2 DEF Running
<1> QED
  BY <1>3, <1>4

\* Waking the sleepers of a tick (Clock++, quantum reset) keeps the PCBs typed.
LEMMA TickedType ==
  ASSUME TypeOK
  PROVE  /\ TickedPCB \in [Thread -> PCB]
         /\ WokenRq \in Runqueues
         /\ KeepOnly(sleep_thr_list, Thread \ Due) \in Seq(Thread)
<1>1. ASSUME NEW t \in Thread
      PROVE  TickedPCB[t] \in PCB
  <2>1. pcb[t] \in PCB
    BY DEF TypeOK
  <2>2. CASE t \in Due
    BY <2>1, <2>2, ConstantsType DEF TickedPCB, PCB
  <2>3. CASE t \notin Due /\ t \in Range(sleep_thr_list)
    <3>1. pcb[t].wake_in - 1 \in Nat
      BY <2>1, <2>3, PCBFields DEF Due
    <3>2. TickedPCB[t] = [pcb[t] EXCEPT !.wake_in = @ - 1]
      BY <2>3 DEF TickedPCB
    <3> QED
      BY <2>1, <3>1, <3>2 DEF PCB
  <2>4. CASE t \notin Due /\ t \notin Range(sleep_thr_list)
    BY <2>1, <2>4 DEF TickedPCB
  <2> QED
    BY <2>2, <2>3, <2>4
<1>2. TickedPCB \in [Thread -> PCB]
  BY <1>1 DEF TickedPCB
<1>3. [t \in Thread |-> pcb[t].priority] \in [Thread -> Prio]
  BY PCBFields DEF TypeOK
<1>4. /\ KeepOnly(sleep_thr_list, Due) \in Seq(Thread)
      /\ KeepOnly(sleep_thr_list, Thread \ Due) \in Seq(Thread)
  BY KeepOnlyRange DEF TypeOK
<1>5. WokenRq \in Runqueues
  BY <1>3, <1>4, InserirTodasRange DEF WokenRq, TypeOK, Runqueues
<1> QED
  BY <1>2, <1>4, <1>5

\* sthread_init establishes the types.
LEMMA InitType == Init => TypeOK
<1> SUFFICES ASSUME Init
             PROVE  TypeOK
  OBVIOUS
<1>1. Main \in Thread /\ NULL \notin Thread
  BY ThreadAssumption
<1>2. pcb \in [Thread -> PCB]
  BY NewPCBType, ConstantsType DEF Init
<1>3. criar_runqueue \in Runqueues
  BY EmptySeq DEF criar_runqueue, Runqueues
<1>4. << >> \in Seq(Thread)
  BY EmptySeq
<1> QED
  BY <1>1, <1>2, <1>3, <1>4 DEF Init, TypeOK, Runqueues, Running

\* Every call and every tick keeps the types.
LEMMA NextType == TypeOK /\ [Next]_vars => TypeOK'
<1> SUFFICES ASSUME TypeOK, [Next]_vars
             PROVE  TypeOK'
  OBVIOUS
<1> USE DEF Runqueues
<1>0. Running => active_thr \in Thread /\ pcb[active_thr] \in PCB
  BY DEF TypeOK
<1>1. ASSUME NEW t \in Thread, NEW p \in CreatePrios, Create(t, p)
      PROVE  TypeOK'
  <2> DEFINE prio == Clamp(p, 0, NUM_PRIORITIES - 1)
  <2>1. prio \in Prio
    <3>1. p \in Int /\ NUM_PRIORITIES - 1 \in Int /\ 0 <= NUM_PRIORITIES - 1
      BY WorkloadAssumption, PrioritiesAssumption
    <3> QED
      BY <3>1, ClampInRange DEF Prio
  <2>2. NewPCB(prio) \in PCB /\ rq_inserir(active_rq, t, prio) \in Runqueues
    BY <2>1, NewPCBType, InserirRange DEF TypeOK
  <2>3. /\ pcb' = [pcb EXCEPT ![t] = NewPCB(prio)]
        /\ active_rq' = rq_inserir(active_rq, t, prio)
    BY <1>1 DEF Create
  <2> QED
    BY <1>1, <2>2, <2>3 DEF Create, Calling, Running, TypeOK
<1>2. ASSUME NEW n \in NiceArgs, Nice(n)
      PROVE  TypeOK'
  <2>1. Clamp(n, 0, MAX_NICE) \in 0 .. MAX_NICE
    <3>1. n \in Int /\ MAX_NICE \in Int /\ 0 <= MAX_NICE
      BY WorkloadAssumption, ScheduleAssumption
    <3> QED
      BY <3>1 DEF Clamp
  <2>2. [pcb[active_thr] EXCEPT !.nice = Clamp(n, 0, MAX_NICE)] \in PCB
    BY <1>0, <1>2, <2>1 DEF Nice, Calling, PCB
  <2> QED
    BY <1>2, <2>2 DEF Nice, Calling, Running, TypeOK
<1>3. CASE Yield
  <2> DEFINE p == Recalcular(pcb[active_thr])
  <2>1. active_thr \in Thread /\ p \in PCB
    BY <1>0, <1>3, RecalcularProperties DEF Yield, Calling
  <2>2. p.priority \in Prio
    BY <2>1, PCBFields
  <2>3. rq_inserir(active_rq, active_thr, p.priority) \in Runqueues
    BY <2>1, <2>2, InserirRange DEF TypeOK
  <2>4. /\ pcb' = [pcb EXCEPT ![active_thr] = p]
        /\ RunNext(rq_inserir(active_rq, active_thr, p.priority), expired_rq, "HIGH")
    BY <1>3 DEF Yield
  <2> QED
    BY <1>3, <2>1, <2>3, <2>4, RunNextType DEF Yield, Calling, Running, TypeOK
<1>4. ASSUME NEW time \in SleepTimes, SleepNot(time)
      PROVE  TypeOK'
  BY <1>4 DEF SleepNot, Calling, Running, TypeOK
<1>5. ASSUME NEW time \in SleepTimes, Sleep(time)
      PROVE  TypeOK'
  <2>1. NumTicks(time) \in Nat
    BY WorkloadAssumption, NumTicksType
  <2>2. [pcb[active_thr] EXCEPT !.wake_in = NumTicks(time)] \in PCB
    BY <1>0, <1>5, <2>1 DEF Sleep, Calling, PCB
  <2>3. Append(sleep_thr_list, active_thr) \in Seq(Thread)
    BY <1>0, <1>5, AppendRange DEF Sleep, Calling, TypeOK
  <2> QED
    BY <1>5, <2>2, <2>3, RunNextType DEF Sleep, Calling, Running, TypeOK
<1>6. ASSUME NEW u \in Thread, JoinZombie(u)
      PROVE  TypeOK'
  BY <1>6 DEF JoinZombie, Calling, Running, TypeOK
<1>7. ASSUME NEW u \in Thread, JoinNotFound(u)
      PROVE  TypeOK'
  BY <1>7 DEF JoinNotFound, Calling, Running, TypeOK
<1>8. ASSUME NEW u \in Thread, Join(u)
      PROVE  TypeOK'
  <2>1. [pcb[active_thr] EXCEPT !.join_tid = u] \in PCB
    BY <1>0, <1>8 DEF Join, Calling, PCB
  <2>2. Append(join_thr_list, active_thr) \in Seq(Thread)
    BY <1>0, <1>8, AppendRange DEF Join, Calling, TypeOK
  <2> QED
    BY <1>8, <2>1, <2>2, RunNextType DEF Join, Calling, Running, TypeOK
<1>9. CASE Exit
  <2> DEFINE released == KeepOnly(join_thr_list, Joiners)
             act == rq_inserir_todas(active_rq, released,
                                     [t \in Thread |-> pcb[t].priority])
  <2>1. released \in Seq(Thread) /\ KeepOnly(join_thr_list, Thread \ Joiners) \in Seq(Thread)
    BY KeepOnlyRange DEF TypeOK
  <2>2. [t \in Thread |-> pcb[t].priority] \in [Thread -> Prio]
    BY PCBFields DEF TypeOK
  <2>3. act \in Runqueues
    BY <2>1, <2>2, InserirTodasRange DEF TypeOK
  <2>4. Running /\ active_thr \in Thread
    BY <1>0, <1>9 DEF Exit, Calling
  <2> HIDE DEF act, released
  <2>5. /\ join_thr_list' = KeepOnly(join_thr_list, Thread \ Joiners)
        /\ zombie_thr_list' \subseteq zombie_thr_list \cup {active_thr}
        /\ dead_thr_list' \subseteq dead_thr_list \cup {active_thr}
        /\ UNCHANGED <<created, pcb, sleep_thr_list, lowers>>
    BY <1>9 DEF Exit
  <2>6. \/ /\ status' = "exited" /\ spl' = "HIGH"
           /\ UNCHANGED <<active_rq, expired_rq, active_thr>>
        \/ RunNext(act, expired_rq, "HIGH")
    BY <1>9 DEF Exit, act, released
  <2>7. CASE RunNext(act, expired_rq, "HIGH")
    BY <2>1, <2>3, <2>4, <2>5, <2>7, RunNextType DEF TypeOK
  <2>8. CASE /\ status' = "exited" /\ spl' = "HIGH"
             /\ UNCHANGED <<active_rq, expired_rq, active_thr>>
    BY <2>1, <2>4, <2>5, <2>8 DEF TypeOK, Running
  <2> QED
    BY <2>6, <2>7, <2>8
<1>10. ASSUME TickWakes
       PROVE  /\ Running /\ active_thr \in Thread /\ pcb[active_thr] \in PCB
              /\ TickedPCB \in [Thread -> PCB]
              /\ WokenRq \in Runqueues
              /\ sleep_thr_list' \in Seq(Thread)
              /\ UNCHANGED <<created, join_thr_list, zombie_thr_list, dead_thr_list>>
  BY <1>0, <1>10, TickedType DEF TickWakes
<1>11. ASSUME TickWakes, pcb[active_thr].quantum > 1,
              pcb' = [TickedPCB EXCEPT ![active_thr].quantum = @ - 1]
       PROVE  pcb' \in [Thread -> PCB]
  <2>1. active_thr \in Thread /\ TickedPCB[active_thr] \in PCB
    BY <1>10, <1>11
  <2>2. TickedPCB[active_thr].quantum \in {pcb[active_thr].quantum, QUANTUM_BASE}
    BY <1>10, <1>11 DEF TickedPCB, PCB
  <2>3. TickedPCB[active_thr].quantum - 1 \in 0 .. MaxQuantum
    <3>1. pcb[active_thr].quantum \in 2 .. MaxQuantum
      BY <1>10, <1>11, PCBFields
    <3>2. QUANTUM_BASE \in 1 .. MaxQuantum /\ MaxQuantum \in Nat
      BY ConstantsType
    <3> QED
      BY <2>2, <3>1, <3>2
  <2>4. [TickedPCB[active_thr] EXCEPT !.quantum = @ - 1] \in PCB
    BY <2>1, <2>3 DEF PCB
  <2> QED
    BY <1>10, <1>11, <2>1, <2>4
<1>12. CASE TickKeep
  BY <1>10, <1>11, <1>12 DEF TickKeep, TypeOK, Running
<1>13. CASE TickPreempt
  <2>1. pcb[active_thr].priority \in Prio
    BY <1>10, <1>13, PCBFields DEF TickPreempt
  <2>2. rq_inserir(WokenRq, active_thr, pcb[active_thr].priority) \in Runqueues
    BY <1>10, <1>13, <2>1, InserirRange DEF TickPreempt
  <2> QED
    BY <1>10, <1>11, <1>13, <2>2, RunNextType DEF TickPreempt, TypeOK
<1>14. CASE TickExpire
  <2> DEFINE z == [pcb[active_thr] EXCEPT !.quantum = 0]
             p == Recalcular(z)
  <2>1. z \in PCB
    <3>1. pcb[active_thr] \in PCB
      BY <1>10, <1>14 DEF TickExpire
    <3>2. 0 \in 0 .. MaxQuantum
      BY ConstantsType
    <3> QED
      BY <3>1, <3>2 DEF PCB
  <2>2. p \in PCB /\ p.priority \in Prio
    BY <2>1, RecalcularProperties, PCBFields
  <2>3. rq_inserir(expired_rq, active_thr, p.priority) \in Runqueues
    BY <1>10, <1>14, <2>2, InserirRange DEF TickExpire, TypeOK
  <2>4. /\ pcb' = [TickedPCB EXCEPT ![active_thr] = p]
        /\ RunNext(WokenRq, rq_inserir(expired_rq, active_thr, p.priority), "LOW")
    BY <1>14 DEF TickExpire, Retire
  <2> QED
    BY <1>10, <1>14, <2>2, <2>3, <2>4, RunNextType DEF TickExpire, TypeOK
<1>15. CASE UNCHANGED vars
  BY <1>15 DEF vars, TypeOK, Running
<1> QED
  BY <1>1, <1>2, <1>3, <1>4, <1>5, <1>6, <1>7, <1>8, <1>9, <1>12, <1>13, <1>14,
     <1>15 DEF Next, Tick, Over

\* Every variable keeps its type: in particular the priority of a thread is
\* always an index of the arrays of queues, and its quantum is bounded.
THEOREM TypeCorrect == Spec => []TypeOK
<1>1. Init => TypeOK
  BY InitType
<1>2. TypeOK /\ [Next]_vars => TypeOK'
  BY NextType
<1> QED
  BY <1>1, <1>2, PTL DEF Spec

-----------------------------------------------------------------------------
(* Where threads are.                                                      *)

CPU      == IF Running THEN {active_thr} ELSE {}
Active   == rq_threads(active_rq)
Expired  == rq_threads(expired_rq)
Sleeping == Range(sleep_thr_list)
Joining  == Range(join_thr_list)

Distinct(rq)     == \A p \in Prio : NoDuplicates(rq[p])
Sorted(rq, prio) == \A p \in Prio : \A t \in Range(rq[p]) : prio[t] = p

PrioOf == [t \in Thread |-> pcb[t].priority]

\* OnePlace, with the places written one after the other.
Apart ==
    /\ CPU \cap (Active \cup Expired \cup Sleeping \cup Joining
                 \cup zombie_thr_list \cup dead_thr_list) = {}
    /\ Active \cap (Expired \cup Sleeping \cup Joining
                    \cup zombie_thr_list \cup dead_thr_list) = {}
    /\ Expired \cap (Sleeping \cup Joining \cup zombie_thr_list
                     \cup dead_thr_list) = {}
    /\ Sleeping \cap (Joining \cup zombie_thr_list \cup dead_thr_list) = {}
    /\ Joining \cap (zombie_thr_list \cup dead_thr_list) = {}
    /\ zombie_thr_list \cap dead_thr_list = {}

Places ==
    /\ created = CPU \cup Active \cup Expired \cup Sleeping \cup Joining
                 \cup zombie_thr_list \cup dead_thr_list
    /\ Apart
    /\ NoDuplicates(sleep_thr_list) /\ NoDuplicates(join_thr_list)
    /\ Distinct(active_rq) /\ Distinct(expired_rq)

\* OnePlace, with its quantified record of holders, says the same as the
\* flat conjunction Places the proofs work with.
LEMMA OnePlaceIsPlaces == OnePlace <=> Places
<1> DEFINE D == {"cpu", "active", "expired", "sleep", "join", "zombie", "dead"}
<1>1. DOMAIN Holders = D
  BY DEF Holders
<1>2. /\ Holders["cpu"] = CPU /\ Holders["active"] = Active
      /\ Holders["expired"] = Expired /\ Holders["sleep"] = Sleeping
      /\ Holders["join"] = Joining /\ Holders["zombie"] = zombie_thr_list
      /\ Holders["dead"] = dead_thr_list
  BY DEF Holders, CPU, Active, Expired, Sleeping, Joining
<1>3. UNION {Holders[h] : h \in D} =
        CPU \cup Active \cup Expired \cup Sleeping \cup Joining
        \cup zombie_thr_list \cup dead_thr_list
  BY <1>2
<1>4. (\A g, h \in D : g # h => Holders[g] \cap Holders[h] = {}) <=> Apart
  <2>1. ASSUME \A g, h \in D : g # h => Holders[g] \cap Holders[h] = {}
        PROVE  Apart
    <3>1. /\ CPU \cap Active = {} /\ CPU \cap Expired = {} /\ CPU \cap Sleeping = {}
          /\ CPU \cap Joining = {} /\ CPU \cap zombie_thr_list = {}
          /\ CPU \cap dead_thr_list = {}
      BY <1>2, <2>1
    <3>2. /\ Active \cap Expired = {} /\ Active \cap Sleeping = {}
          /\ Active \cap Joining = {} /\ Active \cap zombie_thr_list = {}
          /\ Active \cap dead_thr_list = {}
      BY <1>2, <2>1
    <3>3. /\ Expired \cap Sleeping = {} /\ Expired \cap Joining = {}
          /\ Expired \cap zombie_thr_list = {} /\ Expired \cap dead_thr_list = {}
          /\ Sleeping \cap Joining = {} /\ Sleeping \cap zombie_thr_list = {}
          /\ Sleeping \cap dead_thr_list = {}
      BY <1>2, <2>1
    <3>4. /\ Joining \cap zombie_thr_list = {} /\ Joining \cap dead_thr_list = {}
          /\ zombie_thr_list \cap dead_thr_list = {}
      BY <1>2, <2>1
    <3> QED
      BY <3>1, <3>2, <3>3, <3>4 DEF Apart
  <2>2. ASSUME Apart, NEW g \in D, NEW h \in D, g # h
        PROVE  Holders[g] \cap Holders[h] = {}
    <3> HIDE DEF D
    <3>1. g \in D /\ h \in D /\ g # h
      BY <2>2
    <3>2. CASE g = "cpu"
      BY <1>2, <2>2, <3>1, <3>2 DEF Apart, D
    <3>3. CASE g = "active"
      BY <1>2, <2>2, <3>1, <3>3 DEF Apart, D
    <3>4. CASE g = "expired"
      BY <1>2, <2>2, <3>1, <3>4 DEF Apart, D
    <3>5. CASE g = "sleep"
      BY <1>2, <2>2, <3>1, <3>5 DEF Apart, D
    <3>6. CASE g = "join"
      BY <1>2, <2>2, <3>1, <3>6 DEF Apart, D
    <3>7. CASE g = "zombie"
      BY <1>2, <2>2, <3>1, <3>7 DEF Apart, D
    <3>8. CASE g = "dead"
      BY <1>2, <2>2, <3>1, <3>8 DEF Apart, D
    <3> QED
      BY <3>1, <3>2, <3>3, <3>4, <3>5, <3>6, <3>7, <3>8 DEF D
  <2> QED
    BY <2>1, <2>2
<1>5. OnePlace <=> /\ UNION {Holders[h] : h \in D} = created
                   /\ \A g, h \in D : g # h => Holders[g] \cap Holders[h] = {}
                   /\ NoDuplicates(sleep_thr_list) /\ NoDuplicates(join_thr_list)
                   /\ Distinct(active_rq) /\ Distinct(expired_rq)
  BY <1>1 DEF OnePlace, Distinct
<1> QED
  BY <1>3, <1>4, <1>5 DEF Places

\* QueuedByPriority says that both run queues are sorted by current priority.
LEMMA QueuedIsSorted ==
  ASSUME TypeOK
  PROVE  QueuedByPriority <=> Sorted(active_rq, PrioOf) /\ Sorted(expired_rq, PrioOf)
<1>1. \A p \in Prio : Range(active_rq[p]) \subseteq Thread
                      /\ Range(expired_rq[p]) \subseteq Thread
  BY RangeOfSeq DEF TypeOK
<1> QED
  BY <1>1 DEF QueuedByPriority, Sorted, PrioOf

\* A context switch takes one ready thread to the CPU and keeps the other ones
\* where they are; when it finds none, none is ready.
LEMMA RunNextPlaces ==
  ASSUME NEW a \in Runqueues, NEW e \in Runqueues, NEW level, NEW prio,
         Running, RunNext(a, e, level),
         rq_threads(a) \cap rq_threads(e) = {},
         Distinct(a), Distinct(e), Sorted(a, prio), Sorted(e, prio)
  PROVE  /\ CPU' \cup Active' \cup Expired' = rq_threads(a) \cup rq_threads(e)
         /\ CPU' \cap (Active' \cup Expired') = {}
         /\ Active' \cap Expired' = {}
         /\ Distinct(active_rq') /\ Distinct(expired_rq')
         /\ Sorted(active_rq', prio) /\ Sorted(expired_rq', prio)
<1> DEFINE act == IF EpochOver(a) THEN e ELSE a
           exp == IF EpochOver(a) THEN a ELSE e
<1>1. /\ act \in Runqueues /\ exp \in Runqueues
      /\ rq_threads(act) \cup rq_threads(exp) = rq_threads(a) \cup rq_threads(e)
      /\ rq_threads(act) \cap rq_threads(exp) = {}
      /\ Distinct(act) /\ Distinct(exp) /\ Sorted(act, prio) /\ Sorted(exp, prio)
  OBVIOUS
<1>2. expired_rq' = exp
  BY DEF RunNext
<1>3. rq_vazia(act) => active_rq' = act /\ status' = "crashed"
  BY DEF RunNext
<1>4. ~rq_vazia(act) => /\ active_rq' = rq_resto(act)
                        /\ active_thr' = rq_primeira(act)
                        /\ status' = status
  BY DEF RunNext
<1> HIDE DEF act, exp
<1>5. CASE rq_vazia(act)
  <2>1. CPU' = {}
    BY <1>3, <1>5 DEF CPU, Running
  <2> QED
    BY <1>1, <1>2, <1>3, <1>5, <2>1 DEF Active, Expired, Distinct, Sorted
<1>6. CASE ~rq_vazia(act)
  <2> DEFINE t == rq_primeira(act)
             r == rq_resto(act)
             b == rq_melhor_prio(act)
  <2>1. /\ b \in Prio
        /\ t \in Range(act[b])
        /\ \A q \in Prio : Range(r[q]) \subseteq Range(act[q])
        /\ rq_threads(act) = {t} \cup rq_threads(r)
        /\ t \notin Range(r[b])
        /\ Distinct(r)
    <3>1. b \in Prio
      BY <1>6, MelhorPrio
    <3>2. NoDuplicates(act[b]) /\ \A q \in Prio : NoDuplicates(act[q])
      BY <1>1, <3>1 DEF Distinct
    <3> QED
      BY <1>1, <1>6, <3>1, <3>2, RetirarRange DEF Runqueues, Distinct
  <2> HIDE DEF t, r, b
  <2>2. t \notin rq_threads(r)
    <3> SUFFICES ASSUME NEW q \in Prio, t \in Range(r[q])
                 PROVE  FALSE
      BY DEF rq_threads
    <3>1. prio[t] = b /\ prio[t] = q
      BY <1>1, <2>1 DEF Sorted
    <3> QED
      BY <2>1, <3>1
  <2>3. Sorted(r, prio)
    BY <1>1, <2>1 DEF Sorted
  <2>4. CPU' = {t}
    BY <1>4, <1>6 DEF CPU, Running, t
  <2>5. Active' = rq_threads(r) /\ Expired' = rq_threads(exp) /\ active_rq' = r
    BY <1>2, <1>4, <1>6 DEF Active, Expired, r
  <2>6. Distinct(active_rq') /\ Distinct(expired_rq')
    BY <1>1, <1>2, <2>1, <2>5 DEF Distinct
  <2>7. Sorted(active_rq', prio) /\ Sorted(expired_rq', prio)
    BY <1>1, <1>2, <2>3, <2>5 DEF Sorted
  <2> QED
    BY <1>1, <2>1, <2>2, <2>4, <2>5, <2>6, <2>7
<1> QED
  BY <1>5, <1>6

\* Inserting a thread, whose priority may have just changed.
LEMMA InserirSorted ==
  ASSUME NEW rq \in Runqueues, NEW t \in Thread, NEW p \in Prio,
         NEW prio, NEW new, Sorted(rq, prio), Distinct(rq),
         t \notin rq_threads(rq),
         new[t] = p, \A u \in rq_threads(rq) : new[u] = prio[u]
  PROVE  /\ rq_inserir(rq, t, p) \in Runqueues
         /\ rq_threads(rq_inserir(rq, t, p)) = rq_threads(rq) \cup {t}
         /\ Distinct(rq_inserir(rq, t, p))
         /\ Sorted(rq_inserir(rq, t, p), new)
<1> DEFINE r == rq_inserir(rq, t, p)
<1>1. /\ r \in Runqueues
      /\ \A q \in Prio : Range(r[q]) = IF q = p THEN Range(rq[q]) \cup {t} ELSE Range(rq[q])
      /\ rq_threads(r) = rq_threads(rq) \cup {t}
      /\ \A q \in Prio : NoDuplicates(r[q])
  <2>1. rq \in [Prio -> Seq(Thread)] /\ \A q \in Prio : NoDuplicates(rq[q])
    BY DEF Runqueues, Distinct
  <2>2. r \in [Prio -> Seq(Thread)]
    BY <2>1, InserirRange
  <2>3. \A q \in Prio : Range(r[q]) = IF q = p THEN Range(rq[q]) \cup {t} ELSE Range(rq[q])
    <3>1. \A q \in Prio : r[q] = IF q = p THEN Append(rq[q], t) ELSE rq[q]
      BY DEF rq_inserir
    <3>2. Range(Append(rq[p], t)) = Range(rq[p]) \cup {t}
      BY <2>1, AppendRange
    <3> HIDE DEF r
    <3> QED
      BY <3>1, <3>2
  <2>4. rq_threads(r) = rq_threads(rq) \cup {t}
    BY <2>1, InserirRange
  <2>5. \A q \in Prio : NoDuplicates(r[q])
    BY <2>1, InserirRange
  <2> QED
    BY <2>2, <2>3, <2>4, <2>5 DEF Runqueues
<1> HIDE DEF r
<1>2. ASSUME NEW q \in Prio, NEW u \in Range(r[q])
      PROVE  new[u] = q
  <2>1. CASE u \in Range(rq[q])
    <3>1. u \in rq_threads(rq) /\ prio[u] = q
      BY <2>1 DEF rq_threads, Sorted
    <3> QED
      BY <3>1
  <2>2. CASE u \notin Range(rq[q])
    BY <1>1, <1>2, <2>2
  <2> QED
    BY <2>1, <2>2
<1>3. Distinct(r) /\ Sorted(r, new)
  BY <1>1, <1>2 DEF Distinct, Sorted
<1> QED
  BY <1>1, <1>3 DEF r

\* The same for the threads of a sequence, none of them queued yet.
LEMMA InserirTodasSorted ==
  ASSUME NEW rq \in Runqueues, NEW s \in Seq(Thread), NEW prio \in [Thread -> Prio],
         Sorted(rq, prio), Distinct(rq), NoDuplicates(s),
         Range(s) \cap rq_threads(rq) = {}
  PROVE  /\ rq_inserir_todas(rq, s, prio) \in Runqueues
         /\ rq_threads(rq_inserir_todas(rq, s, prio)) = rq_threads(rq) \cup Range(s)
         /\ Distinct(rq_inserir_todas(rq, s, prio))
         /\ Sorted(rq_inserir_todas(rq, s, prio), prio)
<1> DEFINE r == rq_inserir_todas(rq, s, prio)
<1>1. /\ r \in Runqueues
      /\ \A q \in Prio : Range(r[q]) = Range(rq[q]) \cup {t \in Range(s) : prio[t] = q}
      /\ rq_threads(r) = rq_threads(rq) \cup Range(s)
      /\ \A q \in Prio : NoDuplicates(r[q])
  <2>1. rq \in [Prio -> Seq(Thread)] /\ \A q \in Prio : NoDuplicates(rq[q])
    BY DEF Runqueues, Distinct
  <2>2. r \in [Prio -> Seq(Thread)]
    BY <2>1, InserirTodasRange
  <2>3. \A q \in Prio : Range(r[q]) = Range(rq[q]) \cup {t \in Range(s) : prio[t] = q}
    <3>1. HoldsAlso(r, rq, s, prio)
      BY <2>1, InserirTodasRange
    <3> HIDE DEF r
    <3> QED
      BY <3>1 DEF HoldsAlso
  <2>4. rq_threads(r) = rq_threads(rq) \cup Range(s)
    <3>1. \A t \in Range(s) : prio[t] \in Prio
      BY RangeOfSeq
    <3> HIDE DEF r
    <3> QED
      BY <2>3, <3>1 DEF rq_threads
  <2>5. \A q \in Prio : NoDuplicates(r[q])
    BY <2>1, InserirTodasRange
  <2> QED
    BY <2>2, <2>3, <2>4, <2>5 DEF Runqueues
<1> HIDE DEF r
<1>2. Distinct(r) /\ Sorted(r, prio)
  BY <1>1 DEF Distinct, Sorted
<1> QED
  BY <1>1, <1>2 DEF r

-----------------------------------------------------------------------------
(* The inductive invariant: every thread is in one place, and the queued   *)
(* ones are in the queue of their priority.  The second part is needed for *)
(* the first: a thread that were queued twice, at two priorities, would be *)
(* taken out only once.                                                    *)

Good == /\ Places
        /\ Sorted(active_rq, PrioOf)
        /\ Sorted(expired_rq, PrioOf)

IInv == TypeOK /\ Good

\* The state sthread_init leaves satisfies the inductive invariant.
LEMMA InitGood == Init => Good
<1> SUFFICES ASSUME Init PROVE Good
  OBVIOUS
<1>1. \A p \in Prio : criar_runqueue[p] = << >>
  BY DEF criar_runqueue
<1>2. /\ Range(<< >>) = {}
      /\ NoDuplicates(<< >>)
  BY DEF Range, NoDuplicates
<1>3. /\ Active = {} /\ Expired = {} /\ Sleeping = {} /\ Joining = {}
      /\ CPU = {Main} /\ created = {Main}
      /\ zombie_thr_list = {} /\ dead_thr_list = {}
  BY <1>1, <1>2 DEF Init, Active, Expired, Sleeping, Joining, CPU, Running, rq_threads
<1>4. Apart
  BY <1>3 DEF Apart
<1>5. Distinct(active_rq) /\ Distinct(expired_rq)
  BY <1>1, <1>2 DEF Init, Distinct
<1>6. Sorted(active_rq, PrioOf) /\ Sorted(expired_rq, PrioOf)
  BY <1>1, <1>2 DEF Init, Sorted
<1> QED
  BY <1>2, <1>3, <1>4, <1>5, <1>6 DEF Init, Good, Places

\* A change of the priorities of threads that are not queued.
LEMMA SortedChange ==
  ASSUME NEW rq, NEW prio, NEW new, Sorted(rq, prio),
         \A u \in rq_threads(rq) : new[u] = prio[u]
  PROVE  Sorted(rq, new)
BY DEF Sorted, rq_threads

\* Nothing is queued in a runqueue that is empty.
LEMMA EmptyThreads ==
  ASSUME NEW rq, rq_vazia(rq)
  PROVE  rq_threads(rq) = {}
<1>1. \A p \in Prio : rq[p] = << >>
  BY MelhorPrio
<1>2. Range(<< >>) = {}
  BY DEF Range
<1> QED
  BY <1>1, <1>2 DEF rq_threads

\* The sets of the invariant are sets of threads.
LEMMA HeldAreThreads ==
  ASSUME TypeOK
  PROVE  /\ active_rq \in Runqueues /\ expired_rq \in Runqueues
         /\ Active \subseteq Thread /\ Expired \subseteq Thread
         /\ Sleeping \subseteq Thread /\ Joining \subseteq Thread
         /\ PrioOf \in [Thread -> Prio]
<1>1. active_rq \in Runqueues /\ expired_rq \in Runqueues
  BY DEF TypeOK, Runqueues
<1>2. \A p \in Prio : Range(active_rq[p]) \subseteq Thread
                      /\ Range(expired_rq[p]) \subseteq Thread
  BY RangeOfSeq DEF TypeOK
<1>3. Active \subseteq Thread /\ Expired \subseteq Thread
  BY <1>2 DEF Active, Expired, rq_threads
<1>4. Sleeping \subseteq Thread /\ Joining \subseteq Thread
  BY RangeOfSeq DEF TypeOK, Sleeping, Joining
<1>5. \A t \in Thread : pcb[t] \in PCB
  BY DEF TypeOK
<1>6. \A t \in Thread : pcb[t].priority \in Prio
  BY <1>5, PCBFields
<1>7. PrioOf \in [Thread -> Prio]
  BY <1>6 DEF PrioOf
<1> QED
  BY <1>1, <1>3, <1>4, <1>7

\* The running thread is in no queue.
LEMMA RunningIsNotQueued ==
  ASSUME TypeOK, Good, Running
  PROVE  /\ CPU = {active_thr} /\ active_thr \in Thread
         /\ active_thr \notin Active /\ active_thr \notin Expired
         /\ active_thr \notin Sleeping /\ active_thr \notin Joining
         /\ active_thr \notin zombie_thr_list /\ active_thr \notin dead_thr_list
         /\ Active \cap Expired = {}
         /\ Distinct(active_rq) /\ Distinct(expired_rq)
<1>1. CPU = {active_thr}
  BY DEF CPU
<1> QED
  BY <1>1 DEF Good, Places, Apart, TypeOK

\* sthread_create_p puts a thread that was nowhere in one queue.
LEMMA CreateGood ==
  ASSUME TypeOK, Good, NEW t \in Thread, NEW p \in CreatePrios, Create(t, p)
  PROVE  Good'
<1> DEFINE q == Clamp(p, 0, NUM_PRIORITIES - 1)
<1>1. q \in Prio
  BY PrioritiesAssumption, WorkloadAssumption DEF Clamp, Prio
<1> HIDE DEF q
<1>2. /\ t \notin created /\ Running
      /\ pcb' = [pcb EXCEPT ![t] = NewPCB(q)]
      /\ active_rq' = rq_inserir(active_rq, t, q)
      /\ created' = created \cup {t}
      /\ UNCHANGED <<expired_rq, sleep_thr_list, join_thr_list, zombie_thr_list,
                     dead_thr_list, active_thr, status>>
  BY DEF Create, Calling, q
<1>3. PrioOf'[t] = q /\ \A u \in Thread : u # t => PrioOf'[u] = PrioOf[u]
  BY <1>2 DEF PrioOf, NewPCB, TypeOK
<1>4. t \notin Active /\ t \notin Expired
  BY <1>2 DEF Good, Places
<1>5. \A u \in Active \cup Expired : PrioOf'[u] = PrioOf[u]
  BY <1>3, <1>4, HeldAreThreads
<1>6. /\ Active' = Active \cup {t}
      /\ Distinct(active_rq') /\ Sorted(active_rq', PrioOf')
  <2>1. /\ active_rq \in Runqueues /\ Sorted(active_rq, PrioOf)
        /\ Distinct(active_rq)
    BY HeldAreThreads DEF Good, Places
  <2>2. \A u \in rq_threads(active_rq) : PrioOf'[u] = PrioOf[u]
    BY <1>5 DEF Active
  <2> QED
    BY <1>1, <1>2, <1>3, <1>4, <2>1, <2>2, InserirSorted DEF Active
<1>7. Expired' = Expired /\ Distinct(expired_rq') /\ Sorted(expired_rq', PrioOf')
  BY <1>2, <1>5, SortedChange DEF Expired, Good, Places
<1>8. CPU' = CPU /\ Sleeping' = Sleeping /\ Joining' = Joining
  BY <1>2 DEF CPU, Running, Sleeping, Joining
<1> QED
  BY <1>2, <1>6, <1>7, <1>8 DEF Good, Places, Apart

\* After a step the threads of R and the threads in the lists are all there are, each
\* in one place.
Parted(R) ==
    /\ created' = R \cup Sleeping' \cup Joining' \cup zombie_thr_list'
                   \cup dead_thr_list'
    /\ R \cap (Sleeping' \cup Joining' \cup zombie_thr_list'
               \cup dead_thr_list') = {}
    /\ Sleeping' \cap (Joining' \cup zombie_thr_list' \cup dead_thr_list') = {}
    /\ Joining' \cap (zombie_thr_list' \cup dead_thr_list') = {}
    /\ zombie_thr_list' \cap dead_thr_list' = {}

\* What a context switch from a and e leaves, with the sleeping, joining, zombie
\* and dead threads given: the invariant holds if it holds of a and e.
LEMMA SwitchGood ==
  ASSUME TypeOK, Running, NEW a \in Runqueues, NEW e \in Runqueues, NEW level,
         RunNext(a, e, level),
         Distinct(a), Distinct(e), Sorted(a, PrioOf'), Sorted(e, PrioOf'),
         NoDuplicates(sleep_thr_list'), NoDuplicates(join_thr_list'),
         NEW R, R = rq_threads(a) \cup rq_threads(e), Parted(R),
         rq_threads(a) \cap rq_threads(e) = {}
  PROVE  Good'
<1>1. /\ CPU' \cup Active' \cup Expired' = R
      /\ CPU' \cap (Active' \cup Expired') = {}
      /\ Active' \cap Expired' = {}
      /\ Distinct(active_rq') /\ Distinct(expired_rq')
      /\ Sorted(active_rq', PrioOf') /\ Sorted(expired_rq', PrioOf')
  BY RunNextPlaces
<1>2. Apart'
  BY <1>1 DEF Apart, Parted
<1>3. created' = CPU' \cup Active' \cup Expired' \cup Sleeping' \cup Joining'
                 \cup zombie_thr_list' \cup dead_thr_list'
  BY <1>1 DEF Parted
<1> QED
  BY <1>1, <1>2, <1>3 DEF Good, Places

\* A context switch from run queues in which the threads that were ready still are.
SwitchFrom(a, e) ==
    /\ Running
    /\ a \in Runqueues /\ e \in Runqueues
    /\ Sorted(a, PrioOf') /\ Sorted(e, PrioOf')
    /\ Active \subseteq rq_threads(a) /\ Expired \subseteq rq_threads(e)
    /\ \E level \in {"LOW", "HIGH"} : RunNext(a, e, level)

Switches == \E a, e : SwitchFrom(a, e)

\* The end of the process: no thread is ready.
Ends == status' = "exited" /\ Active' = {} /\ Expired' = {} /\ Expired = {}

\* sthread_yield recalculates the running thread before it queues it.
LEMMA YieldGood ==
  ASSUME TypeOK, Good, Yield
  PROVE  Good' /\ Switches
<1> DEFINE p == Recalcular(pcb[active_thr])
           a == rq_inserir(active_rq, active_thr, p.priority)
<1>1. /\ Running
      /\ pcb' = [pcb EXCEPT ![active_thr] = p]
      /\ RunNext(a, expired_rq, "HIGH")
      /\ UNCHANGED <<created, sleep_thr_list, join_thr_list, zombie_thr_list,
                     dead_thr_list>>
  BY DEF Yield, Calling
<1>2. p \in PCB /\ p.priority \in Prio
  BY <1>1, RecalcularProperties, PCBFields DEF TypeOK
<1> HIDE DEF p
<1>3. /\ PrioOf'[active_thr] = p.priority
      /\ \A u \in Thread : u # active_thr => PrioOf'[u] = PrioOf[u]
  BY <1>1 DEF PrioOf, TypeOK
<1>4. \A u \in Active \cup Expired : PrioOf'[u] = PrioOf[u]
  BY <1>1, <1>3, HeldAreThreads, RunningIsNotQueued
<1>5. /\ a \in Runqueues /\ rq_threads(a) = Active \cup {active_thr}
      /\ Distinct(a) /\ Sorted(a, PrioOf')
  <2>1. /\ active_rq \in Runqueues /\ Sorted(active_rq, PrioOf)
        /\ Distinct(active_rq)
        /\ active_thr \in Thread /\ active_thr \notin rq_threads(active_rq)
    BY <1>1, HeldAreThreads, RunningIsNotQueued DEF Good, Active
  <2>2. \A u \in rq_threads(active_rq) : PrioOf'[u] = PrioOf[u]
    BY <1>4 DEF Active
  <2> QED
    BY <1>2, <1>3, <2>1, <2>2, InserirSorted DEF Active
<1> HIDE DEF a
<1>6. /\ expired_rq \in Runqueues /\ rq_threads(expired_rq) = Expired
      /\ Distinct(expired_rq) /\ Sorted(expired_rq, PrioOf')
  BY <1>1, <1>4, HeldAreThreads, RunningIsNotQueued, SortedChange DEF Good, Expired
<1>7. /\ Sleeping' = Sleeping /\ Joining' = Joining /\ created' = created
      /\ zombie_thr_list' = zombie_thr_list /\ dead_thr_list' = dead_thr_list
      /\ NoDuplicates(sleep_thr_list') /\ NoDuplicates(join_thr_list')
  BY <1>1 DEF Sleeping, Joining, Good, Places
<1>8. /\ CPU = {active_thr} /\ Apart
      /\ created = CPU \cup Active \cup Expired \cup Sleeping \cup Joining
                   \cup zombie_thr_list \cup dead_thr_list
  BY <1>1, RunningIsNotQueued DEF Good, Places
<1> DEFINE R == rq_threads(a) \cup rq_threads(expired_rq)
<1>9. /\ rq_threads(a) \cap rq_threads(expired_rq) = {}
      /\ Parted(R)
  BY <1>5, <1>6, <1>7, <1>8 DEF Apart, Parted
<1> HIDE DEF R
<1>10. Switches
  BY <1>1, <1>5, <1>6 DEF Switches, SwitchFrom
<1> QED
  BY <1>1, <1>5, <1>6, <1>7, <1>9, <1>10, SwitchGood DEF R

\* The running thread goes to the end of a list: it sleeps, or it joins.
LEMMA SleepGood ==
  ASSUME TypeOK, Good, NEW time \in SleepTimes, Sleep(time)
  PROVE  Good' /\ Switches
<1>1. /\ Running
      /\ pcb' = [pcb EXCEPT ![active_thr].wake_in = NumTicks(time)]
      /\ sleep_thr_list' = Append(sleep_thr_list, active_thr)
      /\ RunNext(active_rq, expired_rq, "HIGH")
      /\ UNCHANGED <<created, join_thr_list, zombie_thr_list, dead_thr_list>>
  BY DEF Sleep, Calling
<1>2. PrioOf' = PrioOf
  BY <1>1 DEF PrioOf, TypeOK, PCB
<1>3. /\ Sleeping' = Sleeping \cup {active_thr}
      /\ NoDuplicates(sleep_thr_list')
  <2>1. sleep_thr_list \in Seq(Thread) /\ active_thr \in Thread
        /\ NoDuplicates(sleep_thr_list) /\ active_thr \notin Range(sleep_thr_list)
    BY <1>1, RunningIsNotQueued DEF TypeOK, Good, Places, Sleeping
  <2> QED
    BY <1>1, <2>1, AppendRange DEF Sleeping
<1>4. /\ Joining' = Joining /\ created' = created
      /\ zombie_thr_list' = zombie_thr_list /\ dead_thr_list' = dead_thr_list
      /\ NoDuplicates(join_thr_list')
  BY <1>1 DEF Joining, Good, Places
<1>5. /\ active_rq \in Runqueues /\ rq_threads(active_rq) = Active
      /\ expired_rq \in Runqueues /\ rq_threads(expired_rq) = Expired
      /\ Distinct(active_rq) /\ Sorted(active_rq, PrioOf')
      /\ Distinct(expired_rq) /\ Sorted(expired_rq, PrioOf')
  BY <1>1, <1>2, HeldAreThreads, RunningIsNotQueued DEF Good, Active, Expired
<1>6. /\ CPU = {active_thr} /\ Apart
      /\ created = CPU \cup Active \cup Expired \cup Sleeping \cup Joining
                   \cup zombie_thr_list \cup dead_thr_list
  BY <1>1, RunningIsNotQueued DEF Good, Places
<1> DEFINE R == rq_threads(active_rq) \cup rq_threads(expired_rq)
<1>7. /\ rq_threads(active_rq) \cap rq_threads(expired_rq) = {}
      /\ Parted(R)
  BY <1>3, <1>4, <1>5, <1>6 DEF Apart, Parted
<1> HIDE DEF R
<1>8. Switches
  BY <1>1, <1>5 DEF Switches, SwitchFrom
<1> QED
  BY <1>1, <1>3, <1>4, <1>5, <1>7, <1>8, SwitchGood DEF R

\* sthread_join of a live thread moves the caller from the CPU to the join list.
LEMMA JoinGood ==
  ASSUME TypeOK, Good, NEW u \in Thread, Join(u)
  PROVE  Good' /\ Switches
<1>1. /\ Running
      /\ pcb' = [pcb EXCEPT ![active_thr].join_tid = u]
      /\ join_thr_list' = Append(join_thr_list, active_thr)
      /\ RunNext(active_rq, expired_rq, "HIGH")
      /\ UNCHANGED <<created, sleep_thr_list, zombie_thr_list, dead_thr_list>>
  BY DEF Join, Calling
<1>2. PrioOf' = PrioOf
  BY <1>1 DEF PrioOf, TypeOK, PCB
<1>3. /\ Joining' = Joining \cup {active_thr}
      /\ NoDuplicates(join_thr_list')
  <2>1. join_thr_list \in Seq(Thread) /\ active_thr \in Thread
        /\ NoDuplicates(join_thr_list) /\ active_thr \notin Range(join_thr_list)
    BY <1>1, RunningIsNotQueued DEF TypeOK, Good, Places, Joining
  <2> QED
    BY <1>1, <2>1, AppendRange DEF Joining
<1>4. /\ Sleeping' = Sleeping /\ created' = created
      /\ zombie_thr_list' = zombie_thr_list /\ dead_thr_list' = dead_thr_list
      /\ NoDuplicates(sleep_thr_list')
  BY <1>1 DEF Sleeping, Good, Places
<1>5. /\ active_rq \in Runqueues /\ rq_threads(active_rq) = Active
      /\ expired_rq \in Runqueues /\ rq_threads(expired_rq) = Expired
      /\ Distinct(active_rq) /\ Sorted(active_rq, PrioOf')
      /\ Distinct(expired_rq) /\ Sorted(expired_rq, PrioOf')
  BY <1>1, <1>2, HeldAreThreads, RunningIsNotQueued DEF Good, Active, Expired
<1>6. /\ CPU = {active_thr} /\ Apart
      /\ created = CPU \cup Active \cup Expired \cup Sleeping \cup Joining
                   \cup zombie_thr_list \cup dead_thr_list
  BY <1>1, RunningIsNotQueued DEF Good, Places
<1> DEFINE R == rq_threads(active_rq) \cup rq_threads(expired_rq)
<1>7. /\ rq_threads(active_rq) \cap rq_threads(expired_rq) = {}
      /\ Parted(R)
  BY <1>3, <1>4, <1>5, <1>6 DEF Apart, Parted
<1> HIDE DEF R
<1>8. Switches
  BY <1>1, <1>5 DEF Switches, SwitchFrom
<1> QED
  BY <1>1, <1>3, <1>4, <1>5, <1>7, <1>8, SwitchGood DEF R

\* sthread_exit: the ones that wait become ready, the thread itself is left.
LEMMA ExitGood ==
  ASSUME TypeOK, Good, Exit
  PROVE  Good' /\ (Switches \/ Ends)
<1> DEFINE released == KeepOnly(join_thr_list, Joiners)
           act == rq_inserir_todas(active_rq, released, PrioOf)
<1>1. /\ Running
      /\ join_thr_list' = KeepOnly(join_thr_list, Thread \ Joiners)
      /\ UNCHANGED <<created, pcb, sleep_thr_list>>
      /\ \/ /\ zombie_thr_list' = zombie_thr_list \cup {active_thr}
            /\ dead_thr_list' = dead_thr_list
         \/ /\ dead_thr_list' = dead_thr_list \cup {active_thr}
            /\ zombie_thr_list' = zombie_thr_list
      /\ \/ /\ NoneReady(act)
            /\ status' = "exited"
            /\ UNCHANGED <<active_rq, expired_rq, active_thr>>
         \/ RunNext(act, expired_rq, "HIGH")
  BY DEF Exit, Calling, PrioOf
<1>2. /\ released \in Seq(Thread) /\ NoDuplicates(released)
      /\ Range(released) = Joining \cap Joiners
      /\ NoDuplicates(join_thr_list')
      /\ Joining' = Joining \ Joiners
  <2>1. join_thr_list \in Seq(Thread) /\ NoDuplicates(join_thr_list)
    BY DEF TypeOK, Good, Places
  <2>2. Range(KeepOnly(join_thr_list, Thread \ Joiners)) = Joining \cap (Thread \ Joiners)
        /\ NoDuplicates(KeepOnly(join_thr_list, Thread \ Joiners))
    BY <2>1, KeepOnlyRange DEF Joining
  <2>3. /\ released \in Seq(Thread) /\ NoDuplicates(released)
        /\ Range(released) = Joining \cap Joiners
    BY <2>1, KeepOnlyRange DEF Joining
  <2>4. Joining \subseteq Thread
    BY HeldAreThreads
  <2>5. Joining' = Joining \cap (Thread \ Joiners) /\ NoDuplicates(join_thr_list')
    BY <1>1, <2>2 DEF Joining
  <2> QED
    BY <2>3, <2>4, <2>5
<1> HIDE DEF released
<1>3. PrioOf' = PrioOf
  BY <1>1 DEF PrioOf
<1>4. /\ CPU = {active_thr} /\ Apart
      /\ created = CPU \cup Active \cup Expired \cup Sleeping \cup Joining
                   \cup zombie_thr_list \cup dead_thr_list
  BY <1>1, RunningIsNotQueued DEF Good, Places
<1>5. /\ act \in Runqueues /\ rq_threads(act) = Active \cup (Joining \cap Joiners)
      /\ Distinct(act) /\ Sorted(act, PrioOf)
  <2>1. /\ active_rq \in Runqueues /\ PrioOf \in [Thread -> Prio]
        /\ Sorted(active_rq, PrioOf) /\ Distinct(active_rq)
    BY HeldAreThreads DEF Good, Places
  <2>2. Range(released) \cap rq_threads(active_rq) = {}
    BY <1>2, <1>4 DEF Apart, Active
  <2> QED
    BY <1>2, <2>1, <2>2, InserirTodasSorted DEF Active
<1> HIDE DEF act
<1>6. /\ expired_rq \in Runqueues /\ rq_threads(expired_rq) = Expired
      /\ Distinct(expired_rq) /\ Sorted(expired_rq, PrioOf)
  BY HeldAreThreads DEF Good, Places, Expired
<1>7. /\ Sleeping' = Sleeping /\ created' = created /\ NoDuplicates(sleep_thr_list')
  BY <1>1 DEF Sleeping, Good, Places
<1>8. /\ zombie_thr_list' \cup dead_thr_list' =
            zombie_thr_list \cup dead_thr_list \cup {active_thr}
      /\ zombie_thr_list' \cap dead_thr_list' = {}
  BY <1>1, <1>4 DEF Apart
<1>9. CASE NoneReady(act) /\ status' = "exited"
           /\ UNCHANGED <<active_rq, expired_rq, active_thr>>
  <2>1. rq_threads(act) = {}
    BY <1>9, EmptyThreads DEF NoneReady
  <2>2. Active' = Active /\ Expired' = Expired /\ CPU' = {}
    BY <1>9 DEF Active, Expired, CPU, Running
  <2>3. Joining' = Joining
    BY <1>2, <1>5, <2>1
  <2>4. Apart'
    BY <1>4, <1>7, <1>8, <2>2, <2>3 DEF Apart
  <2>5. created' = CPU' \cup Active' \cup Expired' \cup Sleeping' \cup Joining'
                   \cup zombie_thr_list' \cup dead_thr_list'
    BY <1>4, <1>7, <1>8, <2>2, <2>3
  <2>6. /\ Distinct(active_rq') /\ Distinct(expired_rq')
        /\ Sorted(active_rq', PrioOf') /\ Sorted(expired_rq', PrioOf')
    BY <1>3, <1>6, <1>9 DEF Good, Places
  <2>7. Ends
    BY <1>5, <1>6, <1>9, <2>1, <2>2, EmptyThreads DEF NoneReady, Ends
  <2> QED
    BY <1>2, <1>7, <2>4, <2>5, <2>6, <2>7 DEF Good, Places
<1>10. CASE RunNext(act, expired_rq, "HIGH")
  <2> DEFINE R == rq_threads(act) \cup rq_threads(expired_rq)
  <2>1. /\ rq_threads(act) \cap rq_threads(expired_rq) = {}
        /\ Parted(R)
    BY <1>2, <1>4, <1>5, <1>6, <1>7, <1>8 DEF Apart, Parted
  <2> HIDE DEF R
  <2>2. Switches
    BY <1>1, <1>3, <1>5, <1>6, <1>10 DEF Switches, SwitchFrom
  <2> QED
    BY <1>1, <1>2, <1>3, <1>5, <1>6, <1>7, <1>10, <2>1, <2>2, SwitchGood DEF R
<1> QED
  BY <1>1, <1>9, <1>10

\* A join that does not wait only moves a zombie to the dead.
LEMMA JoinZombieGood ==
  ASSUME TypeOK, Good, NEW u \in Thread, JoinZombie(u)
  PROVE  Good'
<1>1. /\ u \in zombie_thr_list
      /\ zombie_thr_list' = zombie_thr_list \ {u}
      /\ dead_thr_list' = dead_thr_list \cup {u}
      /\ UNCHANGED <<created, pcb, active_rq, expired_rq, sleep_thr_list,
                     join_thr_list, active_thr, status>>
  BY DEF JoinZombie
<1>2. /\ CPU' = CPU /\ Active' = Active /\ Expired' = Expired
      /\ Sleeping' = Sleeping /\ Joining' = Joining /\ PrioOf' = PrioOf
  BY <1>1 DEF CPU, Running, Active, Expired, Sleeping, Joining, PrioOf
<1>3. Apart'
  BY <1>1, <1>2 DEF Good, Places, Apart
<1>4. zombie_thr_list' \cup dead_thr_list' = zombie_thr_list \cup dead_thr_list
  BY <1>1
<1> QED
  BY <1>1, <1>2, <1>3, <1>4 DEF Good, Places

\* A step that moves no thread and changes no priority.
LEMMA StillGood ==
  ASSUME Good, PrioOf' = PrioOf,
         UNCHANGED <<created, active_rq, expired_rq, sleep_thr_list,
                     join_thr_list, zombie_thr_list, dead_thr_list, active_thr,
                     status>>
  PROVE  Good'
<1>1. /\ CPU' = CPU /\ Active' = Active /\ Expired' = Expired
      /\ Sleeping' = Sleeping /\ Joining' = Joining
  BY DEF CPU, Running, Active, Expired, Sleeping, Joining
<1> QED
  BY <1>1 DEF Good, Places, Apart

-----------------------------------------------------------------------------
(* The dispatcher.                                                         *)

\* The sleepers that are due are taken out of the sleep list and inserted among
\* the active threads; their priority, and that of the others, stays.
LEMMA Waking ==
  ASSUME TypeOK, Good, TickWakes
  PROVE  /\ WokenRq \in Runqueues
         /\ rq_threads(WokenRq) = Active \cup Due
         /\ Distinct(WokenRq) /\ Sorted(WokenRq, PrioOf)
         /\ Due \subseteq Sleeping
         /\ Sleeping' = Sleeping \ Due
         /\ NoDuplicates(sleep_thr_list')
         /\ \A t \in Thread : TickedPCB[t].priority = pcb[t].priority
<1>1. /\ Running
      /\ sleep_thr_list' = KeepOnly(sleep_thr_list, Thread \ Due)
  BY DEF TickWakes
<1>2. sleep_thr_list \in Seq(Thread) /\ NoDuplicates(sleep_thr_list)
      /\ Sleeping \subseteq Thread /\ Due \subseteq Sleeping
  BY HeldAreThreads DEF TypeOK, Good, Places, Due, Sleeping
<1> DEFINE woken == KeepOnly(sleep_thr_list, Due)
<1>3. /\ woken \in Seq(Thread) /\ NoDuplicates(woken)
      /\ Range(woken) = Sleeping \cap Due
  BY <1>2, KeepOnlyRange DEF Sleeping
<1>4. /\ Sleeping' = Sleeping \cap (Thread \ Due)
      /\ NoDuplicates(sleep_thr_list')
  BY <1>1, <1>2, KeepOnlyRange DEF Sleeping
<1>5. WokenRq = rq_inserir_todas(active_rq, woken, PrioOf)
  BY DEF WokenRq, PrioOf
<1> HIDE DEF woken
<1>6. /\ WokenRq \in Runqueues
      /\ rq_threads(WokenRq) = rq_threads(active_rq) \cup Range(woken)
      /\ Distinct(WokenRq) /\ Sorted(WokenRq, PrioOf)
  <2>1. /\ active_rq \in Runqueues /\ PrioOf \in [Thread -> Prio]
        /\ Sorted(active_rq, PrioOf) /\ Distinct(active_rq)
    BY HeldAreThreads DEF Good, Places
  <2>2. Range(woken) \cap rq_threads(active_rq) = {}
    BY <1>3 DEF Good, Places, Apart, Active
  <2> QED
    BY <1>3, <1>5, <2>1, <2>2, InserirTodasSorted
<1>7. \A t \in Thread : TickedPCB[t].priority = pcb[t].priority
  BY DEF TickedPCB, TypeOK, PCB
<1> QED
  BY <1>2, <1>3, <1>4, <1>6, <1>7 DEF Active

\* A tick that keeps the running thread only moves sleepers to the active queue.
LEMMA TickKeepGood ==
  ASSUME TypeOK, Good, TickKeep
  PROVE  Good'
<1>1. /\ TickWakes /\ Running
      /\ pcb' = [TickedPCB EXCEPT ![active_thr].quantum = @ - 1]
      /\ active_rq' = WokenRq
      /\ UNCHANGED <<created, expired_rq, join_thr_list, zombie_thr_list,
                     dead_thr_list, active_thr, status>>
  BY DEF TickKeep, TickWakes
<1>2. PrioOf' = PrioOf
  <2>1. TickedPCB \in [Thread -> PCB]
    BY <1>1, TickedType
  <2>2. \A t \in Thread : pcb'[t].priority = TickedPCB[t].priority
    BY <1>1, <2>1 DEF PCB
  <2> QED
    BY <1>1, <2>2, Waking DEF PrioOf
<1>3. /\ CPU' = CPU /\ Expired' = Expired /\ Joining' = Joining
      /\ Active' = Active \cup Due /\ Sleeping' = Sleeping \ Due
      /\ Due \subseteq Sleeping
  BY <1>1, Waking DEF CPU, Running, Active, Expired, Joining
<1>4. Apart'
  BY <1>1, <1>3 DEF Good, Places, Apart
<1>5. created' = CPU' \cup Active' \cup Expired' \cup Sleeping' \cup Joining'
                 \cup zombie_thr_list' \cup dead_thr_list'
  BY <1>1, <1>3 DEF Good, Places
<1>6. /\ Distinct(active_rq') /\ Sorted(active_rq', PrioOf')
      /\ Distinct(expired_rq') /\ Sorted(expired_rq', PrioOf')
      /\ NoDuplicates(sleep_thr_list') /\ NoDuplicates(join_thr_list')
  BY <1>1, <1>2, Waking DEF Good, Places
<1> QED
  BY <1>4, <1>5, <1>6 DEF Good, Places

\* A tick that preempts puts the running thread in the queue of its priority.
LEMMA TickPreemptGood ==
  ASSUME TypeOK, Good, TickPreempt
  PROVE  Good' /\ Switches
<1> DEFINE a == rq_inserir(WokenRq, active_thr, pcb[active_thr].priority)
<1>1. /\ TickWakes /\ Running
      /\ pcb' = [TickedPCB EXCEPT ![active_thr].quantum = @ - 1]
      /\ RunNext(a, expired_rq, "LOW")
      /\ UNCHANGED <<created, join_thr_list, zombie_thr_list, dead_thr_list>>
  BY DEF TickPreempt, TickWakes
<1>2. PrioOf' = PrioOf
  <2>1. TickedPCB \in [Thread -> PCB]
    BY <1>1, TickedType
  <2>2. \A t \in Thread : pcb'[t].priority = TickedPCB[t].priority
    BY <1>1, <2>1 DEF PCB
  <2> QED
    BY <1>1, <2>2, Waking DEF PrioOf
<1>3. /\ CPU = {active_thr} /\ Apart /\ active_thr \in Thread
      /\ created = CPU \cup Active \cup Expired \cup Sleeping \cup Joining
                   \cup zombie_thr_list \cup dead_thr_list
  BY <1>1, RunningIsNotQueued DEF Good, Places
<1>4. /\ Due \subseteq Sleeping /\ Sleeping' = Sleeping \ Due
      /\ NoDuplicates(sleep_thr_list')
  BY <1>1, Waking
<1>5. /\ a \in Runqueues /\ rq_threads(a) = Active \cup Due \cup {active_thr}
      /\ Distinct(a) /\ Sorted(a, PrioOf')
  <2>1. /\ WokenRq \in Runqueues /\ Sorted(WokenRq, PrioOf) /\ Distinct(WokenRq)
        /\ rq_threads(WokenRq) = Active \cup Due
    BY <1>1, Waking
  <2>2. active_thr \notin rq_threads(WokenRq)
    BY <1>3, <1>4, <2>1 DEF Apart
  <2>3. /\ PrioOf[active_thr] = pcb[active_thr].priority
        /\ pcb[active_thr].priority \in Prio
    BY <1>3, HeldAreThreads DEF PrioOf
  <2>4. \A u \in rq_threads(WokenRq) : PrioOf'[u] = PrioOf[u]
    BY <1>2
  <2> QED
    BY <1>2, <1>3, <2>1, <2>2, <2>3, <2>4, InserirSorted
<1> HIDE DEF a
<1>6. /\ expired_rq \in Runqueues /\ rq_threads(expired_rq) = Expired
      /\ Distinct(expired_rq) /\ Sorted(expired_rq, PrioOf')
  BY <1>2, HeldAreThreads DEF Good, Places, Expired
<1>7. /\ Joining' = Joining /\ NoDuplicates(join_thr_list')
  BY <1>1 DEF Joining, Good, Places
<1> DEFINE R == rq_threads(a) \cup rq_threads(expired_rq)
<1>8. /\ rq_threads(a) \cap rq_threads(expired_rq) = {}
      /\ Parted(R)
  BY <1>1, <1>3, <1>4, <1>5, <1>6, <1>7 DEF Apart, Parted
<1> HIDE DEF R
<1>9. Switches
  BY <1>1, <1>5, <1>6 DEF Switches, SwitchFrom
<1> QED
  BY <1>1, <1>4, <1>5, <1>6, <1>7, <1>8, <1>9, SwitchGood DEF R

\* A tick that uses up the quantum recalculates the running thread, then moves it
\* to the expired queue.
LEMMA TickExpireGood ==
  ASSUME TypeOK, Good, TickExpire
  PROVE  Good' /\ Switches
<1> DEFINE p == Recalcular([pcb[active_thr] EXCEPT !.quantum = 0])
           e == rq_inserir(expired_rq, active_thr, p.priority)
<1>1. /\ TickWakes /\ Running
      /\ pcb' = [TickedPCB EXCEPT ![active_thr] = p]
      /\ RunNext(WokenRq, e, "LOW")
      /\ UNCHANGED <<created, join_thr_list, zombie_thr_list, dead_thr_list>>
  BY DEF TickExpire, TickWakes, Retire
<1>2. p \in PCB /\ p.priority \in Prio
  <2>1. pcb[active_thr] \in PCB /\ MaxQuantum \in Nat
    BY <1>1, ConstantsType DEF TypeOK
  <2>2. [pcb[active_thr] EXCEPT !.quantum = 0] \in PCB
    BY <2>1 DEF PCB
  <2> QED
    BY <2>2, RecalcularProperties, PCBFields
<1> HIDE DEF p
<1>3. /\ CPU = {active_thr} /\ Apart /\ active_thr \in Thread
      /\ created = CPU \cup Active \cup Expired \cup Sleeping \cup Joining
                   \cup zombie_thr_list \cup dead_thr_list
  BY <1>1, RunningIsNotQueued DEF Good, Places
<1>4. /\ PrioOf'[active_thr] = p.priority
      /\ \A u \in Thread : u # active_thr => PrioOf'[u] = PrioOf[u]
  <2>1. /\ pcb'[active_thr] = p
        /\ \A u \in Thread : u # active_thr => pcb'[u] = TickedPCB[u]
    BY <1>1, <1>3 DEF TickedPCB
  <2> QED
    BY <1>1, <1>3, <2>1, Waking DEF PrioOf
<1>5. /\ Due \subseteq Sleeping /\ Sleeping' = Sleeping \ Due
      /\ NoDuplicates(sleep_thr_list')
      /\ WokenRq \in Runqueues /\ Distinct(WokenRq) /\ Sorted(WokenRq, PrioOf)
      /\ rq_threads(WokenRq) = Active \cup Due
  BY <1>1, Waking
<1>6. \A u \in Active \cup Expired \cup Due : PrioOf'[u] = PrioOf[u]
  BY <1>3, <1>4, <1>5, HeldAreThreads DEF Apart
<1>7. Sorted(WokenRq, PrioOf')
  BY <1>5, <1>6, SortedChange
<1>8. /\ e \in Runqueues /\ rq_threads(e) = Expired \cup {active_thr}
      /\ Distinct(e) /\ Sorted(e, PrioOf')
  <2>1. /\ expired_rq \in Runqueues /\ Sorted(expired_rq, PrioOf)
        /\ Distinct(expired_rq) /\ active_thr \notin rq_threads(expired_rq)
    BY <1>1, HeldAreThreads, RunningIsNotQueued DEF Good, Expired
  <2>2. \A u \in rq_threads(expired_rq) : PrioOf'[u] = PrioOf[u]
    BY <1>6 DEF Expired
  <2> QED
    BY <1>2, <1>3, <1>4, <2>1, <2>2, InserirSorted DEF Expired
<1> HIDE DEF e
<1>9. /\ Joining' = Joining /\ NoDuplicates(join_thr_list')
  BY <1>1 DEF Joining, Good, Places
<1> DEFINE R == rq_threads(WokenRq) \cup rq_threads(e)
<1>10. /\ rq_threads(WokenRq) \cap rq_threads(e) = {}
       /\ Parted(R)
  BY <1>1, <1>3, <1>5, <1>8, <1>9 DEF Apart, Parted
<1> HIDE DEF R
<1>11. Switches
  BY <1>1, <1>5, <1>7, <1>8 DEF Switches, SwitchFrom
<1> QED
  BY <1>1, <1>5, <1>7, <1>8, <1>9, <1>10, <1>11, SwitchGood DEF R

\* Every call and every tick keeps the inductive invariant.
LEMMA NextGood ==
  ASSUME TypeOK, Good, [Next]_vars
  PROVE  Good'
<1>1. ASSUME NEW t \in Thread, NEW p \in CreatePrios, Create(t, p)
      PROVE  Good'
  BY <1>1, CreateGood
<1>2. ASSUME NEW n \in NiceArgs, Nice(n)
      PROVE  Good'
  <2>1. PrioOf' = PrioOf
    BY <1>2 DEF Nice, PrioOf, TypeOK, PCB
  <2> QED
    BY <1>2, <2>1, StillGood DEF Nice
<1>3. CASE Yield
  BY <1>3, YieldGood
<1>4. ASSUME NEW time \in SleepTimes, SleepNot(time)
      PROVE  Good'
  BY <1>4, StillGood DEF SleepNot, PrioOf
<1>5. ASSUME NEW time \in SleepTimes, Sleep(time)
      PROVE  Good'
  BY <1>5, SleepGood
<1>6. ASSUME NEW u \in Thread, JoinZombie(u)
      PROVE  Good'
  BY <1>6, JoinZombieGood
<1>7. ASSUME NEW u \in Thread, JoinNotFound(u)
      PROVE  Good'
  BY <1>7, StillGood DEF JoinNotFound, PrioOf
<1>8. ASSUME NEW u \in Thread, Join(u)
      PROVE  Good'
  BY <1>8, JoinGood
<1>9. CASE Exit
  BY <1>9, ExitGood
<1>10. CASE Tick
  BY <1>10, TickKeepGood, TickPreemptGood, TickExpireGood DEF Tick
<1>11. CASE UNCHANGED vars
  BY <1>11, StillGood DEF vars, PrioOf
<1> QED
  BY <1>1, <1>2, <1>3, <1>4, <1>5, <1>6, <1>7, <1>8, <1>9, <1>10, <1>11
     DEF Next, Over

\* The inductive invariant of the scheduler.
THEOREM Invariant == Spec => []IInv
<1>1. Init => IInv
  BY InitType, InitGood DEF IInv
<1>2. IInv /\ [Next]_vars => IInv'
  BY NextType, NextGood DEF IInv
<1> QED
  BY <1>1, <1>2, PTL DEF Spec

\* Every created thread is in exactly one of the seven places the code keeps
\* PCBs in, and once: no call and no tick loses a thread or duplicates one.
THEOREM EveryThreadInOnePlace == Spec => []OnePlace
<1>1. IInv => OnePlace
  BY OnePlaceIsPlaces DEF IInv, Good
<1> QED
  BY <1>1, Invariant, PTL

\* A ready thread is in the queue of its current priority, in both runqueues,
\* so that rq_melhor_prio finds the best thread.
THEOREM ReadyInQueueOfPriority == Spec => []QueuedByPriority
<1>1. IInv => QueuedByPriority
  BY QueuedIsSorted DEF IInv, Good
<1> QED
  BY <1>1, Invariant, PTL

-----------------------------------------------------------------------------
(* Priorities and quanta.                                                  *)

\* What a step may do to the PCB p of a thread, q being what it makes of it:
\* spend or renew ticks, or recalculate.
Spends(p, q) ==
    /\ q.base_priority = p.base_priority
    /\ q.priority = p.priority
    /\ q.quantum = p.quantum \/ q.quantum > 0

Recalculates(p, q) ==
    /\ q.base_priority = p.base_priority
    /\ IF p.priority <= STATIC_MAX_PRIO
       THEN q.priority = p.priority
       ELSE q.priority >= DYN_MIN_PRIO /\ q.quantum > 0

\* recalcular leaves static threads alone and gives dynamic ones a dynamic
\* priority and at least one tick, the base priority unchanged.
LEMMA RecalcularRecalculates ==
  ASSUME NEW p \in PCB
  PROVE  Recalculates(p, Recalcular(p))
<1>1. p.priority \in Nat /\ STATIC_MAX_PRIO \in Nat
  BY PCBFields, ConstantsType
<1>2. Recalcular(p).base_priority = p.base_priority
  BY RecalcularProperties
<1>3. CASE p.priority <= STATIC_MAX_PRIO
  BY <1>3, RecalcularProperties DEF Recalculates
<1>4. CASE p.priority > STATIC_MAX_PRIO
  BY <1>1, <1>2, <1>4, RecalcularProperties DEF Recalculates
<1> QED
  BY <1>1, <1>3, <1>4

\* The dispatcher, seen from the PCBs of the threads that do not run.
LEMMA TickedSpends ==
  ASSUME TypeOK, NEW t \in Thread
  PROVE  Spends(pcb[t], TickedPCB[t])
<1>1. pcb[t] \in PCB
  BY DEF TypeOK
<1>2. QUANTUM_BASE > 0
  BY ConstantsType
<1> QED
  BY <1>1, <1>2 DEF TickedPCB, Spends, PCB

\* Each step creates a thread or keeps the created ones, and changes the PCB of
\* a created thread in one of the two ways.
LEMMA PCBStep ==
  ASSUME TypeOK, Good, [Next]_vars, NEW t \in created'
  PROVE  \/ t \notin created /\ \E q \in Prio : pcb'[t] = NewPCB(q)
         \/ t \in created /\ (Spends(pcb[t], pcb'[t]) \/ Recalculates(pcb[t], pcb'[t]))
<1>1. /\ t \in Thread /\ pcb[t] \in PCB /\ pcb \in [Thread -> PCB]
      /\ Running => active_thr \in Thread
  BY NextType DEF TypeOK
<1>2. ASSUME NEW u \in Thread, NEW p \in CreatePrios, Create(u, p)
      PROVE  \/ t \notin created /\ \E q \in Prio : pcb'[t] = NewPCB(q)
             \/ t \in created /\ Spends(pcb[t], pcb'[t])
  <2> DEFINE q == Clamp(p, 0, NUM_PRIORITIES - 1)
  <2>1. q \in Prio
    BY PrioritiesAssumption, WorkloadAssumption DEF Clamp, Prio
  <2>2. /\ u \notin created /\ created' = created \cup {u}
        /\ pcb' = [pcb EXCEPT ![u] = NewPCB(q)]
    BY <1>2 DEF Create
  <2> HIDE DEF q
  <2> QED
    BY <1>1, <2>1, <2>2 DEF Spends
<1>3. ASSUME NEW n \in NiceArgs, Nice(n)
      PROVE  t \in created /\ Spends(pcb[t], pcb'[t])
  BY <1>1, <1>3 DEF Nice, Spends, PCB
<1>4. CASE Yield
  BY <1>1, <1>4, RecalcularRecalculates DEF Yield, Calling, Spends
<1>5. ASSUME NEW time \in SleepTimes, Sleep(time)
      PROVE  t \in created /\ Spends(pcb[t], pcb'[t])
  BY <1>1, <1>5 DEF Sleep, Spends, PCB
<1>6. ASSUME NEW u \in Thread, Join(u)
      PROVE  t \in created /\ Spends(pcb[t], pcb'[t])
  BY <1>1, <1>6 DEF Join, Spends, PCB
<1>7. CASE Exit
  BY <1>1, <1>7 DEF Exit, Spends
<1>8. CASE TickKeep \/ TickPreempt
  <2>1. /\ t \in created /\ Running
        /\ pcb[active_thr].quantum > 1
        /\ pcb' = [TickedPCB EXCEPT ![active_thr].quantum = @ - 1]
        /\ TickWakes
    BY <1>8 DEF TickKeep, TickPreempt, TickWakes
  <2>2. TickedPCB \in [Thread -> PCB] /\ Spends(pcb[t], TickedPCB[t])
    BY <1>1, TickedType, TickedSpends
  <2>3. CASE t # active_thr
    BY <1>1, <2>1, <2>2, <2>3
  <2>4. CASE t = active_thr
    <3>1. TickedPCB[t].quantum > 1
      <4>1. t \notin Range(sleep_thr_list)
        BY <2>1, <2>4, RunningIsNotQueued DEF Sleeping
      <4>2. TickedPCB[t] = pcb[t]
        BY <1>1, <4>1 DEF TickedPCB, Due
      <4> QED
        BY <2>1, <2>4, <4>2
    <3>2. /\ pcb'[t].base_priority = TickedPCB[t].base_priority
          /\ pcb'[t].priority = TickedPCB[t].priority
          /\ pcb'[t].quantum = TickedPCB[t].quantum - 1
      BY <1>1, <2>1, <2>2, <2>4 DEF PCB
    <3>3. TickedPCB[t].quantum \in Nat
      BY <1>1, <2>2, PCBFields
    <3> QED
      BY <2>1, <2>2, <3>1, <3>2, <3>3 DEF Spends
  <2> QED
    BY <2>3, <2>4
<1>9. CASE TickExpire
  <2> DEFINE p == [pcb[active_thr] EXCEPT !.quantum = 0]
  <2>1. /\ t \in created /\ active_thr \in Thread
        /\ pcb' = [TickedPCB EXCEPT ![active_thr] = Recalcular(p)]
    BY <1>1, <1>9 DEF TickExpire, TickWakes
  <2>2. TickedPCB \in [Thread -> PCB] /\ Spends(pcb[t], TickedPCB[t])
    BY <1>1, TickedType, TickedSpends
  <2>3. /\ p \in PCB
        /\ p.base_priority = pcb[active_thr].base_priority
        /\ p.priority = pcb[active_thr].priority
    <3>1. pcb[active_thr] \in PCB /\ MaxQuantum \in Nat
      BY <1>1, <2>1, ConstantsType
    <3> QED
      BY <3>1 DEF PCB
  <2> HIDE DEF p
  <2>4. CASE t # active_thr
    BY <1>1, <2>1, <2>2, <2>4
  <2>5. CASE t = active_thr
    <3>1. pcb'[t] = Recalcular(p) /\ Recalculates(p, Recalcular(p))
      BY <1>1, <2>1, <2>2, <2>3, <2>5, RecalcularRecalculates
    <3> QED
      BY <2>1, <2>3, <2>5, <3>1 DEF Recalculates
  <2> QED
    BY <2>4, <2>5
<1>10. CASE UNCHANGED <<created, pcb>>
  BY <1>10 DEF Spends
<1> QED
  BY <1>2, <1>3, <1>4, <1>5, <1>6, <1>7, <1>8, <1>9, <1>10
     DEF Next, Tick, Over, vars, SleepNot, JoinZombie, JoinNotFound

\* The threads that ended: nobody takes a thread out of these two lists.
Ended == zombie_thr_list \cup dead_thr_list

\* A thread that has ended stays ended: no call or tick brings one back.
LEMMA EndedStay ==
  ASSUME TypeOK, [Next]_vars
  PROVE  Ended \subseteq Ended'
<1>1. CASE Exit
  BY <1>1 DEF Exit, Ended
<1> QED
  BY <1>1 DEF Next, vars, Create, Nice, Yield, SleepNot, Sleep, JoinZombie,
     JoinNotFound, Join, Tick, TickKeep, TickPreempt, TickExpire, TickWakes,
     Over, Ended

\* sthread.h: priorities 0 to 4 are static and the others dynamic.  No sequence
\* of yields, nices, sleeps and epochs changes a static priority, or makes a
\* dynamic thread as good as a static one.
THEOREM BandsAreKept == Spec => []PriorityBands
<1>1. Init => PriorityBands
  <2> SUFFICES ASSUME Init PROVE PriorityBands
    OBVIOUS
  <2>1. created = {Main} /\ pcb[Main] = NewPCB(MAIN_PRIO)
    BY ThreadAssumption DEF Init
  <2>2. MAIN_PRIO \in Nat /\ STATIC_MAX_PRIO < MAIN_PRIO /\ MAIN_PRIO >= DYN_MIN_PRIO
    BY ScheduleAssumption
  <2> QED
    BY <2>1, <2>2 DEF PriorityBands, NewPCB
<1>2. IInv /\ PriorityBands /\ [Next]_vars => PriorityBands'
  <2> SUFFICES ASSUME IInv, PriorityBands, [Next]_vars, NEW t \in created'
               PROVE  IF pcb'[t].base_priority <= STATIC_MAX_PRIO
                      THEN pcb'[t].priority = pcb'[t].base_priority
                      ELSE pcb'[t].priority >= DYN_MIN_PRIO
    BY DEF PriorityBands
  <2>1. CASE \E q \in Prio : pcb'[t] = NewPCB(q)
    <3>1. PICK q \in Prio : pcb'[t] = NewPCB(q)
      BY <2>1
    <3>2. /\ q \in Nat /\ STATIC_MAX_PRIO \in Nat
          /\ DYN_MIN_PRIO = STATIC_MAX_PRIO + 1
      BY PrioritiesAssumption, ScheduleAssumption DEF Prio
    <3> QED
      BY <3>1, <3>2 DEF NewPCB
  <2>2. CASE t \in created /\ Spends(pcb[t], pcb'[t])
    BY <2>2 DEF PriorityBands, Spends
  <2>3. CASE t \in created /\ Recalculates(pcb[t], pcb'[t])
    <3>1. pcb[t].priority \in Nat /\ pcb[t].base_priority \in Nat
      BY <2>3, PCBFields DEF IInv, TypeOK
    <3>2. STATIC_MAX_PRIO \in Nat /\ DYN_MIN_PRIO = STATIC_MAX_PRIO + 1
      BY ScheduleAssumption
    <3> QED
      BY <2>3, <3>1, <3>2 DEF PriorityBands, Recalculates
  <2> QED
    BY <2>1, <2>2, <2>3, PCBStep DEF IInv
<1> QED
  BY <1>1, <1>2, Invariant, PTL DEF Spec

\* A dynamic thread that has not ended always has ticks left, wherever it is:
\* the dispatcher renews its quantum in the tick that uses it up.
THEOREM DynamicThreadsHaveQuantum == Spec => []DynamicHaveQuantum
<1>1. Init => DynamicHaveQuantum
  <2> SUFFICES ASSUME Init PROVE DynamicHaveQuantum
    OBVIOUS
  <2>1. created = {Main} /\ pcb[Main] = NewPCB(MAIN_PRIO)
    BY ThreadAssumption DEF Init
  <2> QED
    BY <2>1, ConstantsType DEF DynamicHaveQuantum, NewPCB
<1>2. IInv /\ DynamicHaveQuantum /\ [Next]_vars => DynamicHaveQuantum'
  <2> SUFFICES ASSUME IInv, DynamicHaveQuantum, [Next]_vars,
                      NEW t \in created', t \notin Ended',
                      pcb'[t].priority > STATIC_MAX_PRIO
               PROVE  pcb'[t].quantum > 0
    BY DEF DynamicHaveQuantum, Ended
  <2>1. CASE \E q \in Prio : pcb'[t] = NewPCB(q)
    BY <2>1, ConstantsType DEF NewPCB
  <2>2. ASSUME t \in created
        PROVE  /\ pcb[t].priority \in Nat /\ STATIC_MAX_PRIO \in Nat
               /\ pcb[t].priority > STATIC_MAX_PRIO => pcb[t].quantum > 0
    <3>1. t \notin Ended
      BY EndedStay DEF IInv
    <3> QED
      BY <2>2, <3>1, PCBFields, ConstantsType DEF IInv, TypeOK, DynamicHaveQuantum, Ended
  <2>3. CASE t \in created /\ Spends(pcb[t], pcb'[t])
    BY <2>2, <2>3 DEF Spends
  <2>4. CASE t \in created /\ Recalculates(pcb[t], pcb'[t])
    BY <2>2, <2>4 DEF Recalculates
  <2> QED
    BY <2>1, <2>3, <2>4, PCBStep DEF IInv
<1> QED
  BY <1>1, <1>2, Invariant, PTL DEF Spec

-----------------------------------------------------------------------------
(* Joins.                                                                  *)

\* While a thread waits in sthread_join, nothing changes whom it waits for.
LEMMA JoinTidStays ==
  ASSUME TypeOK, Good, [Next]_vars, NEW t \in Joining
  PROVE  \/ pcb'[t].join_tid = pcb[t].join_tid
         \/ ~Running
<1> SUFFICES ASSUME Running
             PROVE  pcb'[t].join_tid = pcb[t].join_tid
  OBVIOUS
<1>1. /\ t \in Thread /\ pcb[t] \in PCB /\ pcb \in [Thread -> PCB]
      /\ active_thr \in Thread /\ t # active_thr /\ t \in created
      /\ t \notin Sleeping
  BY HeldAreThreads, RunningIsNotQueued DEF TypeOK, Good, Places, Apart
<1>2. TickedPCB[t] = pcb[t] /\ TickedPCB \in [Thread -> PCB]
  BY <1>1, TickedType DEF TickedPCB, Due, Sleeping
<1> QED
  BY <1>1, <1>2 DEF Next, vars, Create, Nice, Yield, SleepNot, Sleep, JoinZombie,
     JoinNotFound, Join, Exit, Tick, TickKeep, TickPreempt, TickExpire, Over

\* Nobody waits in sthread_join for a thread that has ended: sthread_exit
\* releases all who wait, and sthread_join does not wait for a zombie.
THEOREM NoJoinIsLost == Spec => []NoLostJoin
<1>1. Init => NoLostJoin
  <2> SUFFICES ASSUME Init PROVE NoLostJoin
    OBVIOUS
  <2>1. Range(join_thr_list) = {}
    BY DEF Init, Range
  <2> QED
    BY <2>1 DEF NoLostJoin
<1>2. IInv /\ NoLostJoin /\ [Next]_vars => NoLostJoin'
  <2> SUFFICES ASSUME IInv, NoLostJoin, [Next]_vars, NEW t \in Joining'
               PROVE  pcb'[t].join_tid \in created' \ Ended'
    BY DEF NoLostJoin, Ended, Joining
  <2>1. TypeOK /\ Good /\ TypeOK' /\ created \subseteq created'
    <3>1. TypeOK /\ Good /\ TypeOK'
      BY NextType DEF IInv
    <3>2. CASE Exit
      BY <3>1, <3>2 DEF Exit
    <3> QED
      BY <3>1, <3>2 DEF Next, vars, Create, Nice, Yield, SleepNot, Sleep,
         JoinZombie, JoinNotFound, Join, Tick, TickKeep, TickPreempt,
         TickExpire, TickWakes, Over
  <2>2. ASSUME t \in Joining, Running, Ended' \subseteq Ended
        PROVE  pcb'[t].join_tid \in created' \ Ended'
    BY <2>1, <2>2, JoinTidStays DEF NoLostJoin, Ended, Joining
  <2>3. CASE ~Running
    BY <2>1, <2>3 DEF Next, vars, Create, Nice, Yield, SleepNot, Sleep, JoinZombie,
       JoinNotFound, Join, Exit, Tick, TickKeep, TickPreempt, TickExpire,
       TickWakes, Over, Calling, NoLostJoin, Ended, Joining
  <2>4. CASE Exit
    <3>1. Running /\ created' = created /\ pcb' = pcb
          /\ join_thr_list' = KeepOnly(join_thr_list, Thread \ Joiners)
          /\ Ended' = Ended \cup {active_thr}
      BY <2>4 DEF Exit, Calling, Ended
    <3>2. join_thr_list \in Seq(Thread)
      BY <2>1 DEF TypeOK
    <3>3. Joining' = Joining \cap (Thread \ Joiners)
      BY <3>1, <3>2, KeepOnlyRange DEF Joining
    <3>4. pcb[t].join_tid # active_thr /\ t \in Joining
      BY <3>3 DEF Joiners
    <3> QED
      BY <3>1, <3>4 DEF NoLostJoin, Ended, Joining
  <2>5. ASSUME NEW u \in Thread, Join(u)
        PROVE  pcb'[t].join_tid \in created' \ Ended'
    <3>1. /\ Running /\ u \in created /\ u \in Alive /\ created' = created
          /\ pcb' = [pcb EXCEPT ![active_thr].join_tid = u]
          /\ join_thr_list' = Append(join_thr_list, active_thr)
          /\ Ended' = Ended
      BY <2>5 DEF Join, Calling, Ended
    <3>2. u \notin Ended
      BY <2>1, <3>1, RunningIsNotQueued DEF Alive, Ended, Good, Places, Apart,
         CPU, Active, Expired, Sleeping, Joining
    <3>3. join_thr_list \in Seq(Thread) /\ active_thr \in Thread
      BY <2>1, <3>1 DEF TypeOK
    <3>4. Joining' = Joining \cup {active_thr}
      BY <3>1, <3>3, AppendRange DEF Joining
    <3>5. CASE t = active_thr
      BY <2>1, <3>1, <3>2, <3>3, <3>5 DEF TypeOK, PCB
    <3>6. CASE t # active_thr
      BY <2>2, <3>1, <3>4, <3>6
    <3> QED
      BY <3>5, <3>6
  <2>6. CASE Running /\ ~Exit /\ \A u \in Thread : ~Join(u)
    <3>1. join_thr_list' = join_thr_list \/ Joining' = Joining
      BY <2>6 DEF Next, vars, Create, Nice, Yield, SleepNot, Sleep, JoinZombie,
         JoinNotFound, Tick, TickKeep, TickPreempt, TickExpire, TickWakes, Over
    <3>2. Ended' \subseteq Ended
      BY <2>6 DEF Next, vars, Create, Nice, Yield, SleepNot, Sleep, JoinZombie,
         JoinNotFound, Tick, TickKeep, TickPreempt, TickExpire, TickWakes, Over,
         Ended
    <3> QED
      BY <2>2, <2>6, <3>1, <3>2 DEF Joining
  <2> QED
    BY <2>3, <2>4, <2>5, <2>6
<1> QED
  BY <1>1, <1>2, Invariant, PTL DEF Spec

-----------------------------------------------------------------------------
(* Steps: sleepers wake on their tick, epochs end only when they are over, *)
(* the best ready thread of the epoch runs, and every step is one of       *)
(* ThreadLife or none.                                                     *)

\* Steps that switch no thread and wake none.
Quiet ==
    /\ UNCHANGED <<expired_rq, active_thr>>
    /\ Sleeping' = Sleeping

\* Each step is quiet, a tick without a switch, the end, or a switch.
LEMMA StepKinds ==
  ASSUME IInv, [Next]_vars
  PROVE  Quiet \/ TickKeep \/ Ends \/ Switches
<1> USE DEF IInv
<1>1. CASE Yield \/ TickPreempt \/ TickExpire
  BY <1>1, YieldGood, TickPreemptGood, TickExpireGood
<1>2. ASSUME NEW time \in SleepTimes, Sleep(time)
      PROVE  Switches
  BY <1>2, SleepGood
<1>3. ASSUME NEW u \in Thread, Join(u)
      PROVE  Switches
  BY <1>3, JoinGood
<1>4. CASE Exit
  BY <1>4, ExitGood
<1> QED
  BY <1>1, <1>2, <1>3, <1>4 DEF Next, vars, Create, Nice, SleepNot, JoinZombie,
     JoinNotFound, Tick, Over, Quiet, Sleeping

\* A run queue without threads is empty.
LEMMA NoThreads ==
  ASSUME NEW rq \in Runqueues, rq_threads(rq) = {}
  PROVE  rq_vazia(rq)
<1> SUFFICES ASSUME NEW p \in Prio
             PROVE  rq[p] = << >>
  BY MelhorPrio
<1>1. rq[p] \in Seq(Thread) /\ Range(rq[p]) = {}
  BY DEF Runqueues, rq_threads
<1> QED
  BY <1>1, TailRange

-----------------------------------------------------------------------------
(* Epochs.                                                                 *)

\* trocar_runqueues (sthread_user.c:108-112) and the places that call it: expired
\* threads become active again all together, and only when no thread is active.
THEOREM EpochsInOrder == Spec => EpochDiscipline
<1>1. ASSUME IInv, [Next]_vars, NEW t \in Expired, t \notin Expired'
      PROVE  rq_vazia(active_rq) /\ Expired \cap Expired' = {}
  <2>1. CASE Quiet \/ TickKeep
    BY <1>1, <2>1 DEF Quiet, TickKeep, Expired
  <2>2. CASE Ends
    BY <1>1, <2>2 DEF Ends
  <2>3. ASSUME NEW a, NEW e, SwitchFrom(a, e)
        PROVE  rq_vazia(active_rq) /\ Expired \cap Expired' = {}
    <3>1. /\ a \in Runqueues /\ Active \subseteq rq_threads(a)
          /\ Expired \subseteq rq_threads(e)
          /\ expired_rq' = IF rq_vazia(a) THEN a ELSE e
      BY <2>3 DEF SwitchFrom, RunNext, EpochOver
    <3>2. rq_vazia(a)
      BY <1>1, <3>1 DEF Expired
    <3>3. Active = {} /\ Expired' = {}
      BY <3>1, <3>2, EmptyThreads DEF Expired
    <3>4. rq_vazia(active_rq)
      BY <1>1, <3>3, HeldAreThreads, NoThreads DEF IInv, Active
    <3> QED
      BY <3>3, <3>4
  <2> QED
    BY <1>1, <2>1, <2>2, <2>3, StepKinds DEF Switches
<1>2. IInv /\ [Next]_vars =>
        [(\E t \in rq_threads(expired_rq) : t \notin rq_threads(expired_rq'))
            => /\ rq_vazia(active_rq)
               /\ rq_threads(expired_rq) \cap rq_threads(expired_rq') = {}]_vars
  BY <1>1 DEF Expired
<1> QED
  BY <1>2, Invariant, PTL DEF Spec, EpochDiscipline

-----------------------------------------------------------------------------
(* The best thread.                                                        *)

\* No queued thread is better than the best priority.
LEMMA BestIsLeast ==
  ASSUME NEW rq \in Runqueues, NEW prio, Sorted(rq, prio), NEW t \in rq_threads(rq)
  PROVE  /\ rq_melhor_prio(rq) \in Prio /\ prio[t] \in Prio
         /\ prio[t] >= rq_melhor_prio(rq)
<1>1. PICK p \in Prio : t \in Range(rq[p])
  BY DEF rq_threads
<1>2. rq[p] # << >>
  BY <1>1 DEF Range
<1>3. /\ rq_melhor_prio(rq) \in Prio
      /\ \A q \in Prio : q < rq_melhor_prio(rq) => rq[q] = << >>
  BY <1>2, MelhorPrio
<1>4. prio[t] = p
  BY <1>1 DEF Sorted
<1>5. ~(p < rq_melhor_prio(rq))
  BY <1>2, <1>3
<1> QED
  BY <1>3, <1>4, <1>5, PrioritiesAssumption DEF Prio

\* rq_retirar takes a thread that no other one in the queue is better than.
LEMMA SwitchTakesBest ==
  ASSUME NEW a, NEW e, SwitchFrom(a, e), Running'
  PROVE  \A u \in Active' : pcb'[u].priority >= pcb'[active_thr'].priority
<1> DEFINE act == IF EpochOver(a) THEN e ELSE a
<1>1. act \in Runqueues /\ Sorted(act, PrioOf')
  BY DEF SwitchFrom
<1>2. /\ ~rq_vazia(act)
      /\ active_rq' = rq_resto(act) /\ active_thr' = rq_primeira(act)
  BY DEF SwitchFrom, RunNext, Running
<1> HIDE DEF act
<1>3. /\ active_thr' \in Thread
      /\ active_thr' \in Range(act[rq_melhor_prio(act)])
      /\ rq_melhor_prio(act) \in Prio
      /\ Active' \subseteq rq_threads(act)
  <2>1. act \in [Prio -> Seq(Thread)]
    BY <1>1 DEF Runqueues
  <2>2. /\ rq_primeira(act) \in Thread
        /\ rq_primeira(act) \in Range(act[rq_melhor_prio(act)])
        /\ rq_threads(act) = {rq_primeira(act)} \cup rq_threads(rq_resto(act))
    BY <1>2, <2>1, RetirarRange
  <2>3. rq_melhor_prio(act) \in Prio
    BY <1>2, MelhorPrio
  <2> QED
    BY <1>2, <2>2, <2>3 DEF Active
<1>4. PrioOf'[active_thr'] = rq_melhor_prio(act)
  BY <1>1, <1>3 DEF Sorted
<1>5. \A u \in rq_threads(act) : u \in Thread
  BY <1>1, RangeOfSeq DEF Runqueues, rq_threads
<1>6. \A u \in Active' : PrioOf'[u] >= rq_melhor_prio(act)
  BY <1>1, <1>3, BestIsLeast
<1> QED
  BY <1>3, <1>4, <1>5, <1>6 DEF PrioOf

\* A tick leaves the running thread where it is only when no better one is ready.
LEMMA KeepsBest ==
  ASSUME IInv, TickKeep
  PROVE  \A u \in Active' : pcb'[u].priority >= pcb'[active_thr'].priority
<1>1. /\ TickWakes /\ Running /\ ~BetterReady
      /\ active_rq' = WokenRq /\ active_thr' = active_thr
      /\ pcb' = [TickedPCB EXCEPT ![active_thr].quantum = @ - 1]
  BY DEF TickKeep, TickWakes
<1>2. active_thr \in Thread
  BY <1>1 DEF IInv, TypeOK
<1>3. \A t \in Thread : pcb'[t].priority = pcb[t].priority
  <2>1. TickedPCB \in [Thread -> PCB]
    BY <1>1, TickedType DEF IInv
  <2>2. \A t \in Thread : pcb'[t].priority = TickedPCB[t].priority
    BY <1>1, <2>1 DEF PCB
  <2> QED
    BY <1>1, <2>2, Waking DEF IInv
<1>4. WokenRq \in Runqueues /\ Sorted(WokenRq, PrioOf)
  BY <1>1, Waking DEF IInv
<1>5. PrioOf \in [Thread -> Prio]
  BY HeldAreThreads DEF IInv
<1> SUFFICES ASSUME NEW u \in rq_threads(WokenRq)
             PROVE  pcb'[u].priority >= pcb'[active_thr].priority
  BY <1>1 DEF Active
<1>6. u \in Thread
  BY <1>4, RangeOfSeq DEF Runqueues, rq_threads
<1>7. /\ PrioOf[u] >= rq_melhor_prio(WokenRq) /\ PrioOf[u] \in Prio
      /\ rq_melhor_prio(WokenRq) \in Prio
  BY <1>4, BestIsLeast
<1>8. ~rq_vazia(WokenRq)
  BY EmptyThreads
<1>9. ~(rq_melhor_prio(WokenRq) < PrioOf[active_thr]) /\ PrioOf[active_thr] \in Prio
  BY <1>1, <1>2, <1>5, <1>8 DEF BetterReady, PrioOf
<1>10. PrioOf[u] >= PrioOf[active_thr]
  BY <1>7, <1>9, PrioritiesAssumption DEF Prio
<1> QED
  BY <1>2, <1>3, <1>6, <1>10 DEF PrioOf

\* The dispatcher (sthread_user.c:275-322) and every switch: no thread that is ready
\* in this epoch is better than the running one.
THEOREM BestRuns == Spec => BestThreadRuns
<1>1. ASSUME IInv, [Next]_vars, Tick \/ active_thr' # active_thr, Running'
      PROVE  \A u \in Active' : pcb'[u].priority >= pcb'[active_thr'].priority
  <2>1. CASE TickKeep
    BY <1>1, <2>1, KeepsBest
  <2>2. CASE Switches
    BY <1>1, <2>2, SwitchTakesBest DEF Switches
  <2>3. CASE Tick
    BY <1>1, <2>1, <2>2, <2>3, TickPreemptGood, TickExpireGood DEF Tick, IInv
  <2> QED
    BY <1>1, <2>1, <2>2, <2>3, StepKinds DEF Quiet, Ends, Running
<1>2. IInv /\ [Next]_vars =>
        [(Tick \/ active_thr' # active_thr) /\ Running'
            => \A u \in rq_threads(active_rq') :
                  pcb'[u].priority >= pcb'[active_thr'].priority]_vars
  BY <1>1 DEF Active
<1> QED
  BY <1>2, Invariant, PTL DEF Spec, BestThreadRuns

-----------------------------------------------------------------------------
(* Sleepers.                                                               *)

\* A sleeper has time left.
SleepersTimed == \A t \in Sleeping : pcb[t].wake_in \in Nat \ {0}

\* A step leaves the PCBs of sleepers alone, but for a tick.
LEMMA SleepersStay ==
  ASSUME IInv, [Next]_vars, ~Tick
  PROVE  /\ Sleeping \subseteq Sleeping'
         /\ \A t \in Sleeping : pcb'[t] = pcb[t]
         /\ \/ Sleeping' = Sleeping
            \/ /\ Sleeping' = Sleeping \cup {active_thr}
               /\ pcb'[active_thr].wake_in \in Nat \ {0}
<1>1. Sleeping \subseteq Thread /\ Sleeping \subseteq created
  BY HeldAreThreads DEF IInv, Good, Places
<1>2. Running => active_thr \notin Sleeping
  BY RunningIsNotQueued DEF IInv
<1>3. pcb \in [Thread -> PCB] /\ sleep_thr_list \in Seq(Thread)
      /\ (Running => active_thr \in Thread)
  BY DEF IInv, TypeOK
<1>4. ASSUME NEW t \in Thread, NEW p \in CreatePrios, Create(t, p)
      PROVE  Sleeping' = Sleeping /\ \A u \in Sleeping : pcb'[u] = pcb[u]
  BY <1>1, <1>3, <1>4 DEF Create, Sleeping
<1>5. ASSUME NEW n \in NiceArgs, Nice(n)
      PROVE  Sleeping' = Sleeping /\ \A u \in Sleeping : pcb'[u] = pcb[u]
  BY <1>1, <1>2, <1>3, <1>5 DEF Nice, Calling, Sleeping
<1>6. CASE Yield
  BY <1>1, <1>2, <1>3, <1>6 DEF Yield, Calling, Sleeping
<1>7. ASSUME NEW time \in SleepTimes, Sleep(time)
      PROVE  /\ Sleeping' = Sleeping \cup {active_thr}
             /\ pcb'[active_thr].wake_in \in Nat \ {0}
             /\ \A u \in Sleeping : pcb'[u] = pcb[u]
  <2>1. /\ Running /\ NumTicks(time) # 0
        /\ pcb' = [pcb EXCEPT ![active_thr].wake_in = NumTicks(time)]
        /\ sleep_thr_list' = Append(sleep_thr_list, active_thr)
    BY <1>7 DEF Sleep, Calling
  <2>2. NumTicks(time) \in Nat
    BY WorkloadAssumption, NumTicksType
  <2>3. Sleeping' = Sleeping \cup {active_thr}
    BY <1>3, <2>1, AppendRange DEF Sleeping
  <2> QED
    BY <1>1, <1>2, <1>3, <2>1, <2>2, <2>3 DEF PCB
<1>8. ASSUME NEW u \in Thread, Join(u)
      PROVE  Sleeping' = Sleeping /\ \A t \in Sleeping : pcb'[t] = pcb[t]
  BY <1>1, <1>2, <1>3, <1>8 DEF Join, Calling, Sleeping
<1> QED
  BY <1>4, <1>5, <1>6, <1>7, <1>8 DEF Next, vars, SleepNot, JoinZombie, JoinNotFound,
     Exit, Over, Sleeping

\* A tick counts one down for the sleepers it does not wake.
LEMMA TickCounts ==
  ASSUME IInv, Tick
  PROVE  /\ Sleeping' = Sleeping \ Due
         /\ \A t \in Sleeping' : pcb'[t].wake_in = pcb[t].wake_in - 1
<1>1. TickWakes /\ Running
  BY DEF Tick, TickKeep, TickPreempt, TickExpire, TickWakes
<1>2. Sleeping' = Sleeping \ Due /\ Sleeping \subseteq Thread
  BY <1>1, Waking, HeldAreThreads DEF IInv
<1>3. active_thr \notin Sleeping
  BY <1>1, RunningIsNotQueued DEF IInv
<1>4. \A t \in Thread : t # active_thr => pcb'[t] = TickedPCB[t]
  BY DEF Tick, TickKeep, TickPreempt, TickExpire, TickedPCB
<1>5. ASSUME NEW t \in Sleeping \ Due
      PROVE  TickedPCB[t].wake_in = pcb[t].wake_in - 1
  <2>1. t \in Thread /\ pcb[t] \in PCB /\ t \in Range(sleep_thr_list)
    BY <1>2 DEF IInv, TypeOK, Sleeping
  <2>2. TickedPCB[t] = [pcb[t] EXCEPT !.wake_in = @ - 1]
    BY <1>5, <2>1 DEF TickedPCB
  <2> QED
    BY <2>1, <2>2 DEF PCB
<1> QED
  BY <1>2, <1>3, <1>4, <1>5

LEMMA SleepersTimedNext ==
  ASSUME IInv, SleepersTimed, [Next]_vars
  PROVE  SleepersTimed'
<1>1. CASE Tick
  <2> SUFFICES ASSUME NEW t \in Sleeping'
               PROVE  pcb'[t].wake_in \in Nat \ {0}
    BY DEF SleepersTimed
  <2>1. /\ t \in Sleeping /\ t \notin Due
        /\ pcb'[t].wake_in = pcb[t].wake_in - 1
    BY <1>1, TickCounts
  <2>2. pcb[t].wake_in \in Nat \ {0} /\ ~(pcb[t].wake_in <= 1)
    BY <2>1 DEF SleepersTimed, Due, Sleeping
  <2> QED
    BY <2>1, <2>2
<1>2. CASE ~Tick
  BY <1>2, SleepersStay DEF SleepersTimed
<1> QED
  BY <1>1, <1>2

\* The dispatcher (sthread_user.c:275-296) wakes a sleeper in the tick its time has
\* come, and no call takes one out of the list.
THEOREM WokenOnTime == Spec => WakesOnTime
<1>1. Init => SleepersTimed
  BY DEF Init, SleepersTimed, Sleeping, Range
<1>2. IInv /\ SleepersTimed /\ [Next]_vars => SleepersTimed'
  BY SleepersTimedNext
<1>3. Spec => []SleepersTimed
  BY <1>1, <1>2, Invariant, PTL DEF Spec
<1>4. ASSUME IInv, SleepersTimed, [Next]_vars, NEW t \in Sleeping
      PROVE  t \notin Sleeping' <=> (Tick /\ pcb[t].wake_in = 1)
  <2>1. pcb[t].wake_in \in Nat \ {0}
    BY <1>4 DEF SleepersTimed
  <2>2. CASE Tick
    <3>1. t \notin Sleeping' <=> t \in Due
      BY <1>4, <2>2, TickCounts
    <3> QED
      BY <2>1, <2>2, <3>1 DEF Due, Sleeping
  <2>3. CASE ~Tick
    BY <1>4, <2>3, SleepersStay
  <2> QED
    BY <2>2, <2>3
<1>5. IInv /\ SleepersTimed /\ [Next]_vars =>
        [\A t \in Range(sleep_thr_list) :
            t \notin Range(sleep_thr_list') <=> (Tick /\ pcb[t].wake_in = 1)]_vars
  BY <1>4 DEF Sleeping
<1> QED
  BY <1>3, <1>5, Invariant, PTL DEF Spec, WakesOnTime

-----------------------------------------------------------------------------
(* The scheduler implements ThreadLife: every call and every tick, seen    *)
(* without its queues, is a step of the abstract scheduler or none.        *)

\* The runnable threads are those on the CPU or in a run queue.
LEMMA RunnableAreReady ==
  IInv => Life!Runnable = CPU \cup Active \cup Expired
<1> SUFFICES ASSUME IInv
             PROVE  Life!Runnable = CPU \cup Active \cup Expired
  OBVIOUS
<1>1. CPU \cup Active \cup Expired \subseteq Thread
  BY HeldAreThreads DEF CPU, IInv, TypeOK
<1>2. \A t \in Thread : lifePhase[t] = "runnable" <=> t \in CPU \cup Active \cup Expired
  BY DEF IInv, Good, Places, Apart, lifePhase, Sleeping, Joining
<1> QED
  BY <1>1, <1>2 DEF Life!Runnable

LEMMA RunnableAreReadyNext ==
  ASSUME IInv'
  PROVE  Life!Runnable' = CPU' \cup Active' \cup Expired'
<1>1. IInv' => (Life!Runnable = CPU \cup Active \cup Expired)'
  BY RunnableAreReady, PTL
<1> QED
  BY <1>1

\* A running process has a thread on the CPU.
LEMMA CpuRuns ==
  ASSUME IInv, Running
  PROVE  /\ lifeCpu = active_thr /\ lifeCpu # NULL /\ active_thr \in Thread
         /\ active_thr \in created /\ active_thr \notin Ended
         /\ active_thr \notin Sleeping /\ active_thr \notin Joining
BY ThreadAssumption, RunningIsNotQueued DEF IInv, Good, Places, TypeOK, lifeCpu, Ended

\* A switch gives the CPU to a thread that can run, or ends the process when there
\* is none.
LEMMA SwitchDispatches ==
  ASSUME IInv', Switches \/ Ends
  PROVE  Life!Dispatch
<1>1. Life!Runnable' = CPU' \cup Active' \cup Expired'
  BY RunnableAreReadyNext
<1>2. CASE Ends
  <2>1. CPU' = {} /\ lifeCpu' = NULL
    BY <1>2 DEF Ends, CPU, Running, lifeCpu
  <2> QED
    BY <1>1, <1>2, <2>1 DEF Ends, Life!Dispatch
<1>3. ASSUME NEW a, NEW e, SwitchFrom(a, e)
      PROVE  Life!Dispatch
  <2> DEFINE act == IF EpochOver(a) THEN e ELSE a
             exp == IF EpochOver(a) THEN a ELSE e
  <2>1. CASE rq_vazia(act)
    <3>1. /\ active_rq' = act /\ expired_rq' = exp /\ status' = "crashed"
      BY <1>3, <2>1 DEF SwitchFrom, RunNext
    <3>2. rq_vazia(exp)
      BY <2>1 DEF EpochOver
    <3>3. Active' = {} /\ Expired' = {} /\ CPU' = {} /\ lifeCpu' = NULL
      BY <2>1, <3>1, <3>2, EmptyThreads DEF Active, Expired, CPU, Running, lifeCpu
    <3> QED
      BY <1>1, <3>3 DEF Life!Dispatch
  <2>2. CASE ~rq_vazia(act)
    <3>1. Running'
      BY <1>3, <2>2 DEF SwitchFrom, RunNext, Running
    <3>2. lifeCpu' = active_thr' /\ CPU' = {active_thr'}
      BY <3>1 DEF lifeCpu, CPU
    <3> QED
      BY <1>1, <3>2 DEF Life!Dispatch
  <2> QED
    BY <2>1, <2>2
<1> QED
  BY <1>2, <1>3 DEF Switches

\* A thread that stays where it is waits for the thread it waited for.
LEMMA TargetsStay ==
  ASSUME IInv, [Next]_vars, Joining' = Joining
  PROVE  lifeTarget' = lifeTarget
<1>1. \A t \in Joining : pcb'[t].join_tid = pcb[t].join_tid
  <2>1. CASE Running
    BY <2>1, JoinTidStays DEF IInv
  <2>2. CASE ~Running
    BY <2>2 DEF Next, vars, Over, Create, Nice, Yield, SleepNot, Sleep, JoinZombie,
       JoinNotFound, Join, Exit, Tick, TickKeep, TickPreempt, TickExpire, TickWakes,
       Calling
  <2> QED
    BY <2>1, <2>2
<1> QED
  BY <1>1 DEF lifeTarget, Joining

\* A step that moves no thread from one phase to another.
LEMMA PhasesStay ==
  ASSUME UNCHANGED <<created, Ended, Sleeping, Joining>>
  PROVE  lifePhase' = lifePhase
BY DEF lifePhase, Ended, Sleeping, Joining

-----------------------------------------------------------------------------
(* One lemma for each kind of step.                                        *)

LEMMA CreateSpawns ==
  ASSUME IInv, NEW t \in Thread, NEW p \in CreatePrios, Create(t, p)
  PROVE  Life!Spawn(t)
<1>1. /\ Running /\ t \notin created /\ created' = created \cup {t}
      /\ UNCHANGED <<Ended, Sleeping, Joining, active_thr, status>>
  BY DEF Create, Calling, Ended, Sleeping, Joining
<1>2. t \notin Ended /\ t \notin Sleeping /\ t \notin Joining
  BY <1>1 DEF IInv, Good, Places, Ended
<1>3. lifePhase[t] = "new" /\ lifePhase' = [lifePhase EXCEPT ![t] = "runnable"]
  BY <1>1, <1>2 DEF lifePhase, Ended, Sleeping, Joining
<1>4. lifeTarget' = lifeTarget
  <2>1. Next
    BY DEF Next
  <2> QED
    BY <1>1, <2>1, TargetsStay
<1>5. lifeCpu # NULL /\ lifeCpu' = lifeCpu
  BY <1>1, CpuRuns DEF lifeCpu, Running
<1> QED
  BY <1>3, <1>4, <1>5 DEF Life!Spawn

LEMMA SleepSuspends ==
  ASSUME IInv, IInv', NEW time \in SleepTimes, Sleep(time)
  PROVE  Life!Suspend
<1>1. /\ Running /\ sleep_thr_list' = Append(sleep_thr_list, active_thr)
      /\ UNCHANGED <<created, Ended, Joining>>
  BY DEF Sleep, Calling, Ended, Joining
<1>2. Sleeping' = Sleeping \cup {active_thr}
  BY <1>1, CpuRuns, AppendRange DEF Sleeping, IInv, TypeOK
<1>3. lifePhase' = [lifePhase EXCEPT ![lifeCpu] = "asleep"]
  BY <1>1, <1>2, CpuRuns DEF lifePhase, Ended, Sleeping, Joining
<1>4. lifeTarget' = lifeTarget
  <2>1. Next
    BY DEF Next
  <2> QED
    BY <1>1, <2>1, TargetsStay
<1>5. Life!Dispatch
  BY SleepGood, SwitchDispatches DEF IInv
<1> QED
  BY <1>1, <1>3, <1>4, <1>5, CpuRuns DEF Life!Suspend

LEMMA JoinWaits ==
  ASSUME IInv, IInv', NEW u \in Thread, Join(u)
  PROVE  Life!WaitFor(u)
<1>1. /\ Running /\ join_thr_list' = Append(join_thr_list, active_thr)
      /\ pcb' = [pcb EXCEPT ![active_thr].join_tid = u]
      /\ u \in created /\ u \notin zombie_thr_list /\ u \in Alive
      /\ UNCHANGED <<created, Ended, Sleeping>>
  BY DEF Join, Calling, Ended, Sleeping
<1>2. Joining' = Joining \cup {active_thr}
  BY <1>1, CpuRuns, AppendRange DEF Joining, IInv, TypeOK
<1>3. u \notin Ended
  BY <1>1, CpuRuns DEF Alive, Ended, IInv, Good, Places, Apart, Active, Expired,
     Sleeping, Joining
<1>4. lifePhase[u] \notin {"new", "ended"}
  BY <1>1, <1>3 DEF lifePhase, Ended
<1>5. lifePhase' = [lifePhase EXCEPT ![lifeCpu] = "waiting"]
  BY <1>1, <1>2, CpuRuns DEF lifePhase, Ended, Sleeping, Joining
<1>6. lifeTarget' = [lifeTarget EXCEPT ![lifeCpu] = u]
  <2>1. /\ pcb'[active_thr].join_tid = u
        /\ \A t \in Thread : t # active_thr => pcb'[t] = pcb[t]
    BY <1>1, CpuRuns DEF IInv, TypeOK, PCB
  <2>2. \A t \in Thread :
          lifeTarget'[t] = IF t = active_thr THEN u ELSE lifeTarget[t]
    BY <1>2, <2>1, CpuRuns DEF lifeTarget, Joining
  <2>3. lifeTarget' = [t \in Thread |-> IF t = active_thr THEN u ELSE lifeTarget[t]]
    BY <2>2 DEF lifeTarget
  <2>4. lifeTarget = [t \in Thread |-> lifeTarget[t]]
    BY DEF lifeTarget
  <2>5. lifeCpu = active_thr /\ lifeCpu \in Thread
    BY <1>1, CpuRuns
  <2> QED
    BY <2>3, <2>4, <2>5
<1>7. Life!Dispatch
  BY JoinGood, SwitchDispatches DEF IInv
<1> QED
  BY <1>1, <1>4, <1>5, <1>6, <1>7, CpuRuns DEF Life!WaitFor

LEMMA ExitEnds ==
  ASSUME IInv, IInv', Exit
  PROVE  Life!End
<1>1. /\ Running
      /\ join_thr_list' = KeepOnly(join_thr_list, Thread \ Joiners)
      /\ Ended' = Ended \cup {active_thr}
      /\ UNCHANGED <<created, pcb, Sleeping>>
  BY DEF Exit, Calling, Ended, Sleeping
<1>2. Joining' = Joining \ Joiners /\ Joining \subseteq created
      /\ Joining \cap Ended = {} /\ Joining \cap Sleeping = {}
  <2>1. join_thr_list \in Seq(Thread) /\ Joining \subseteq Thread
    BY HeldAreThreads DEF IInv, TypeOK
  <2>2. Joining' = Joining \cap (Thread \ Joiners)
    BY <1>1, <2>1, KeepOnlyRange DEF Joining
  <2> QED
    BY <2>1, <2>2 DEF IInv, Good, Places, Apart, Ended
<1>3. \A t \in Joining : t \in Joiners <=> lifeTarget[t] = lifeCpu
  BY <1>1, CpuRuns, HeldAreThreads DEF Joiners, lifeTarget, Joining, IInv
<1>4. \A t \in Thread : lifePhase[t] = "waiting" <=> t \in Joining
  BY <1>2 DEF lifePhase, Ended, Sleeping, Joining
<1>5. lifePhase' = [t \in Thread |->
                       IF t = lifeCpu THEN "ended"
                       ELSE IF lifePhase[t] = "waiting" /\ lifeTarget[t] = lifeCpu
                       THEN "runnable"
                       ELSE lifePhase[t]]
  <2>1. \A t \in Thread :
          lifePhase'[t] = IF t = lifeCpu THEN "ended"
                          ELSE IF lifePhase[t] = "waiting" /\ lifeTarget[t] = lifeCpu
                          THEN "runnable"
                          ELSE lifePhase[t]
    <3> SUFFICES ASSUME NEW t \in Thread
                 PROVE  lifePhase'[t] = IF t = lifeCpu THEN "ended"
                          ELSE IF lifePhase[t] = "waiting" /\ lifeTarget[t] = lifeCpu
                          THEN "runnable"
                          ELSE lifePhase[t]
      OBVIOUS
    <3>1. CASE t = active_thr
      BY <1>1, <3>1, CpuRuns DEF lifePhase, Ended
    <3>2. CASE t # active_thr /\ t \in Joining
      BY <1>1, <1>2, <1>3, <1>4, <3>2, CpuRuns DEF lifePhase, Ended, Sleeping, Joining
    <3>3. CASE t # active_thr /\ t \notin Joining
      BY <1>1, <1>2, <1>4, <3>3, CpuRuns DEF lifePhase, Ended, Sleeping, Joining
    <3> QED
      BY <3>1, <3>2, <3>3
  <2> QED
    BY <2>1 DEF lifePhase
<1>6. lifeTarget' = [t \in Thread |-> IF lifeTarget[t] = lifeCpu THEN NULL ELSE lifeTarget[t]]
  BY <1>1, <1>2, <1>3, CpuRuns DEF lifeTarget, Joining
<1>7. Life!Dispatch
  BY ExitGood, SwitchDispatches DEF IInv
<1> QED
  BY <1>1, <1>5, <1>6, <1>7, CpuRuns DEF Life!End

\* A tick, or a yield, that leaves the threads in W runnable.
LEMMA Rescheduled ==
  ASSUME IInv, Running, [Next]_vars, NEW W \in SUBSET Sleeping, Life!Dispatch,
         UNCHANGED <<created, Ended, Joining>>, Sleeping' = Sleeping \ W
  PROVE  /\ W \in SUBSET {t \in Thread : lifePhase[t] = "asleep"}
         /\ Life!Reschedule(W)
<1>1. Sleeping \subseteq Thread /\ Sleeping \subseteq created
      /\ Sleeping \cap Ended = {} /\ Sleeping \cap Joining = {}
  BY HeldAreThreads DEF IInv, Good, Places, Apart, Ended
<1>2. \A t \in Sleeping : lifePhase[t] = "asleep"
  BY <1>1 DEF lifePhase, Ended, Sleeping
<1>3. lifePhase' = [t \in Thread |-> IF t \in W THEN "runnable" ELSE lifePhase[t]]
  BY <1>1 DEF lifePhase, Ended, Sleeping, Joining
<1> QED
  BY <1>1, <1>2, <1>3, CpuRuns, TargetsStay DEF Life!Reschedule

LEMMA YieldReschedules ==
  ASSUME IInv, IInv', Yield
  PROVE  Life!LifeNext
<1>1. Next /\ Running /\ UNCHANGED <<created, Ended, Sleeping, Joining>>
  BY DEF Next, Yield, Calling, Ended, Sleeping, Joining
<1>2. Life!Dispatch
  BY YieldGood, SwitchDispatches DEF IInv
<1>3. /\ {} \in SUBSET {t \in Thread : lifePhase[t] = "asleep"}
      /\ Life!Reschedule({})
  BY <1>1, <1>2, Rescheduled
<1> QED
  BY <1>3 DEF Life!LifeNext

LEMMA TickReschedules ==
  ASSUME IInv, IInv', Tick
  PROVE  Life!LifeNext
<1>1. /\ Next /\ Running /\ UNCHANGED <<created, Ended, Joining>>
      /\ TickWakes
  BY DEF Next, Tick, TickKeep, TickPreempt, TickExpire, TickWakes, Ended, Joining
<1>2. Due \subseteq Sleeping /\ Sleeping' = Sleeping \ Due
  BY <1>1, Waking DEF IInv
<1>3. Life!Dispatch
  <2>1. CASE TickKeep
    <3>1. Life!Runnable' = CPU' \cup Active' \cup Expired'
      BY RunnableAreReadyNext
    <3>2. lifeCpu' = active_thr' /\ CPU' = {active_thr'}
      BY <1>1, <2>1 DEF TickKeep, lifeCpu, CPU, Running
    <3> QED
      BY <3>1, <3>2 DEF Life!Dispatch
  <2>2. CASE TickPreempt \/ TickExpire
    BY <2>2, TickPreemptGood, TickExpireGood, SwitchDispatches DEF IInv
  <2> QED
    BY <2>1, <2>2 DEF Tick
<1>4. /\ Due \in SUBSET {t \in Thread : lifePhase[t] = "asleep"}
      /\ Life!Reschedule(Due)
  BY <1>1, <1>2, <1>3, Rescheduled
<1> QED
  BY <1>4 DEF Life!LifeNext

-----------------------------------------------------------------------------
(* The theorem.                                                            *)

\* The calls and ticks of sthread_user.c (188-476) are the steps a program can rely
\* on: no other thread suspends one, a join ends with its target, a sleep with a
\* tick, and the process stops only when no thread can run.
THEOREM LifeImplemented == Spec => ImplementsThreadLife
<1>1. Init => Life!LifeInit
  <2> SUFFICES ASSUME Init PROVE Life!LifeInit
    OBVIOUS
  <2>1. Range(<< >>) = {}
    BY DEF Range
  <2> QED
    BY <2>1, ThreadAssumption DEF Init, Life!LifeInit, lifePhase, lifeTarget, lifeCpu, Running
<1>2. ASSUME IInv, IInv', [Next]_vars
      PROVE  [Life!LifeNext]_Life!lifeVars
  <2>1. ASSUME NEW t \in Thread, NEW p \in CreatePrios, Create(t, p)
        PROVE  Life!LifeNext
    BY <1>2, <2>1, CreateSpawns DEF Life!LifeNext
  <2>2. ASSUME NEW time \in SleepTimes, Sleep(time)
        PROVE  Life!LifeNext
    BY <1>2, <2>2, SleepSuspends DEF Life!LifeNext
  <2>3. ASSUME NEW u \in Thread, Join(u)
        PROVE  Life!LifeNext
    BY <1>2, <2>3, JoinWaits DEF Life!LifeNext
  <2>4. CASE Exit
    BY <1>2, <2>4, ExitEnds DEF Life!LifeNext
  <2>5. CASE Yield \/ Tick
    BY <1>2, <2>5, YieldReschedules, TickReschedules
  \* What is left moves no thread, or one from the zombies to the dead.
  <2>6. CASE \/ \E n \in NiceArgs : Nice(n)
             \/ \E time \in SleepTimes : SleepNot(time)
             \/ \E u \in Thread : JoinZombie(u) \/ JoinNotFound(u)
             \/ Over \/ UNCHANGED vars
    <3>1. UNCHANGED <<created, Ended, Sleeping, Joining, active_thr, status>>
      BY <2>6 DEF Nice, SleepNot, JoinZombie, JoinNotFound, Over, vars, Ended,
         Sleeping, Joining
    <3> QED
      BY <1>2, <3>1, PhasesStay, TargetsStay DEF Life!lifeVars, lifeCpu, Running
  <2> QED
    BY <1>2, <2>1, <2>2, <2>3, <2>4, <2>5, <2>6 DEF Next
<1> QED
  BY <1>1, <1>2, Invariant, PTL DEF Spec, Life!LifeSpec, ImplementsThreadLife
=============================================================================
