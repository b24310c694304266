--------------------------- MODULE FileSystemProofs --------------------------
(***************************************************************************)
(* The file system, for every geometry, every size of its caches and all   *)
(* calls.                                                                  *)
(***************************************************************************)
EXTENDS FileSystem, QueueProofs

-----------------------------------------------------------------------------
(* Numbers.                                                                *)

\* The parts that hold n units, each of the given length.
LEMMA PartsHold ==
  ASSUME NEW n \in Nat, NEW length \in Nat \ {0}
  PROVE  /\ Parts(n, length) \in Nat
         /\ n <= Parts(n, length) * length
         /\ Parts(n, length) * length < n + length
<1> DEFINE x == n + length - 1
           q == x \div length
<1>1. x \in Nat
  OBVIOUS
<1> HIDE DEF x
<1>2. q \in Nat /\ length * q <= x /\ x < length * q + length
  BY <1>1, SMTT(60)
<1> HIDE DEF q
<1>3. length * q = q * length /\ q * length \in Nat
  BY <1>2, SMTT(60)
<1>4. q * length < n + length /\ n <= q * length
  BY <1>2, <1>3 DEF x
<1> QED
  BY <1>2, <1>4 DEF Parts, q, x

LEMMA ProductGrows ==
  ASSUME NEW a \in Nat, NEW b \in Nat, NEW c \in Nat, a <= b
  PROVE  a * c \in Nat /\ b * c \in Nat /\ a * c <= b * c
BY SMTT(60)

\* As few as are needed.
LEMMA PartsFew ==
  ASSUME NEW n \in Nat, NEW length \in Nat \ {0}, NEW k \in Nat
  PROVE  Parts(n, length) <= k <=> n <= k * length
<1> DEFINE p == Parts(n, length)
<1>1. p \in Nat /\ n <= p * length /\ p * length < n + length
  BY PartsHold
<1> HIDE DEF p
<1>2. ASSUME p <= k PROVE n <= k * length
  BY <1>1, <1>2, ProductGrows
<1>3. ASSUME ~(p <= k) PROVE ~(n <= k * length)
  <2>1. k + 1 <= p
    BY <1>1, <1>3
  <2>2. (k + 1) * length <= p * length
    BY <1>1, <2>1, ProductGrows
  <2>3. (k + 1) * length = k * length + length /\ k * length \in Nat
    BY SMTT(60)
  <2>4. p * length \in Nat
    BY <1>1, ProductGrows
  <2> QED
    BY <1>1, <2>2, <2>3, <2>4
<1> QED
  BY <1>2, <1>3 DEF p

LEMMA PartsGrow ==
  ASSUME NEW m \in Nat, NEW n \in Nat, NEW length \in Nat \ {0}, m <= n
  PROVE  Parts(m, length) <= Parts(n, length)
<1> DEFINE p == Parts(n, length)
<1>1. p \in Nat /\ n <= p * length
  BY PartsHold
<1>2. p * length \in Nat
  BY <1>1, ProductGrows
<1> HIDE DEF p
<1>3. m <= p * length
  BY <1>1, <1>2
<1>4. Parts(m, length) <= p
  BY <1>1, <1>3, PartsFew
<1> QED
  BY <1>4 DEF p

\* One unit more begins a new part or is in the last one.
LEMMA PartsNext ==
  ASSUME NEW n \in Nat, NEW length \in Nat \ {0}
  PROVE  LET page == n \div length
         IN  /\ page \in Nat /\ Parts(n + 1, length) = page + 1
             /\ n % length = 0 => Parts(n, length) = page
             /\ n % length # 0 => Parts(n, length) = page + 1
             /\ n % length \in 0 .. length - 1
             /\ \A k \in Nat : n < k * length => page < k
<1> DEFINE q == n \div length
           r == n % length
<1>1. q \in Nat /\ r \in 0 .. length - 1 /\ n = q * length + r
  BY SMTT(60)
<1> HIDE DEF q, r
<1>2. q * length \in Nat /\ (q + 1) * length = q * length + length
  BY <1>1, SMTT(60)
<1>3. ASSUME NEW m \in Nat, q * length < m, m <= q * length + length
      PROVE  Parts(m, length) = q + 1
  <2>1. Parts(m, length) <= q + 1
    BY <1>1, <1>2, <1>3, PartsFew
  <2>2. ~(Parts(m, length) <= q)
    BY <1>1, <1>2, <1>3, PartsFew
  <2>3. Parts(m, length) \in Nat
    BY PartsHold
  <2> QED
    BY <1>1, <2>1, <2>2, <2>3
<1>4. Parts(n + 1, length) = q + 1
  <2>1. q * length < n + 1 /\ n + 1 <= q * length + length /\ n + 1 \in Nat
    BY <1>1, <1>2
  <2> QED
    BY <1>3, <2>1
<1>5. ASSUME r # 0 PROVE Parts(n, length) = q + 1
  BY <1>1, <1>2, <1>3, <1>5
<1>6. ASSUME r = 0 PROVE Parts(n, length) = q
  <2>1. Parts(n, length) <= q
    BY <1>1, <1>2, <1>6, PartsFew
  <2>0. Parts(n, length) \in Nat
    BY PartsHold
  <2>2. CASE q = 0
    BY <2>0, <2>1, <2>2
  <2>3. CASE q # 0
    <3>1. q - 1 \in Nat /\ (q - 1) * length + length = q * length
          /\ (q - 1) * length \in Nat
      BY <1>1, <2>3, SMTT(60)
    <3>2. ~(n <= (q - 1) * length)
      BY <1>1, <1>2, <1>6, <3>1
    <3>3. ~(Parts(n, length) <= q - 1)
      BY <3>1, <3>2, PartsFew
    <3> QED
      BY <1>1, <2>0, <2>1, <3>1, <3>3
  <2> QED
    BY <2>2, <2>3
<1>7. ASSUME NEW k \in Nat, n < k * length PROVE q < k
  <2>1. CASE k <= q
    <3>1. k * length <= q * length
      BY <1>1, <2>1, ProductGrows
    <3>2. k * length \in Nat
      BY <1>1, ProductGrows
    <3> QED
      BY <1>1, <1>2, <1>7, <3>1, <3>2
  <2> QED
    BY <1>1, <2>1
<1> QED
  BY <1>1, <1>4, <1>5, <1>6, <1>7 DEF q, r

LEMMA TwoNumbers ==
  ASSUME NEW a \in Int, NEW b \in Int
  PROVE  /\ Min({a, b}) = IF a <= b THEN a ELSE b
         /\ Max({a, b}) = IF a <= b THEN b ELSE a
<1>1. CASE a <= b
  <2>1. /\ a \in {a, b} /\ \A y \in {a, b} : a <= y
        /\ b \in {a, b} /\ \A y \in {a, b} : b >= y
    BY <1>1
  <2>2. /\ Min({a, b}) \in {a, b} /\ \A y \in {a, b} : Min({a, b}) <= y
        /\ Max({a, b}) \in {a, b} /\ \A y \in {a, b} : Max({a, b}) >= y
    BY <2>1 DEF Min, Max
  <2> QED
    BY <1>1, <2>2
<1>2. CASE ~(a <= b)
  <2>1. /\ b \in {a, b} /\ \A y \in {a, b} : b <= y
        /\ a \in {a, b} /\ \A y \in {a, b} : a >= y
    BY <1>2
  <2>2. /\ Min({a, b}) \in {a, b} /\ \A y \in {a, b} : Min({a, b}) <= y
        /\ Max({a, b}) \in {a, b} /\ \A y \in {a, b} : Max({a, b}) >= y
    BY <2>1 DEF Min, Max
  <2> QED
    BY <1>2, <2>2
<1> QED
  BY <1>1, <1>2

LEMMA MaxOfParts ==
  ASSUME NEW a \in Nat, NEW b \in Nat, NEW length \in Nat \ {0}
  PROVE  /\ Max({a, b}) \in Nat
         /\ Max({Parts(a, length), Parts(b, length)}) = Parts(Max({a, b}), length)
         /\ Parts(b, length) \in Nat
         /\ Max({Parts(a, length), Parts(b, length)}) - Parts(b, length) \in Nat
<1> DEFINE p == Parts(a, length)
           q == Parts(b, length)
<1>1. p \in Nat /\ q \in Nat
  BY PartsHold
<1>2. (a <= b => p <= q) /\ (b <= a => q <= p)
  BY PartsGrow
<1>3. Max({a, b}) = IF a <= b THEN b ELSE a
  BY TwoNumbers
<1>4. Parts(Max({a, b}), length) = IF a <= b THEN q ELSE p
  BY <1>3
<1> HIDE DEF p, q
<1>5. Max({p, q}) = IF p <= q THEN q ELSE p
  BY <1>1, TwoNumbers
<1>6. Max({p, q}) = IF a <= b THEN q ELSE p
  BY <1>1, <1>2, <1>5
<1>7. Max({p, q}) - q \in Nat
  BY <1>1, <1>5
<1> QED
  BY <1>1, <1>3, <1>4, <1>6, <1>7 DEF p, q

\* A set of numbers up to n has a least and a greatest element.
LEMMA Extremes ==
  ASSUME NEW n \in Nat, NEW S, S \subseteq 0 .. n, S # {}
  PROVE  /\ Min(S) \in S /\ \A y \in S : Min(S) <= y
         /\ Max(S) \in S /\ \A y \in S : Max(S) >= y
<1> DEFINE T == {n - x : x \in S}
<1>0. S \in SUBSET Nat
  OBVIOUS
<1>1. \E m \in S : \A k \in S : m <= k
  BY <1>0, LeastNatural
<1>2. \E m \in S : \A k \in S : m >= k
  <2>0. \A x \in S : n - x \in Nat
    OBVIOUS
  <2>1. T \in SUBSET Nat /\ T # {}
    BY <2>0
  <2> HIDE DEF T
  <2>2. PICK t \in T : \A k \in T : t <= k
    BY <2>1, LeastNatural
  <2>3. PICK m \in S : t = n - m
    BY DEF T
  <2>4. \A k \in S : n - m <= n - k
    BY <2>2, <2>3 DEF T
  <2>5. \A k \in S : k \in Int /\ m \in Int
    OBVIOUS
  <2>6. \A k \in S : m >= k
    BY <2>4, <2>5
  <2> QED
    BY <2>6
<1> QED
  BY <1>1, <1>2 DEF Min, Max

\* The k lowest numbers of a set are k different ones.
LEMMA LowestAre ==
  ASSUME NEW S, S \subseteq Nat, IsFiniteSet(S), NEW k \in 0 .. Cardinality(S)
  PROVE  /\ Lowest(S, k) \in [1 .. k -> S]
         /\ \A i, j \in 1 .. k : i # j => Lowest(S, k)[i] # Lowest(S, k)[j]
<1>1. Cardinality(S) \in Nat
  BY FS_CardinalityType
<1>2. ASSUME NEW i \in 1 .. k
      PROVE  Lowest(S, k)[i] \in S /\ Rank(S, Lowest(S, k)[i]) = i
  <2>0. S \subseteq Int /\ i \in 1 .. Cardinality(S)
    BY <1>1
  <2>1. \E b \in S : Rank(S, b) = i
    BY <2>0, RankOnto
  <2>2. \A b : Cardinality({x \in S : x <= b}) = Rank(S, b)
    BY DEF Rank
  <2>3. Lowest(S, k)[i] = CHOOSE b \in S : Rank(S, b) = i
    BY <2>2 DEF Lowest
  <2> QED
    BY <2>1, <2>3
<1>3. Lowest(S, k) = [i \in 1 .. k |-> Lowest(S, k)[i]]
  BY DEF Lowest
<1>4. Lowest(S, k) \in [1 .. k -> S]
  BY <1>2, <1>3
<1> QED
  BY <1>2, <1>4

-----------------------------------------------------------------------------
(* Caches.                                                                 *)

\* A cache is a sequence of entries with different keys.
IsCache(c) == /\ c \in Seq(ToSet(c))
              /\ \A i, j \in DOMAIN c : c[i].key = c[j].key => i = j

LEMMA RemoveAtIs ==
  ASSUME NEW T, NEW c \in Seq(T), NEW i \in 1 .. Len(c)
  PROVE  /\ RemoveAt(c, i) \in Seq(T)
         /\ Len(RemoveAt(c, i)) = Len(c) - 1
         /\ \A j \in 1 .. Len(c) - 1 :
               RemoveAt(c, i)[j] = IF j < i THEN c[j] ELSE c[j + 1]
<1> DEFINE a == SubSeq(c, 1, i - 1)
           b == SubSeq(c, i + 1, Len(c))
<1>1. Len(c) \in Nat
  BY LenProperties
<1>2. a \in Seq(T) /\ Len(a) = i - 1 /\ \A j \in 1 .. i - 1 : a[j] = c[j]
  BY <1>1
<1>3. /\ b \in Seq(T) /\ Len(b) = Len(c) - i
      /\ \A j \in 1 .. Len(c) - i : b[j] = c[i + j]
  BY <1>1
<1> HIDE DEF a, b
<1>4. a \o b \in Seq(T) /\ Len(a \o b) = Len(c) - 1
  <2>1. a \o b \in Seq(T) /\ Len(a \o b) = Len(a) + Len(b)
    BY <1>2, <1>3, ConcatProperties
  <2> QED
    BY <1>1, <1>2, <1>3, <2>1
<1>5. ASSUME NEW j \in 1 .. Len(c) - 1
      PROVE  (a \o b)[j] = IF j < i THEN c[j] ELSE c[j + 1]
  <2>1. CASE j < i
    BY <1>1, <1>2, <1>3, <2>1
  <2>2. CASE ~(j < i)
    <3>1. (a \o b)[j] = b[j - (i - 1)] /\ j - (i - 1) \in 1 .. Len(c) - i
      BY <1>1, <1>2, <1>3, <2>2
    <3>2. i + (j - (i - 1)) = j + 1
      OBVIOUS
    <3> QED
      BY <1>3, <2>2, <3>1, <3>2
  <2> QED
    BY <2>1, <2>2
<1> QED
  BY <1>4, <1>5 DEF RemoveAt, a, b

LEMMA OwnElements ==
  ASSUME NEW T, NEW s \in Seq(T)
  PROVE  s \in Seq(ToSet(s)) /\ Len(s) \in Nat /\ DOMAIN s = 1 .. Len(s)
<1>1. Len(s) \in Nat /\ DOMAIN s = 1 .. Len(s)
  BY LenProperties
<1>2. s = [j \in 1 .. Len(s) |-> s[j]]
  BY <1>1, SeqDef
<1>3. \A j \in 1 .. Len(s) : s[j] \in ToSet(s)
  BY <1>1 DEF ToSet
<1>4. s \in [1 .. Len(s) -> ToSet(s)]
  BY <1>2, <1>3
<1> QED
  BY <1>1, <1>4, SeqDef

\* A cache without one of its entries.
LEMMA DropKeeps ==
  ASSUME NEW c, IsCache(c), NEW i \in DOMAIN c
  PROVE  /\ IsCache(RemoveAt(c, i))
         /\ \A x \in ToSet(RemoveAt(c, i)) : x \in ToSet(c) /\ x.key # c[i].key
<1> DEFINE r == RemoveAt(c, i)
           at(j) == IF j < i THEN j ELSE j + 1
<1>1. c \in Seq(ToSet(c)) /\ Len(c) \in Nat /\ DOMAIN c = 1 .. Len(c)
  BY LenProperties DEF IsCache
<1>2. i \in 1 .. Len(c)
  BY <1>1
<1>3. /\ r \in Seq(ToSet(c)) /\ Len(r) = Len(c) - 1
      /\ \A j \in 1 .. Len(c) - 1 : r[j] = IF j < i THEN c[j] ELSE c[j + 1]
  BY <1>1, <1>2, RemoveAtIs
<1> HIDE DEF r
<1>4. DOMAIN r = 1 .. Len(c) - 1
  BY <1>1, <1>3, LenProperties
<1>5. ASSUME NEW j \in DOMAIN r
      PROVE  at(j) \in DOMAIN c /\ at(j) # i /\ r[j] = c[at(j)]
  BY <1>1, <1>2, <1>3, <1>4
<1>6. \A j, k \in DOMAIN r : at(j) = at(k) => j = k
  BY <1>1, <1>2, <1>4
<1> HIDE DEF at
<1>7. \A j, k \in DOMAIN r : r[j].key = r[k].key => j = k
  BY <1>5, <1>6 DEF IsCache
<1>8. r \in Seq(ToSet(r))
  BY <1>3, OwnElements
<1>9. \A x \in ToSet(r) : x \in ToSet(c) /\ x.key # c[i].key
  BY <1>2, <1>1, <1>5 DEF IsCache, ToSet
<1> QED
  BY <1>7, <1>8, <1>9 DEF IsCache, r

LEMMA LookupIs ==
  ASSUME NEW c, NEW key, Cached(c, key)
  PROVE  /\ Place(c, key) \in DOMAIN c /\ c[Place(c, key)].key = key
         /\ Lookup(c, key) \in ToSet(c) /\ Lookup(c, key).key = key
<1>1. Place(c, key) \in DOMAIN c /\ c[Place(c, key)].key = key
  BY DEF Cached, Place
<1> QED
  BY <1>1 DEF Lookup, ToSet

LEMMA WithoutKeeps ==
  ASSUME NEW c, IsCache(c), NEW key
  PROVE  /\ IsCache(Without(c, key))
         /\ \A x \in ToSet(Without(c, key)) : x \in ToSet(c) /\ x.key # key
<1>1. CASE Cached(c, key)
  <2>1. Place(c, key) \in DOMAIN c /\ c[Place(c, key)].key = key
    BY <1>1, LookupIs
  <2>2. Without(c, key) = RemoveAt(c, Place(c, key))
    BY <1>1 DEF Without
  <2> QED
    BY <2>1, <2>2, DropKeeps
<1>2. CASE ~Cached(c, key)
  <2>1. Without(c, key) = c
    BY <1>2 DEF Without
  <2> QED
    BY <1>2, <2>1 DEF Cached, ToSet
<1> QED
  BY <1>1, <1>2

LEMMA VictimIs ==
  ASSUME NEW c, IsCache(c), Len(c) # 0
  PROVE  Victim(c) \in DOMAIN c
<1> DEFINE clean == {i \in DOMAIN c : ~c[i].dirty}
<1>1. Len(c) \in Nat /\ DOMAIN c = 1 .. Len(c)
  BY LenProperties DEF IsCache
<1>2. clean \subseteq 0 .. Len(c) /\ clean \subseteq DOMAIN c
  BY <1>1
<1>3. Victim(c) = IF clean # {} THEN Max(clean) ELSE Len(c)
  BY DEF Victim
<1> HIDE DEF clean
<1>4. clean # {} => Max(clean) \in clean
  BY <1>1, <1>2, Extremes
<1> QED
  BY <1>1, <1>2, <1>3, <1>4

\* After a use of e the cache holds e and what it held, under other keys.
LEMMA UseKeeps ==
  ASSUME NEW c, IsCache(c), NEW e, NEW size \in Nat \ {0}
  PROVE  /\ IsCache(Use(c, e, size))
         /\ Head(Use(c, e, size)) = e
         /\ \A x \in ToSet(Use(c, e, size)) :
               x = e \/ (x \in ToSet(c) /\ x.key # e.key)
<1> DEFINE r == IF Full(c, e.key, size) THEN RemoveAt(c, Victim(c))
                ELSE Without(c, e.key)
           T == ToSet(r) \cup {e}
<1>1. IsCache(r) /\ \A x \in ToSet(r) : x \in ToSet(c) /\ x.key # e.key
  <2>1. CASE Full(c, e.key, size)
    <3>1. ~Cached(c, e.key) /\ Len(c) # 0
      <4>1. Len(c) \in Nat
        BY LenProperties DEF IsCache
      <4> QED
        BY <2>1, <4>1 DEF Full
    <3>2. Victim(c) \in DOMAIN c
      BY <3>1, VictimIs
    <3>3. /\ IsCache(RemoveAt(c, Victim(c)))
          /\ \A x \in ToSet(RemoveAt(c, Victim(c))) : x \in ToSet(c)
      BY <3>2, DropKeeps
    <3>4. \A x \in ToSet(c) : x.key # e.key
      BY <3>1 DEF Cached, ToSet
    <3> QED
      BY <2>1, <3>3, <3>4
  <2>2. CASE ~Full(c, e.key, size)
    BY <2>2, WithoutKeeps
  <2> QED
    BY <2>1, <2>2
<1>2. Use(c, e, size) = <<e>> \o r
  BY DEF Use
<1> HIDE DEF r
<1> DEFINE u == <<e>> \o r
<1>3. r \in Seq(ToSet(r)) /\ Len(r) \in Nat /\ DOMAIN r = 1 .. Len(r)
  BY <1>1, LenProperties DEF IsCache
<1>4. r \in Seq(T) /\ <<e>> \in Seq(T)
  BY <1>3, SeqDef
<1> HIDE DEF T
<1>5. /\ u \in Seq(T) /\ Len(u) = Len(r) + 1
      /\ \A i \in 1 .. Len(r) + 1 : u[i] = IF i = 1 THEN e ELSE r[i - 1]
  BY <1>3, <1>4
<1>6. DOMAIN u = 1 .. Len(r) + 1
  BY <1>5, LenProperties
<1>7. \A i, j \in DOMAIN u : u[i].key = u[j].key => i = j
  <2> SUFFICES ASSUME NEW i \in DOMAIN u, NEW j \in DOMAIN u, u[i].key = u[j].key
               PROVE  i = j
    OBVIOUS
  <2>1. \A k \in 2 .. Len(r) + 1 :
           u[k] = r[k - 1] /\ k - 1 \in DOMAIN r /\ u[k] \in ToSet(r)
    BY <1>3, <1>5 DEF ToSet
  <2>2. u[1] = e
    BY <1>3, <1>5
  <2>3. CASE i = 1 \/ j = 1
    BY <1>1, <1>3, <1>6, <2>1, <2>2, <2>3
  <2>4. CASE i # 1 /\ j # 1
    <3>1. i \in 2 .. Len(r) + 1 /\ j \in 2 .. Len(r) + 1
      BY <1>3, <1>6, <2>4
    <3>2. i - 1 = j - 1
      BY <1>1, <2>1, <3>1 DEF IsCache
    <3> QED
      BY <3>1, <3>2
  <2> QED
    BY <2>3, <2>4
<1>8. u \in Seq(ToSet(u))
  BY <1>5, OwnElements
<1>9. Head(u) = e
  BY <1>3, <1>5
<1>10. \A x \in ToSet(u) : x = e \/ x \in ToSet(r)
  <2>1. ASSUME NEW i \in DOMAIN u PROVE u[i] = e \/ u[i] \in ToSet(r)
    BY <1>3, <1>5, <1>6 DEF ToSet
  <2> QED
    BY <2>1 DEF ToSet
<1> HIDE DEF u
<1>11. IsCache(u)
  BY <1>7, <1>8 DEF IsCache
<1> QED
  BY <1>1, <1>2, <1>9, <1>10, <1>11 DEF u

-----------------------------------------------------------------------------
(* The invariant.                                                          *)

InodeRecord == [type : {"none", "dir", "file"}, size : Nat,
                blocks : [0 .. INODE_NUM_BLKS - 1 -> Block]]

\* The number of blocks that an inode uses.
Used(inode) == IF inode.type = "dir" THEN Pages(inode.size)
               ELSE OFFSET_TO_BLOCKS(inode.size)

\* What a cached inode has in common with the one in the table: the block numbers
\* beyond those in use may differ.
Agrees(cached, inode) ==
    /\ cached \in InodeRecord
    /\ cached.type = inode.type /\ cached.size = inode.size
    /\ \A k \in 0 .. Used(inode) - 1 : cached.blocks[k] = inode.blocks[k]

CacheOK(c, tab) ==
    /\ IsCache(c)
    /\ \A x \in ToSet(c) : x.key \in Inode => Agrees(x.data, tab[x.key])

\* BlocksApart, for any table and bitmap.
Apart(tab, bmap) ==
    \A i, j \in Inode : \A k \in 0 .. Used(tab[i]) - 1, l \in 0 .. Used(tab[j]) - 1 :
        /\ tab[i].blocks[k] \in bmap \ (0 .. RESERVED - 1)
        /\ tab[i].blocks[k] = tab[j].blocks[l] => i = j /\ k = l

TableOK(tab) ==
    /\ tab \in [Inode -> InodeRecord]
    /\ \A i \in Inode : Used(tab[i]) <= INODE_NUM_BLKS

\* A directory has an entry for each inode but the first two, at most.
BitmapsOK(tab, imap, bmap) ==
    /\ {0, ROOT} \subseteq imap /\ imap \subseteq Inode \cup {0, ROOT}
    /\ 0 .. RESERVED - 1 \subseteq bmap /\ bmap \subseteq Block
    /\ \A i \in Inode : tab[i].type = "dir" => tab[i].size + 2 <= Cardinality(imap)

FsInvariant ==
    /\ TableOK(inode_tab)
    /\ BitmapsOK(inode_tab, inode_bmap, blk_bmap)
    /\ Apart(inode_tab, blk_bmap)
    /\ CacheOK(icache, inode_tab)

LEMMA Sizes ==
  /\ ITAB_SIZE \in Nat \ {0} /\ NUM_BLOCKS \in Nat \ {0} /\ RESERVED \in Nat \ {0}
  /\ INODE_NUM_BLKS \in Nat \ {0} /\ BLOCK_SIZE \in Nat \ {0}
  /\ DIR_PAGE_ENTRIES \in Nat \ {0} /\ INODE_CACHE_SIZE \in Nat \ {0}
  /\ RESERVED <= NUM_BLOCKS
  /\ ITAB_SIZE - 2 <= INODE_NUM_BLKS * DIR_PAGE_ENTRIES
BY GeometryAssumption, CacheAssumption

LEMMA UsedIs ==
  ASSUME NEW inode, inode.size \in Nat
  PROVE  Used(inode) \in Nat
BY Sizes, PartsHold DEF Used, Pages, OFFSET_TO_BLOCKS

-----------------------------------------------------------------------------
(* The inode cache.                                                        *)

\* An inode is cached, and is the only one that changes in the table.
LEMMA CacheUse ==
  ASSUME NEW c, NEW tab, CacheOK(c, tab), NEW e, NEW tab2,
         e.key \in Inode => Agrees(e.data, tab2[e.key]),
         \A i \in Inode \ {e.key} : tab2[i] = tab[i]
  PROVE  CacheOK(Use(c, e, INODE_CACHE_SIZE), tab2)
<1> DEFINE u == Use(c, e, INODE_CACHE_SIZE)
<1>1. IsCache(u) /\ \A x \in ToSet(u) : x = e \/ (x \in ToSet(c) /\ x.key # e.key)
  BY Sizes, UseKeeps DEF CacheOK
<1> HIDE DEF u
<1>2. ASSUME NEW x \in ToSet(u), x.key \in Inode PROVE Agrees(x.data, tab2[x.key])
  BY <1>1, <1>2 DEF CacheOK
<1> QED
  BY <1>1, <1>2 DEF CacheOK, u

LEMMA CacheInodeKeeps ==
  ASSUME NEW tab, CacheOK(icache, tab), NEW f \in Inode, NEW inode, NEW tab2,
         Agrees(inode, tab2[f]),
         \A i \in Inode \ {f} : tab2[i] = tab[i]
  PROVE  CacheOK(CacheInode(f, inode), tab2)
<1> DEFINE e == Entry(f, inode, FALSE)
<1>1. e.key = f /\ e.data = inode
  BY DEF Entry
<1>2. CacheInode(f, inode) = Use(icache, e, INODE_CACHE_SIZE)
  BY DEF CacheInode
<1> HIDE DEF e
<1>3. CacheOK(Use(icache, e, INODE_CACHE_SIZE), tab2)
  BY <1>1, CacheUse
<1> QED
  BY <1>2, <1>3

LEMMA CacheWithout ==
  ASSUME NEW c, NEW tab, CacheOK(c, tab), NEW f, NEW tab2,
         \A i \in Inode \ {f} : tab2[i] = tab[i]
  PROVE  CacheOK(Without(c, f), tab2)
<1>1. /\ IsCache(Without(c, f))
      /\ \A x \in ToSet(Without(c, f)) : x \in ToSet(c) /\ x.key # f
  BY WithoutKeeps DEF CacheOK
<1> QED
  BY <1>1 DEF CacheOK

LEMMA AgreesItself ==
  ASSUME NEW tab, TableOK(tab), NEW i \in Inode
  PROVE  Agrees(tab[i], tab[i])
BY DEF TableOK, Agrees

\* ic_get keeps the cache.
LEMMA GetKeeps ==
  ASSUME TableOK(inode_tab), NEW c, CacheOK(c, inode_tab), NEW id
  PROVE  CacheOK(ic_get(c, id), inode_tab)
<1> DEFINE e == IF Cached(c, id) THEN Lookup(c, id) ELSE Entry(id, inode_tab[id], FALSE)
<1>1. e.key \in Inode => Agrees(e.data, inode_tab[e.key])
  <2>1. CASE Cached(c, id)
    <3>1. Lookup(c, id) \in ToSet(c)
      BY <2>1, LookupIs
    <3> QED
      BY <2>1, <3>1 DEF CacheOK
  <2>2. CASE ~Cached(c, id)
    <3>1. e.key = id /\ e.data = inode_tab[id]
      BY <2>2 DEF Entry
    <3> HIDE DEF e
    <3> QED
      BY <3>1, AgreesItself
  <2> QED
    BY <2>1, <2>2
<1>2. ic_get(c, id) = Use(c, e, INODE_CACHE_SIZE)
  BY DEF ic_get
<1> HIDE DEF e
<1>3. CacheOK(Use(c, e, INODE_CACHE_SIZE), inode_tab)
  BY <1>1, CacheUse
<1> QED
  BY <1>2, <1>3

\* The inode that a call sees is the one in the table, as far as it matters.
LEMMA SeenAgrees ==
  ASSUME FsInvariant, NEW i \in Inode
  PROVE  Agrees(SeenInode(i), inode_tab[i])
<1>1. CASE Cached(icache, i)
  <2>1. Lookup(icache, i) \in ToSet(icache) /\ Lookup(icache, i).key = i
    BY <1>1, LookupIs
  <2>2. SeenInode(i) = Lookup(icache, i).data
    BY <1>1 DEF SeenInode
  <2> QED
    BY <2>1, <2>2 DEF FsInvariant, CacheOK
<1>2. CASE ~Cached(icache, i)
  BY <1>2, AgreesItself DEF SeenInode, FsInvariant
<1> QED
  BY <1>1, <1>2

\* Inode f takes blocks that were free; others stay, or are new and have none.
Grows(f, tab, bmap, tab2, bmap2) ==
    /\ bmap \subseteq bmap2
    /\ \A i \in Inode \ {f} : tab2[i] = tab[i] \/ Used(tab2[i]) = 0
    /\ \A k \in 0 .. Used(tab[f]) - 1 : tab2[f].blocks[k] = tab[f].blocks[k]
    /\ \A k \in Used(tab[f]) .. Used(tab2[f]) - 1 :
          tab2[f].blocks[k] \in bmap2 \ bmap
    /\ \A k, l \in Used(tab[f]) .. Used(tab2[f]) - 1 :
          tab2[f].blocks[k] = tab2[f].blocks[l] => k = l

LEMMA GrowthKeepsApart ==
  ASSUME NEW tab, TableOK(tab), NEW bmap, Apart(tab, bmap),
         NEW tab2, TableOK(tab2), NEW bmap2, NEW f \in Inode,
         0 .. RESERVED - 1 \subseteq bmap, Grows(f, tab, bmap, tab2, bmap2)
  PROVE  Apart(tab2, bmap2)
<1> DEFINE Old(i, k) == /\ k \in 0 .. Used(tab[i]) - 1
                        /\ tab2[i].blocks[k] = tab[i].blocks[k]
                        /\ tab2[i].blocks[k] \in bmap \ (0 .. RESERVED - 1)
           New(i, k) == /\ i = f /\ k \in Used(tab[f]) .. Used(tab2[f]) - 1
                        /\ tab2[f].blocks[k] \in bmap2 \ bmap
<1> USE DEF Grows
<1>1. \A i \in Inode : Used(tab[i]) \in Nat /\ Used(tab2[i]) \in Nat
  <2> SUFFICES ASSUME NEW i \in Inode PROVE Used(tab[i]) \in Nat /\ Used(tab2[i]) \in Nat
    OBVIOUS
  <2>1. tab[i].size \in Nat /\ tab2[i].size \in Nat
    BY DEF TableOK, InodeRecord
  <2> QED
    BY <2>1, UsedIs
<1>2. ASSUME NEW i \in Inode, NEW k \in 0 .. Used(tab2[i]) - 1
      PROVE  Old(i, k) \/ New(i, k)
  <2>1. CASE k \in 0 .. Used(tab[i]) - 1
    <3>1. tab2[i].blocks[k] = tab[i].blocks[k]
      BY <1>1, <2>1
    <3>2. tab[i].blocks[k] \in bmap \ (0 .. RESERVED - 1)
      BY <2>1 DEF Apart
    <3> QED
      BY <2>1, <3>1, <3>2
  <2>2. CASE ~(k \in 0 .. Used(tab[i]) - 1)
    <3>1. k \in Used(tab[i]) .. Used(tab2[i]) - 1 /\ tab2[i] # tab[i] /\ Used(tab2[i]) # 0
      BY <1>1, <2>2
    <3>2. i = f
      BY <3>1
    <3> QED
      BY <3>1, <3>2
  <2> QED
    BY <2>1, <2>2
<1> SUFFICES ASSUME NEW i \in Inode, NEW j \in Inode, NEW k \in 0 .. Used(tab2[i]) - 1,
                    NEW l \in 0 .. Used(tab2[j]) - 1
             PROVE  /\ tab2[i].blocks[k] \in bmap2 \ (0 .. RESERVED - 1)
                    /\ tab2[i].blocks[k] = tab2[j].blocks[l] => i = j /\ k = l
  BY DEF Apart
<1>3. Old(i, k) \/ New(i, k)
  BY <1>2
<1>4. Old(j, l) \/ New(j, l)
  BY <1>2
<1>5. tab2[i].blocks[k] \in bmap2 \ (0 .. RESERVED - 1)
  BY <1>3
<1>6. ASSUME Old(i, k), Old(j, l), tab2[i].blocks[k] = tab2[j].blocks[l]
      PROVE  i = j /\ k = l
  BY <1>6 DEF Apart
<1>7. ASSUME New(i, k), New(j, l), tab2[i].blocks[k] = tab2[j].blocks[l]
      PROVE  i = j /\ k = l
  BY <1>7
<1> QED
  BY <1>3, <1>4, <1>5, <1>6, <1>7

LEMMA FreeAre ==
  ASSUME NEW n \in Nat
  PROVE  /\ NewBlocks(n) \in Seq(FreeBlocks) /\ Len(NewBlocks(n)) \in 0 .. n
         /\ \A i, j \in 1 .. Len(NewBlocks(n)) :
               NewBlocks(n)[i] = NewBlocks(n)[j] => i = j
         /\ FreeBlocks \subseteq 0 .. NUM_BLOCKS - 1
<1> DEFINE k == Min({n, Cardinality(FreeBlocks)})
<1>1. FreeBlocks \subseteq 0 .. NUM_BLOCKS - 1 /\ FreeBlocks \subseteq Nat
      /\ IsFiniteSet(FreeBlocks)
  <2>1. IsFiniteSet(0 .. NUM_BLOCKS - 1)
    BY Sizes, FS_Interval
  <2> QED
    BY <2>1, Sizes, FS_Subset DEF FreeBlocks, Block
<1>2. k \in 0 .. Cardinality(FreeBlocks) /\ k \in 0 .. n
  <2>1. Cardinality(FreeBlocks) \in Nat
    BY <1>1, FS_CardinalityType
  <2> QED
    BY <2>1, TwoNumbers
<1> HIDE DEF k
<1> DEFINE new == Lowest(FreeBlocks, k)
<1>3. /\ new \in [1 .. k -> FreeBlocks]
      /\ \A i, j \in 1 .. k : i # j => new[i] # new[j]
  BY <1>1, <1>2, LowestAre
<1>4. NewBlocks(n) = new
  BY DEF NewBlocks, k
<1> HIDE DEF new
<1>5. new \in Seq(FreeBlocks)
  BY <1>2, <1>3, SeqDef
<1>6. Len(new) = k
  BY <1>2, <1>3, <1>5, LenProperties
<1> QED
  BY <1>1, <1>2, <1>3, <1>4, <1>5, <1>6

LEMMA WithBlocksIs ==
  ASSUME NEW ifile \in InodeRecord, NEW used \in Nat, NEW new \in Seq(Block)
  PROVE  LET grown == WithBlocks(ifile, used, new)
         IN  /\ grown \in InodeRecord
             /\ grown.type = ifile.type /\ grown.size = ifile.size
             /\ \A i \in 0 .. INODE_NUM_BLKS - 1 :
                   grown.blocks[i] = IF i \in used .. used + Len(new) - 1
                                     THEN new[i - used + 1] ELSE ifile.blocks[i]
<1> DEFINE blocks == [i \in 0 .. INODE_NUM_BLKS - 1 |->
                        IF i \in used .. used + Len(new) - 1
                        THEN new[i - used + 1] ELSE ifile.blocks[i]]
<1>1. /\ ifile.blocks \in [0 .. INODE_NUM_BLKS - 1 -> Block]
      /\ ifile = [type |-> ifile.type, size |-> ifile.size, blocks |-> ifile.blocks]
  BY DEF InodeRecord
<1>2. Len(new) \in Nat /\ \A i \in 1 .. Len(new) : new[i] \in Block
  BY LenProperties, ElementOfSeq
<1>3. blocks \in [0 .. INODE_NUM_BLKS - 1 -> Block]
  <2> SUFFICES ASSUME NEW i \in 0 .. INODE_NUM_BLKS - 1
               PROVE  (IF i \in used .. used + Len(new) - 1
                       THEN new[i - used + 1] ELSE ifile.blocks[i]) \in Block
    OBVIOUS
  <2>1. ASSUME i \in used .. used + Len(new) - 1 PROVE i - used + 1 \in 1 .. Len(new)
    BY <1>2, <2>1, Sizes
  <2>2. ifile.blocks[i] \in Block
    BY <1>1
  <2> QED
    BY <1>2, <2>1, <2>2
<1>4. WithBlocks(ifile, used, new) = [ifile EXCEPT !.blocks = blocks]
  BY <1>1 DEF WithBlocks
<1>5. \A i \in 0 .. INODE_NUM_BLKS - 1 :
         blocks[i] = IF i \in used .. used + Len(new) - 1
                     THEN new[i - used + 1] ELSE ifile.blocks[i]
  OBVIOUS
<1> HIDE DEF blocks
<1> QED
  BY <1>3, <1>4, <1>5 DEF InodeRecord

-----------------------------------------------------------------------------
(* The calls that change the file system: table and bitmaps.               *)

\* What fs_write, of a file with inode ifile, makes of it: it writes length bytes
\* at o, in blocks of which used were there before, req are asked for and new found.
Growth(f, ifile, o, length, used, needed, req, new, grown) ==
    /\ ifile.size \in Nat /\ o \in Nat /\ o <= ifile.size
    /\ used \in Nat /\ used = Used(inode_tab[f]) /\ used <= INODE_NUM_BLKS
    /\ req \in Nat /\ needed \in Nat /\ Max({needed, used}) = used + req
    /\ needed <= used + req
    /\ Max({o + length, ifile.size}) \in Nat
    /\ OFFSET_TO_BLOCKS(Max({o + length, ifile.size})) = used + req
    /\ Len(new) \in 0 .. req /\ ToSet(new) \subseteq FreeBlocks
    /\ \A i \in 1 .. Len(new) : new[i] \in ToSet(new)
    /\ \A i, j \in 1 .. Len(new) : new[i] = new[j] => i = j
    /\ grown \in InodeRecord /\ grown.type = "file" /\ grown.size = ifile.size
    /\ Agrees(grown, inode_tab[f])
    /\ \A k \in 0 .. used - 1 : grown.blocks[k] = inode_tab[f].blocks[k]
    /\ \A k \in 0 .. INODE_NUM_BLKS - 1 :
          k \in used .. used + Len(new) - 1 => grown.blocks[k] = new[k - used + 1]

LEMMA GrownIs ==
  ASSUME FsInvariant, NEW f \in Inode, SeenInode(f).type = "file",
         NEW offset \in Nat, NEW length \in Nat
  PROVE  LET ifile == SeenInode(f)
             o == Min({offset, ifile.size})
             used == OFFSET_TO_BLOCKS(ifile.size)
             needed == OFFSET_TO_BLOCKS(o + length)
             req == Max({needed, used}) - used
             new == NewBlocks(req)
             grown == WithBlocks(ifile, used, new)
         IN  Growth(f, ifile, o, length, used, needed, req, new, grown)
<1> DEFINE ifile == SeenInode(f)
           o == Min({offset, ifile.size})
           end == o + length
           used == OFFSET_TO_BLOCKS(ifile.size)
           needed == OFFSET_TO_BLOCKS(end)
           req == Max({needed, used}) - used
           new == NewBlocks(req)
           grown == WithBlocks(ifile, used, new)
<1>2. Agrees(ifile, inode_tab[f])
  BY SeenAgrees
<1>3. ifile \in InodeRecord /\ ifile.size \in Nat
  BY <1>2 DEF Agrees, InodeRecord
<1>4. end \in Nat /\ o \in Nat /\ o <= ifile.size
  BY <1>3, TwoNumbers
<1>5. used \in Nat
  BY <1>3, Sizes, PartsHold DEF OFFSET_TO_BLOCKS
<1>6. used = Used(inode_tab[f]) /\ used = Used(ifile) /\ used <= INODE_NUM_BLKS
  BY <1>2 DEF Agrees, Used, FsInvariant, TableOK
<1>19. end \in Nat /\ ifile.size \in Nat
  BY <1>3, <1>4
<1> HIDE DEF end, ifile, o
<1>7. /\ Max({end, ifile.size}) \in Nat
      /\ OFFSET_TO_BLOCKS(Max({end, ifile.size})) = Max({needed, used})
      /\ req \in Nat
  <2> DEFINE a == ifile.size
             p == Parts(end, BLOCK_SIZE)
             q == Parts(a, BLOCK_SIZE)
  <2>1. a \in Nat /\ end \in Nat /\ BLOCK_SIZE \in Nat \ {0}
    BY <1>19, Sizes
  <2>2. needed = p /\ used = q /\ req = Max({p, q}) - q
    BY DEF OFFSET_TO_BLOCKS
  <2>4. OFFSET_TO_BLOCKS(Max({end, a})) = Parts(Max({end, a}), BLOCK_SIZE)
    BY DEF OFFSET_TO_BLOCKS
  <2> HIDE DEF a, used, needed, req
  <2>3. /\ Max({end, a}) \in Nat
        /\ Max({p, q}) = Parts(Max({end, a}), BLOCK_SIZE)
        /\ Max({p, q}) - q \in Nat
    BY <2>1, MaxOfParts
  <2> HIDE DEF p, q
  <2> QED
    BY <2>2, <2>3, <2>4 DEF a
<1>9. req \in Nat /\ Max({needed, used}) = used + req /\ needed \in Nat
      /\ needed <= used + req
  <2>1. Max({needed, used}) \in Nat /\ needed \in Nat
    BY <1>4, <1>7, Sizes, PartsHold DEF OFFSET_TO_BLOCKS
  <2> HIDE DEF used, needed
  <2>2. needed <= Max({needed, used})
    BY <1>5, <2>1, TwoNumbers
  <2> QED
    BY <1>5, <1>7, <2>1, <2>2
<1> HIDE DEF used, needed, req
<1>10. /\ new \in Seq(FreeBlocks) /\ Len(new) \in 0 .. req
       /\ \A i, j \in 1 .. Len(new) : new[i] = new[j] => i = j
  BY <1>9, FreeAre
<1>11. new \in Seq(Block) /\ ToSet(new) \subseteq FreeBlocks /\ Len(new) \in Nat
       /\ \A i \in 1 .. Len(new) : new[i] \in ToSet(new)
  <2>1. FreeBlocks \subseteq Block
    BY DEF FreeBlocks
  <2>2. Len(new) \in Nat /\ DOMAIN new = 1 .. Len(new)
    BY <1>10, LenProperties
  <2>3. \A i \in 1 .. Len(new) : new[i] \in FreeBlocks
    BY <1>10, ElementOfSeq
  <2>4. new \in Seq(Block)
    BY <1>10, <2>1, SeqDef
  <2> HIDE DEF new
  <2> QED
    BY <2>2, <2>3, <2>4 DEF ToSet
<1> HIDE DEF new
<1>12. /\ grown \in InodeRecord /\ grown.type = ifile.type /\ grown.size = ifile.size
       /\ \A i \in 0 .. INODE_NUM_BLKS - 1 :
             grown.blocks[i] = IF i \in used .. used + Len(new) - 1
                               THEN new[i - used + 1] ELSE ifile.blocks[i]
  BY <1>3, <1>5, <1>11, WithBlocksIs
<1> HIDE DEF grown
<1>14. \A k \in 0 .. used - 1 : grown.blocks[k] = inode_tab[f].blocks[k]
  BY <1>2, <1>5, <1>6, <1>11, <1>12, Sizes DEF Agrees
<1>15. Agrees(grown, inode_tab[f])
  BY <1>2, <1>6, <1>12, <1>14 DEF Agrees
<1>16. ifile.type = "file"
  BY DEF ifile
<1>17. /\ ifile.size \in Nat /\ o \in Nat /\ o <= ifile.size
       /\ used \in Nat /\ used = Used(inode_tab[f]) /\ used <= INODE_NUM_BLKS
       /\ req \in Nat /\ needed \in Nat /\ Max({needed, used}) = used + req
       /\ needed <= used + req
       /\ Max({end, ifile.size}) \in Nat
       /\ OFFSET_TO_BLOCKS(Max({end, ifile.size})) = used + req
  BY <1>3, <1>4, <1>5, <1>6, <1>7, <1>9
<1>18. /\ Len(new) \in 0 .. req /\ ToSet(new) \subseteq FreeBlocks
       /\ \A i \in 1 .. Len(new) : new[i] \in ToSet(new)
       /\ \A i, j \in 1 .. Len(new) : new[i] = new[j] => i = j
       /\ grown \in InodeRecord /\ grown.type = "file" /\ grown.size = ifile.size
       /\ Agrees(grown, inode_tab[f])
       /\ \A k \in 0 .. used - 1 : grown.blocks[k] = inode_tab[f].blocks[k]
       /\ \A k \in 0 .. INODE_NUM_BLKS - 1 :
             k \in used .. used + Len(new) - 1 =>
                grown.blocks[k] = new[k - used + 1]
  BY <1>10, <1>11, <1>12, <1>14, <1>15, <1>16
<1>20. Growth(f, ifile, o, length, used, needed, req, new, grown)
  BY <1>17, <1>18 DEF Growth, end
<1> QED
  BY <1>20 DEF grown, new, req, needed, used, end, ifile, o

\* fs_write, whether or not it finds all the blocks it asks for.
LEMMA WriteKeeps ==
  ASSUME FsInvariant, NEW f \in Inode, NEW offset \in Nat, NEW T, NEW data \in Seq(T),
         Write(f, offset, data)
  PROVE  FsInvariant'
<1> DEFINE ifile == SeenInode(f)
           length == Len(data)
           o == Min({offset, ifile.size})
           end == o + length
           used == OFFSET_TO_BLOCKS(ifile.size)
           needed == OFFSET_TO_BLOCKS(o + length)
           req == Max({needed, used}) - used
           new == NewBlocks(req)
           grown == WithBlocks(ifile, used, new)
           written == [grown EXCEPT !.size = Max({end, @})]
<1>1. /\ ifile.type = "file" /\ used + req <= INODE_NUM_BLKS
      /\ blk_bmap' = blk_bmap \cup ToSet(new) /\ inode_bmap' = inode_bmap
      /\ \/ icache' = CacheInode(f, grown) /\ inode_tab' = inode_tab
         \/ /\ ~(Len(new) < req)
            /\ icache' = CacheInode(f, written)
            /\ inode_tab' = [inode_tab EXCEPT ![f] = written]
  BY DEF Write
<1>2. length \in Nat
  BY LenProperties
<1>3. Growth(f, ifile, o, length, used, needed, req, new, grown)
  BY <1>1, <1>2, GrownIs
<1> HIDE DEF ifile, o, used, needed, req, new, grown
<1>4. /\ ifile.size \in Nat /\ o \in Nat /\ used \in Nat /\ req \in Nat
      /\ used = Used(inode_tab[f]) /\ used <= INODE_NUM_BLKS
      /\ Max({end, ifile.size}) \in Nat
      /\ OFFSET_TO_BLOCKS(Max({end, ifile.size})) = used + req
  BY <1>3 DEF Growth
<1>5. /\ Len(new) \in 0 .. req /\ ToSet(new) \subseteq FreeBlocks
      /\ \A i \in 1 .. Len(new) : new[i] \in ToSet(new)
      /\ \A i, j \in 1 .. Len(new) : new[i] = new[j] => i = j
  BY <1>3 DEF Growth
<1>6. /\ grown \in InodeRecord /\ grown.type = "file" /\ grown.size = ifile.size
      /\ Agrees(grown, inode_tab[f])
      /\ \A k \in 0 .. used - 1 : grown.blocks[k] = inode_tab[f].blocks[k]
      /\ \A k \in 0 .. INODE_NUM_BLKS - 1 :
            k \in used .. used + Len(new) - 1 =>
               grown.blocks[k] = new[k - used + 1]
  BY <1>3 DEF Growth
<1> HIDE DEF end
<1>7. TableOK(inode_tab) /\ Apart(inode_tab, blk_bmap) /\ CacheOK(icache, inode_tab)
      /\ BitmapsOK(inode_tab, inode_bmap, blk_bmap)
  BY DEF FsInvariant
<1>8. blk_bmap' \subseteq Block /\ 0 .. RESERVED - 1 \subseteq blk_bmap
      /\ blk_bmap \subseteq blk_bmap'
  BY <1>1, <1>5, <1>7 DEF BitmapsOK, FreeBlocks
<1>9. CASE icache' = CacheInode(f, grown) /\ inode_tab' = inode_tab
  <2>1. CacheOK(icache', inode_tab)
    BY <1>6, <1>7, <1>9, CacheInodeKeeps
  <2>2. Apart(inode_tab, blk_bmap')
    BY <1>7, <1>8 DEF Apart
  <2>3. BitmapsOK(inode_tab, inode_bmap', blk_bmap')
    BY <1>1, <1>7, <1>8 DEF BitmapsOK
  <2> QED
    BY <1>7, <1>9, <2>1, <2>2, <2>3 DEF FsInvariant
<1>10. CASE /\ ~(Len(new) < req)
            /\ icache' = CacheInode(f, written)
            /\ inode_tab' = [inode_tab EXCEPT ![f] = written]
  <2>1. /\ written \in InodeRecord /\ written.type = "file"
        /\ written.size = Max({end, ifile.size})
        /\ written.blocks = grown.blocks
    BY <1>4, <1>6 DEF InodeRecord, written
  <2>2. Used(written) = used + req
    BY <1>4, <2>1 DEF Used
  <2> HIDE DEF written
  <2>0. PICK tab : tab = [inode_tab EXCEPT ![f] = written]
    OBVIOUS
  <2>3. /\ tab[f] = written /\ tab \in [Inode -> InodeRecord]
        /\ \A i \in Inode \ {f} : tab[i] = inode_tab[i]
    BY <1>7, <2>0, <2>1 DEF TableOK
  <2>4. TableOK(tab)
    BY <1>1, <1>7, <2>2, <2>3 DEF TableOK
  <2>5. Agrees(written, tab[f])
    BY <2>1, <2>3 DEF Agrees
  <2>6. CacheOK(icache', tab)
    BY <1>7, <1>10, <2>3, <2>5, CacheInodeKeeps
  <2>7. Len(new) = req
    BY <1>4, <1>5, <1>10
  <2>8. \A k \in used .. used + req - 1 :
           /\ k - used + 1 \in 1 .. Len(new)
           /\ written.blocks[k] = new[k - used + 1]
    BY <1>1, <1>4, <1>6, <2>1, <2>7, Sizes
  <2>9. \A k \in used .. used + req - 1 : written.blocks[k] \in blk_bmap' \ blk_bmap
    BY <1>1, <1>5, <2>8 DEF FreeBlocks
  <2>10. \A k, l \in used .. used + req - 1 :
            written.blocks[k] = written.blocks[l] => k = l
    <3> SUFFICES ASSUME NEW k \in used .. used + req - 1, NEW l \in used .. used + req - 1,
                        written.blocks[k] = written.blocks[l]
                 PROVE  k = l
      OBVIOUS
    <3>1. k - used + 1 = l - used + 1
      BY <1>5, <2>8
    <3> QED
      BY <1>4, <3>1
  <2>11. Apart(tab, blk_bmap')
    <3>1. Used(tab[f]) = used + req /\ Used(inode_tab[f]) = used
      BY <1>4, <2>2, <2>3
    <3>2. \A k \in 0 .. Used(inode_tab[f]) - 1 :
             tab[f].blocks[k] = inode_tab[f].blocks[k]
      BY <1>6, <2>1, <2>3, <3>1
    <3>3. \A i \in Inode \ {f} : tab[i] = inode_tab[i] \/ Used(tab[i]) = 0
      BY <2>3
    <3>4. \A k \in Used(inode_tab[f]) .. Used(tab[f]) - 1 :
             tab[f].blocks[k] \in blk_bmap' \ blk_bmap
      <4>1. ASSUME NEW k \in Used(inode_tab[f]) .. Used(tab[f]) - 1
            PROVE  written.blocks[k] \in blk_bmap' \ blk_bmap
        <5>1. k \in used .. used + req - 1
          BY <1>4, <3>1
        <5> QED
          BY <2>9, <5>1
      <4> QED
        BY <2>3, <4>1
    <3>6. \A k, l \in Used(inode_tab[f]) .. Used(tab[f]) - 1 :
             tab[f].blocks[k] = tab[f].blocks[l] => k = l
      <4>1. ASSUME NEW k \in Used(inode_tab[f]) .. Used(tab[f]) - 1,
                   NEW l \in Used(inode_tab[f]) .. Used(tab[f]) - 1
            PROVE  written.blocks[k] = written.blocks[l] => k = l
        <5>1. k \in used .. used + req - 1 /\ l \in used .. used + req - 1
          BY <1>4, <3>1
        <5> QED
          BY <2>10, <5>1
      <4> QED
        BY <2>3, <4>1
    <3>5. Grows(f, inode_tab, blk_bmap, tab, blk_bmap')
      BY <1>8, <3>2, <3>3, <3>4, <3>6 DEF Grows
    <3> QED
      BY <1>7, <1>8, <2>4, <3>5, GrowthKeepsApart
  <2>12. BitmapsOK(tab, inode_bmap', blk_bmap')
    <3>1. \A i \in Inode : tab[i].type = "dir" => tab[i] = inode_tab[i]
      BY <2>1, <2>3
    <3> QED
      BY <1>1, <1>7, <1>8, <3>1 DEF BitmapsOK
  <2> QED
    BY <1>10, <2>0, <2>4, <2>6, <2>11, <2>12 DEF FsInvariant
<1> QED
  BY <1>1, <1>9, <1>10

\* A directory that gets one more entry, while there are inodes, has room for it.
LEMMA RoomForEntry ==
  ASSUME FsInvariant, NEW d \in Inode, inode_tab[d].type = "dir", FreeInodes # {}
  PROVE  /\ (inode_tab[d].size \div DIR_PAGE_ENTRIES) \in 0 .. INODE_NUM_BLKS - 1
         /\ inode_tab[d].size + 2 <= Cardinality(inode_bmap)
         /\ IsFiniteSet(inode_bmap) /\ Cardinality(inode_bmap) \in Nat
<1> DEFINE size == inode_tab[d].size
<1>1. /\ size \in Nat /\ size + 2 <= Cardinality(inode_bmap)
      /\ inode_bmap \subseteq Inode \cup {0, ROOT}
  BY DEF FsInvariant, TableOK, InodeRecord, BitmapsOK
<1> HIDE DEF size
<1>2. PICK x \in Inode : x \notin inode_bmap
  BY DEF FreeInodes
<1>3. inode_bmap \subseteq (0 .. ITAB_SIZE - 1) \ {x} /\ x \in 0 .. ITAB_SIZE - 1
  <2>1. ITAB_SIZE - 1 >= 1
    BY <1>2, Sizes DEF Inode
  <2> QED
    BY <1>1, <1>2, <2>1, Sizes DEF Inode, ROOT
<1>4. IsFiniteSet(0 .. ITAB_SIZE - 1) /\ Cardinality(0 .. ITAB_SIZE - 1) = ITAB_SIZE
  BY Sizes, FS_Interval
<1>5. /\ IsFiniteSet((0 .. ITAB_SIZE - 1) \ {x})
      /\ Cardinality((0 .. ITAB_SIZE - 1) \ {x}) = ITAB_SIZE - 1
  BY <1>3, <1>4, FS_RemoveElement
<1>6. /\ IsFiniteSet(inode_bmap) /\ Cardinality(inode_bmap) \in Nat
      /\ Cardinality(inode_bmap) <= ITAB_SIZE - 1
  <2>1. inode_bmap \subseteq (0 .. ITAB_SIZE - 1) \ {x}
    BY <1>3
  <2>2. /\ IsFiniteSet(inode_bmap)
        /\ Cardinality(inode_bmap) <= Cardinality((0 .. ITAB_SIZE - 1) \ {x})
    BY <1>5, <2>1, FS_Subset
  <2> QED
    BY <1>5, <2>2, FS_CardinalityType
<1>7. size < INODE_NUM_BLKS * DIR_PAGE_ENTRIES
  <2>1. INODE_NUM_BLKS * DIR_PAGE_ENTRIES \in Nat
    BY Sizes, ProductGrows
  <2> QED
    BY <1>1, <1>6, <2>1, Sizes
<1>8. (size \div DIR_PAGE_ENTRIES) \in Nat /\ (size \div DIR_PAGE_ENTRIES) < INODE_NUM_BLKS
  BY <1>1, <1>7, Sizes, PartsNext
<1> QED
  BY <1>1, <1>6, <1>8, Sizes DEF size

NextEntry(old, page, new) ==
    [old EXCEPT !.size = @ + 1, !.blocks[page] = IF new = {} THEN @ ELSE Min(new)]

LEMMA NextEntryIs ==
  ASSUME NEW old \in InodeRecord, NEW page \in 0 .. INODE_NUM_BLKS - 1, NEW new,
         (IF new = {} THEN old.blocks[page] ELSE Min(new)) \in Block
  PROVE  LET block == IF new = {} THEN old.blocks[page] ELSE Min(new)
             idir == NextEntry(old, page, new)
         IN  /\ idir \in InodeRecord
             /\ idir.size = old.size + 1 /\ idir.type = old.type
             /\ \A k \in 0 .. INODE_NUM_BLKS - 1 :
                   idir.blocks[k] = IF k = page THEN block ELSE old.blocks[k]
<1> DEFINE block == IF new = {} THEN old.blocks[page] ELSE Min(new)
           blocks == [old.blocks EXCEPT ![page] = block]
<1>1. /\ old.blocks \in [0 .. INODE_NUM_BLKS - 1 -> Block]
      /\ old.size \in Nat
  BY DEF InodeRecord
<1>2. NextEntry(old, page, new) = [old EXCEPT !.size = old.size + 1, !.blocks = blocks]
  BY DEF InodeRecord, NextEntry
<1>3. /\ blocks \in [0 .. INODE_NUM_BLKS - 1 -> Block]
      /\ \A k \in 0 .. INODE_NUM_BLKS - 1 :
            blocks[k] = IF k = page THEN block ELSE old.blocks[k]
  BY <1>1
<1> HIDE DEF block, blocks
<1> DEFINE Size == Nat
           Blocks == [0 .. INODE_NUM_BLKS - 1 -> Block]
           Type == {"none", "dir", "file"}
           size == old.size + 1
<1>4. size \in Size /\ blocks \in Blocks /\ old \in [type : Type, size : Size, blocks : Blocks]
  BY <1>1, <1>3 DEF InodeRecord
<1>5. NextEntry(old, page, new) = [old EXCEPT !.size = size, !.blocks = blocks]
  BY <1>2
<1> HIDE DEF Size, Blocks, Type, size
<1>6. /\ NextEntry(old, page, new) \in [type : Type, size : Size, blocks : Blocks]
      /\ NextEntry(old, page, new).size = size
      /\ NextEntry(old, page, new).blocks = blocks
      /\ NextEntry(old, page, new).type = old.type
  BY <1>4, <1>5
<1>7. NextEntry(old, page, new) \in InodeRecord
  BY <1>6 DEF InodeRecord, Size, Blocks, Type
<1> QED
  BY <1>3, <1>6, <1>7 DEF block, size

\* What fs_create makes of directory d, with inode old, and of the table: the entry
\* goes in block, the one of the given page, which is new if new is not empty.
Made(d, type, old, finode, page, new, block, idir, tab2) ==
    /\ finode \in Inode /\ finode \notin inode_bmap /\ finode # d
    /\ old \in InodeRecord /\ old.size \in Nat /\ old.size = inode_tab[d].size
    /\ inode_tab[d].type = "dir" /\ Agrees(old, inode_tab[d])
    /\ old.size + 2 <= Cardinality(inode_bmap)
    /\ IsFiniteSet(inode_bmap) /\ Cardinality(inode_bmap) \in Nat
    /\ page = old.size \div DIR_PAGE_ENTRIES /\ page \in 0 .. INODE_NUM_BLKS - 1
    /\ new \subseteq FreeBlocks /\ (new # {} => Min(new) \in new)
    /\ new = {} <=> old.size % DIR_PAGE_ENTRIES # 0
    /\ block = IF new = {} THEN old.blocks[page] ELSE Min(new)
    /\ block \in Block
    /\ Used(inode_tab[d]) = IF new = {} THEN page + 1 ELSE page
    /\ idir \in InodeRecord /\ idir.size = old.size + 1 /\ idir.type = "dir"
    /\ \A k \in 0 .. INODE_NUM_BLKS - 1 :
          idir.blocks[k] = IF k = page THEN block ELSE old.blocks[k]
    /\ Used(idir) = page + 1
    /\ NewInode(type) \in InodeRecord /\ NewInode(type).size = 0
    /\ Used(NewInode(type)) = 0
    /\ tab2[d] = idir /\ tab2[finode] = NewInode(type)
    /\ \A i \in Inode \ {d, finode} : tab2[i] = inode_tab[i]
    /\ tab2 \in [Inode -> InodeRecord]

LEMMA MadeIs ==
  ASSUME FsInvariant, NEW d \in Inode, NEW n, NEW type \in {"dir", "file"},
         SeenInode(d).type = "dir", ~Refuse(d, n), d \in inode_bmap
  PROVE  LET old == SeenInode(d)
             finode == Min(FreeInodes)
             page == old.size \div DIR_PAGE_ENTRIES
             new == DirBlocks(old)
             block == IF new = {} THEN old.blocks[page] ELSE Min(new)
             idir == NextEntry(old, page, new)
             tab2 == [inode_tab EXCEPT ![d] = idir, ![finode] = NewInode(type)]
         IN  Made(d, type, old, finode, page, new, block, idir, tab2)
<1> DEFINE old == SeenInode(d)
           finode == Min(FreeInodes)
           page == old.size \div DIR_PAGE_ENTRIES
           new == DirBlocks(old)
           block == IF new = {} THEN old.blocks[page] ELSE Min(new)
           idir == NextEntry(old, page, new)
           tab2 == [inode_tab EXCEPT ![d] = idir, ![finode] = NewInode(type)]
<1>1. d \in inode_bmap /\ old.type = "dir" /\ ~Refuse(d, n)
  OBVIOUS
<1>2. Agrees(old, inode_tab[d])
  BY SeenAgrees
<1>3. /\ old \in InodeRecord /\ old.size \in Nat /\ inode_tab[d].size = old.size
      /\ old.blocks \in [0 .. INODE_NUM_BLKS - 1 -> Block]
      /\ inode_tab[d].type = "dir"
  BY <1>1, <1>2 DEF Agrees, InodeRecord
<1>4. FreeInodes # {} /\ (old.size % DIR_PAGE_ENTRIES = 0 => FreeBlocks # {})
  BY <1>1 DEF Refuse
<1>5. /\ page \in 0 .. INODE_NUM_BLKS - 1
      /\ old.size + 2 <= Cardinality(inode_bmap)
      /\ IsFiniteSet(inode_bmap) /\ Cardinality(inode_bmap) \in Nat
  BY <1>3, <1>4, RoomForEntry
<1>6. finode \in Inode /\ finode \notin inode_bmap /\ finode # d
  <2>1. FreeInodes \subseteq 0 .. ITAB_SIZE
    BY Sizes DEF FreeInodes, Inode
  <2>2. finode \in FreeInodes
    BY <1>4, <2>1, Sizes, Extremes
  <2> QED
    BY <1>1, <2>2 DEF FreeInodes
<1>7. /\ new \subseteq FreeBlocks /\ (new # {} => Min(new) \in new)
      /\ new = {} <=> old.size % DIR_PAGE_ENTRIES # 0
  <2>1. CASE old.size % DIR_PAGE_ENTRIES = 0
    <3>1. FreeBlocks \subseteq 0 .. NUM_BLOCKS
      BY Sizes DEF FreeBlocks, Block
    <3>2. Min(FreeBlocks) \in FreeBlocks
      BY <1>4, <2>1, <3>1, Sizes, Extremes
    <3>3. new = {Min(FreeBlocks)}
      BY <2>1 DEF DirBlocks
    <3>4. new \subseteq 0 .. NUM_BLOCKS /\ new # {} /\ new \subseteq FreeBlocks
      BY <3>1, <3>2, <3>3
    <3> HIDE DEF new
    <3>5. Min(new) \in new
      BY <3>4, Sizes, Extremes
    <3> QED
      BY <2>1, <3>4, <3>5
  <2>2. CASE old.size % DIR_PAGE_ENTRIES # 0
    BY <2>2 DEF DirBlocks
  <2> QED
    BY <2>1, <2>2
<1>8. Used(inode_tab[d]) = IF new = {} THEN page + 1 ELSE page
  <2>1. Used(inode_tab[d]) = Parts(old.size, DIR_PAGE_ENTRIES)
    BY <1>3 DEF Used, Pages
  <2> QED
    BY <1>3, <1>7, <2>1, Sizes, PartsNext
<1>9. Parts(old.size + 1, DIR_PAGE_ENTRIES) = page + 1
  BY <1>3, Sizes, PartsNext
<1> HIDE DEF finode, page, new
<1>10. block \in Block
  BY <1>3, <1>5, <1>7 DEF FreeBlocks
<1>11. /\ idir \in InodeRecord /\ idir.size = old.size + 1 /\ idir.type = "dir"
       /\ \A k \in 0 .. INODE_NUM_BLKS - 1 :
             idir.blocks[k] = IF k = page THEN block ELSE old.blocks[k]
  <2> HIDE DEF old
  <2>1. old \in InodeRecord /\ old.type = "dir" /\ page \in 0 .. INODE_NUM_BLKS - 1
    BY <1>1, <1>3, <1>5
  <2> QED
    BY <1>10, <2>1, NextEntryIs
<1> HIDE DEF idir, old
<1>12. Used(idir) = page + 1
  BY <1>9, <1>11 DEF Used, Pages
<1>13. /\ NewInode(type) \in InodeRecord /\ NewInode(type).size = 0
       /\ Used(NewInode(type)) = 0
  <2>1. /\ NewInode(type).type = type /\ NewInode(type).size = 0
        /\ NewInode(type) \in InodeRecord
    BY Sizes DEF NewInode, InodeRecord, Block
  <2>2. Parts(0, DIR_PAGE_ENTRIES) = 0 /\ Parts(0, BLOCK_SIZE) = 0
    BY Sizes, PartsHold, PartsFew
  <2> QED
    BY <2>1, <2>2 DEF Used, Pages, OFFSET_TO_BLOCKS
<1>14. TableOK(inode_tab) /\ Apart(inode_tab, blk_bmap) /\ CacheOK(icache, inode_tab)
       /\ BitmapsOK(inode_tab, inode_bmap, blk_bmap)
  BY DEF FsInvariant
<1>15. /\ tab2[d] = idir /\ tab2[finode] = NewInode(type)
       /\ \A i \in Inode \ {d, finode} : tab2[i] = inode_tab[i]
       /\ tab2 \in [Inode -> InodeRecord]
  BY <1>6, <1>11, <1>13, <1>14 DEF TableOK
<1> HIDE DEF tab2
<1>16. block = (IF new = {} THEN old.blocks[page] ELSE Min(new))
       /\ page = old.size \div DIR_PAGE_ENTRIES
  BY DEF page
<1> HIDE DEF block
<1>17. Made(d, type, old, finode, page, new, block, idir, tab2)
  BY <1>2, <1>3, <1>5, <1>6, <1>7, <1>8, <1>10, <1>11, <1>12, <1>13, <1>15, <1>16
     DEF Made
<1> QED
  BY <1>17 DEF tab2, idir, block, new, page, finode, old

\* The blocks that the directory had stay where they were.
LEMMA BlocksStay ==
  ASSUME NEW d \in Inode, NEW type, NEW old, NEW finode, NEW page, NEW new, NEW block,
         NEW idir, NEW tab2, Made(d, type, old, finode, page, new, block, idir, tab2)
  PROVE  \A k \in 0 .. Used(inode_tab[d]) - 1 : idir.blocks[k] = inode_tab[d].blocks[k]
<1>1. /\ page \in 0 .. INODE_NUM_BLKS - 1 /\ page \in Nat
      /\ Used(inode_tab[d]) = IF new = {} THEN page + 1 ELSE page
      /\ block = IF new = {} THEN old.blocks[page] ELSE Min(new)
      /\ \A k \in 0 .. INODE_NUM_BLKS - 1 :
            idir.blocks[k] = IF k = page THEN block ELSE old.blocks[k]
      /\ Agrees(old, inode_tab[d])
  BY Sizes DEF Made
<1> SUFFICES ASSUME NEW k \in 0 .. Used(inode_tab[d]) - 1
             PROVE  idir.blocks[k] = inode_tab[d].blocks[k]
  OBVIOUS
<1>2. old.blocks[k] = inode_tab[d].blocks[k]
  BY <1>1 DEF Agrees
<1>3. k \in 0 .. INODE_NUM_BLKS - 1 /\ (k = page => new = {})
  BY <1>1, Sizes
<1> QED
  BY <1>1, <1>2, <1>3

\* fs_create and fs_mkdir.
LEMMA MakeKeeps ==
  ASSUME FsInvariant, NEW d \in Inode, NEW n, NEW type \in {"dir", "file"},
         Make(d, n, type)
  PROVE  FsInvariant'
<1> DEFINE old == SeenInode(d)
           finode == Min(FreeInodes)
           page == old.size \div DIR_PAGE_ENTRIES
           new == DirBlocks(old)
           block == IF new = {} THEN old.blocks[page] ELSE Min(new)
           idir == NextEntry(old, page, new)
           tab1 == [inode_tab EXCEPT ![d] = idir]
           tab2 == [inode_tab EXCEPT ![d] = idir, ![finode] = NewInode(type)]
<1>1. /\ d \in inode_bmap /\ old.type = "dir" /\ ~Refuse(d, n)
      /\ blk_bmap' = blk_bmap \cup new /\ inode_bmap' = inode_bmap \cup {finode}
      /\ inode_tab' = tab2
      /\ icache' = Without(CacheInode(d, idir), finode)
  BY DEF Make, CallOn, Mark, NextEntry
<1>2. Made(d, type, old, finode, page, new, block, idir, tab2)
  BY <1>1, MadeIs
<1> HIDE DEF tab2, idir, block, new, page, finode, old
<1>3. /\ finode \in Inode /\ finode \notin inode_bmap /\ finode # d
      /\ old.size \in Nat /\ old.size = inode_tab[d].size
      /\ old.size + 2 <= Cardinality(inode_bmap)
      /\ IsFiniteSet(inode_bmap) /\ Cardinality(inode_bmap) \in Nat
  BY <1>2 DEF Made
<1>4. /\ page \in 0 .. INODE_NUM_BLKS - 1
      /\ new \subseteq FreeBlocks /\ (new # {} => Min(new) \in new)
      /\ block = IF new = {} THEN old.blocks[page] ELSE Min(new)
      /\ Used(inode_tab[d]) = IF new = {} THEN page + 1 ELSE page
      /\ Used(idir) = page + 1 /\ idir.blocks[page] = block
  BY <1>2 DEF Made
<1>5. /\ idir \in InodeRecord /\ idir.size = old.size + 1 /\ idir.type = "dir"
      /\ NewInode(type) \in InodeRecord /\ NewInode(type).size = 0
      /\ Used(NewInode(type)) = 0
      /\ tab2[d] = idir /\ tab2[finode] = NewInode(type)
      /\ \A i \in Inode \ {d, finode} : tab2[i] = inode_tab[i]
      /\ tab2 \in [Inode -> InodeRecord]
  BY <1>2 DEF Made
<1>6. TableOK(inode_tab) /\ Apart(inode_tab, blk_bmap) /\ CacheOK(icache, inode_tab)
      /\ BitmapsOK(inode_tab, inode_bmap, blk_bmap)
  BY DEF FsInvariant
<1>7. /\ tab1[d] = idir /\ \A i \in Inode \ {d} : tab1[i] = inode_tab[i]
      /\ \A i \in Inode \ {finode} : tab2[i] = tab1[i]
  BY <1>5, <1>6 DEF TableOK
<1> HIDE DEF tab1
<1>8. TableOK(tab2)
  BY <1>4, <1>5, <1>6, Sizes DEF TableOK
<1>9. CacheOK(icache', tab2)
  <2>1. Agrees(idir, tab1[d])
    BY <1>5, <1>7 DEF Agrees
  <2>2. CacheOK(CacheInode(d, idir), tab1)
    BY <1>6, <1>7, <2>1, CacheInodeKeeps
  <2> QED
    BY <1>1, <1>7, <2>2, CacheWithout
<1>10. Apart(tab2, blk_bmap')
  <2>1. blk_bmap \subseteq blk_bmap'
    BY <1>1
  <2>2. \A i \in Inode \ {d} : tab2[i] = inode_tab[i] \/ Used(tab2[i]) = 0
    BY <1>5
  <2>3. \A k \in 0 .. Used(inode_tab[d]) - 1 : tab2[d].blocks[k] = inode_tab[d].blocks[k]
    BY <1>2, <1>5, BlocksStay
  <2>4. ASSUME NEW k \in Used(inode_tab[d]) .. Used(tab2[d]) - 1
        PROVE  k = page /\ tab2[d].blocks[k] \in blk_bmap' \ blk_bmap
    <3>1. k = page /\ new # {}
      BY <1>4, <1>5, Sizes
    <3> QED
      BY <1>1, <1>4, <1>5, <3>1 DEF FreeBlocks
  <2>5. Grows(d, inode_tab, blk_bmap, tab2, blk_bmap')
    BY <2>1, <2>2, <2>3, <2>4 DEF Grows
  <2>6. 0 .. RESERVED - 1 \subseteq blk_bmap
    BY <1>6 DEF BitmapsOK
  <2> QED
    BY <1>6, <1>8, <2>5, <2>6, GrowthKeepsApart
<1>11. BitmapsOK(tab2, inode_bmap', blk_bmap')
  <2>1. Cardinality(inode_bmap') = Cardinality(inode_bmap) + 1
    BY <1>1, <1>3, FS_AddElement
  <2>2. {0, ROOT} \subseteq inode_bmap
    BY <1>6 DEF BitmapsOK
  <2>3. 2 <= Cardinality(inode_bmap)
    BY <1>3
  <2>4. ASSUME NEW i \in Inode, tab2[i].type = "dir"
        PROVE  tab2[i].size + 2 <= Cardinality(inode_bmap')
    <3>1. CASE i = d
      BY <1>3, <1>5, <2>1, <3>1
    <3>2. CASE i = finode
      BY <1>3, <1>5, <2>1, <2>3, <3>2
    <3>3. CASE i # d /\ i # finode
      <4>1. tab2[i] = inode_tab[i] /\ inode_tab[i].size \in Nat
        BY <1>5, <1>6, <3>3 DEF TableOK, InodeRecord
      <4>2. inode_tab[i].size + 2 <= Cardinality(inode_bmap)
        BY <1>6, <2>4, <4>1 DEF BitmapsOK
      <4> QED
        BY <1>3, <2>1, <4>1, <4>2
    <3> QED
      BY <3>1, <3>2, <3>3
  <2>5. /\ inode_bmap' \subseteq Inode \cup {0, ROOT} /\ {0, ROOT} \subseteq inode_bmap'
        /\ 0 .. RESERVED - 1 \subseteq blk_bmap' /\ blk_bmap' \subseteq Block
    BY <1>1, <1>3, <1>4, <1>6 DEF BitmapsOK, FreeBlocks
  <2> QED
    BY <2>4, <2>5 DEF BitmapsOK
<1> QED
  BY <1>1, <1>8, <1>9, <1>10, <1>11 DEF FsInvariant

-----------------------------------------------------------------------------
(* More about caches.                                                      *)

LEMMA ElementsAre ==
  ASSUME NEW c, IsCache(c)
  PROVE  /\ Len(c) \in Nat /\ DOMAIN c = 1 .. Len(c)
         /\ \A x : x \in ToSet(c) <=> \E i \in DOMAIN c : c[i] = x
<1>1. c \in Seq(ToSet(c))
  BY DEF IsCache
<1>2. Len(c) \in Nat /\ DOMAIN c = 1 .. Len(c)
  BY <1>1, LenProperties
<1> QED
  BY <1>2 DEF ToSet

\* Another entry of a cache stays when one is removed.
LEMMA DropLeaves ==
  ASSUME NEW c, IsCache(c), NEW i \in DOMAIN c
  PROVE  /\ Len(RemoveAt(c, i)) = Len(c) - 1
         /\ \A x \in ToSet(c) : x # c[i] => x \in ToSet(RemoveAt(c, i))
<1> DEFINE r == RemoveAt(c, i)
<1>1. c \in Seq(ToSet(c)) /\ Len(c) \in Nat /\ DOMAIN c = 1 .. Len(c)
  BY LenProperties DEF IsCache
<1>2. i \in 1 .. Len(c)
  BY <1>1
<1>3. /\ r \in Seq(ToSet(c)) /\ Len(r) = Len(c) - 1
      /\ \A j \in 1 .. Len(c) - 1 : r[j] = IF j < i THEN c[j] ELSE c[j + 1]
  BY <1>1, <1>2, RemoveAtIs
<1> HIDE DEF r
<1>4. DOMAIN r = 1 .. Len(c) - 1
  BY <1>1, <1>3, LenProperties
<1>5. ASSUME NEW j \in DOMAIN c, j # i PROVE \E k \in DOMAIN r : r[k] = c[j]
  <2>1. CASE j < i
    <3>1. j \in 1 .. Len(c) - 1
      BY <1>1, <1>2, <2>1
    <3> QED
      BY <1>3, <1>4, <2>1, <3>1
  <2>2. CASE ~(j < i)
    <3>1. /\ j - 1 \in 1 .. Len(c) - 1 /\ ~(j - 1 < i) /\ (j - 1) + 1 = j
      BY <1>1, <1>2, <1>5, <2>2
    <3> QED
      BY <1>3, <1>4, <3>1
  <2> QED
    BY <2>1, <2>2
<1>6. ASSUME NEW x \in ToSet(c), x # c[i] PROVE x \in ToSet(r)
  <2>1. PICK j \in DOMAIN c : c[j] = x
    BY DEF ToSet
  <2>2. j # i
    BY <1>6, <2>1
  <2>3. PICK k \in DOMAIN r : r[k] = x
    BY <1>5, <2>1, <2>2
  <2> QED
    BY <2>3 DEF ToSet
<1> QED
  BY <1>3, <1>6 DEF r

LEMMA WithoutLeaves ==
  ASSUME NEW c, IsCache(c), NEW key
  PROVE  /\ Len(Without(c, key)) = IF Cached(c, key) THEN Len(c) - 1 ELSE Len(c)
         /\ \A x \in ToSet(c) : x.key # key => x \in ToSet(Without(c, key))
<1>1. CASE Cached(c, key)
  <2>1. Place(c, key) \in DOMAIN c /\ c[Place(c, key)].key = key
    BY <1>1, LookupIs
  <2>2. Without(c, key) = RemoveAt(c, Place(c, key))
    BY <1>1 DEF Without
  <2>3. /\ Len(RemoveAt(c, Place(c, key))) = Len(c) - 1
        /\ \A x \in ToSet(c) : x # c[Place(c, key)] => x \in ToSet(RemoveAt(c, Place(c, key)))
    BY <2>1, DropLeaves
  <2> QED
    BY <1>1, <2>1, <2>2, <2>3
<1>2. CASE ~Cached(c, key)
  BY <1>2 DEF Without
<1> QED
  BY <1>1, <1>2

\* A use keeps the size of the cache, and drops nothing but the victim when the
\* cache is full.
LEMMA UseLeaves ==
  ASSUME NEW c, IsCache(c), NEW e, NEW size \in Nat \ {0}, Len(c) <= size
  PROVE  /\ Len(Use(c, e, size)) <= size
         /\ e \in ToSet(Use(c, e, size))
         /\ \A x \in ToSet(c) : \/ x \in ToSet(Use(c, e, size))
                                \/ x.key = e.key
                                \/ Full(c, e.key, size) /\ x = c[Victim(c)]
<1> DEFINE r == IF Full(c, e.key, size) THEN RemoveAt(c, Victim(c))
                ELSE Without(c, e.key)
           T == ToSet(r) \cup {e}
<1>0. Len(c) \in Nat
  BY ElementsAre
<1>1. /\ IsCache(r) /\ Len(r) + 1 <= size
      /\ \A x \in ToSet(c) : \/ x \in ToSet(r)
                             \/ x.key = e.key
                             \/ Full(c, e.key, size) /\ x = c[Victim(c)]
  <2>1. CASE Full(c, e.key, size)
    <3>1. Len(c) # 0
      BY <1>0, <2>1 DEF Full
    <3>2. Victim(c) \in DOMAIN c
      BY <3>1, VictimIs
    <3>3. IsCache(RemoveAt(c, Victim(c)))
      BY <3>2, DropKeeps
    <3>4. /\ Len(RemoveAt(c, Victim(c))) = Len(c) - 1
          /\ \A x \in ToSet(c) : x # c[Victim(c)] => x \in ToSet(RemoveAt(c, Victim(c)))
      BY <3>2, DropLeaves
    <3>5. r = RemoveAt(c, Victim(c))
      BY <2>1
    <3> HIDE DEF r
    <3>6. Len(r) + 1 <= size
      BY <1>0, <3>4, <3>5
    <3> QED
      BY <2>1, <3>3, <3>4, <3>5, <3>6
  <2>2. CASE ~Full(c, e.key, size)
    <3>1. r = Without(c, e.key)
      BY <2>2
    <3>2. IsCache(Without(c, e.key))
      BY WithoutKeeps
    <3>3. /\ Len(Without(c, e.key)) = IF Cached(c, e.key) THEN Len(c) - 1 ELSE Len(c)
          /\ \A x \in ToSet(c) : x.key # e.key => x \in ToSet(Without(c, e.key))
      BY WithoutLeaves
    <3> HIDE DEF r
    <3>4. Len(r) + 1 <= size
      BY <1>0, <2>2, <3>1, <3>3 DEF Full
    <3> QED
      BY <3>1, <3>2, <3>3, <3>4
  <2> QED
    BY <2>1, <2>2
<1>2. Use(c, e, size) = <<e>> \o r
  BY DEF Use
<1> HIDE DEF r
<1> DEFINE u == <<e>> \o r
<1>3. r \in Seq(ToSet(r)) /\ Len(r) \in Nat /\ DOMAIN r = 1 .. Len(r)
  BY <1>1, LenProperties DEF IsCache
<1>4. r \in Seq(T) /\ <<e>> \in Seq(T)
  BY <1>3, SeqDef
<1> HIDE DEF T
<1>5. /\ u \in Seq(T) /\ Len(u) = Len(r) + 1
      /\ \A i \in 1 .. Len(r) + 1 : u[i] = IF i = 1 THEN e ELSE r[i - 1]
  BY <1>3, <1>4
<1>6. DOMAIN u = 1 .. Len(r) + 1
  BY <1>5, LenProperties
<1> HIDE DEF u
<1>7. u[1] = e /\ 1 \in DOMAIN u
  BY <1>3, <1>5, <1>6
<1>8. ASSUME NEW x \in ToSet(r) PROVE x \in ToSet(u)
  <2>1. PICK i \in DOMAIN r : r[i] = x
    BY DEF ToSet
  <2>2. i + 1 \in DOMAIN u /\ u[i + 1] = r[i]
    BY <1>3, <1>5, <1>6, <2>1
  <2> QED
    BY <2>1, <2>2 DEF ToSet
<1>9. e \in ToSet(u)
  BY <1>7 DEF ToSet
<1> QED
  BY <1>1, <1>2, <1>5, <1>8, <1>9 DEF u

\* When all entries are clean nothing is written.
LEMMA CleanVictim ==
  ASSUME NEW c, IsCache(c), \A x \in ToSet(c) : ~x.dirty, NEW key,
         NEW size \in Nat \ {0}, Full(c, key, size)
  PROVE  ~c[Victim(c)].dirty
<1>1. Len(c) # 0
  BY ElementsAre DEF Full
<1>2. Victim(c) \in DOMAIN c
  BY <1>1, VictimIs
<1>3. c[Victim(c)] \in ToSet(c)
  BY <1>2 DEF ToSet
<1> QED
  BY <1>3

LEMMA CleanedIs ==
  ASSUME NEW c, IsCache(c)
  PROVE  /\ IsCache(Cleaned(c)) /\ Len(Cleaned(c)) = Len(c)
         /\ \A x \in ToSet(Cleaned(c)) :
               /\ ~x.dirty
               /\ \E y \in ToSet(c) : x.key = y.key /\ x.data = y.data
<1>1. /\ Len(c) \in Nat /\ DOMAIN c = 1 .. Len(c)
      /\ \A i \in DOMAIN c : c[i] \in ToSet(c)
  BY ElementsAre
<1> DEFINE r == Cleaned(c)
           T == {r[i] : i \in 1 .. Len(c)}
<1>2. DOMAIN r = 1 .. Len(c) /\ r = [i \in 1 .. Len(c) |-> r[i]]
  BY <1>1 DEF Cleaned
<1>10. ASSUME NEW i \in 1 .. Len(c) PROVE r[i] = Entry(c[i].key, c[i].data, FALSE)
  BY <1>1 DEF Cleaned
<1> HIDE DEF r
<1>3. ASSUME NEW i \in 1 .. Len(c)
      PROVE  r[i].key = c[i].key /\ r[i].data = c[i].data /\ ~r[i].dirty
  <2>1. r[i] = Entry(c[i].key, c[i].data, FALSE)
    BY <1>10
  <2> QED
    BY <2>1 DEF Entry
<1>4. r \in [1 .. Len(c) -> T]
  BY <1>2
<1> HIDE DEF T
<1>5. r \in Seq(T)
  BY <1>1, <1>4, SeqDef
<1>6. Len(r) = Len(c)
  BY <1>1, <1>2, <1>5, LenProperties
<1>7. r \in Seq(ToSet(r))
  BY <1>5, OwnElements
<1>8. \A i, j \in DOMAIN r : r[i].key = r[j].key => i = j
  BY <1>1, <1>2, <1>3 DEF IsCache
<1>9. ASSUME NEW x \in ToSet(r)
      PROVE  ~x.dirty /\ \E y \in ToSet(c) : x.key = y.key /\ x.data = y.data
  <2>1. PICK i \in 1 .. Len(c) : r[i] = x
    BY <1>2 DEF ToSet
  <2>2. c[i] \in ToSet(c)
    BY <1>1
  <2> QED
    BY <1>3, <2>1, <2>2
<1> QED
  BY <1>6, <1>7, <1>8, <1>9 DEF IsCache, r

-----------------------------------------------------------------------------
(* The memory.                                                             *)

LEMMA CacheSizes ==
  /\ BLOCK_CACHE_SIZE \in Nat \ {0} /\ DIR_CACHE_SIZE \in Nat \ {0}
  /\ INODE_CACHE_SIZE \in Nat \ {0}
BY CacheAssumption

Parted(m) == {"disk", "bc", "dc"} \subseteq DOMAIN m

WithDisk(m, disk) == [m EXCEPT !.disk = disk]
WithBc(m, bc) == [m EXCEPT !.bc = bc]
WithDc(m, dc) == [m EXCEPT !.dc = dc]

LEMMA WithIs ==
  ASSUME NEW m, Parted(m), NEW x
  PROVE  /\ Parted(WithDisk(m, x)) /\ WithDisk(m, x).disk = x
         /\ WithDisk(m, x).bc = m.bc /\ WithDisk(m, x).dc = m.dc
         /\ Parted(WithBc(m, x)) /\ WithBc(m, x).bc = x
         /\ WithBc(m, x).disk = m.disk /\ WithBc(m, x).dc = m.dc
         /\ Parted(WithDc(m, x)) /\ WithDc(m, x).dc = x
         /\ WithDc(m, x).disk = m.disk /\ WithDc(m, x).bc = m.bc
BY DEF Parted, WithDisk, WithBc, WithDc

\* m holds val[b] for each block b, in the cache or else on the disk.
Holds(m, val) ==
    /\ Parted(m) /\ DOMAIN m.disk = Block
    /\ IsCache(m.bc) /\ Len(m.bc) <= BLOCK_CACHE_SIZE
    /\ \A x \in ToSet(m.bc) : /\ x.key \in Block /\ x.data = val[x.key]
                              /\ x.dirty \/ m.disk[x.key] = val[x.key]
    /\ \A b \in Block : Cached(m.bc, b) \/ m.disk[b] = val[b]

\* The block that a cached page of a directory is in is one of its blocks.
Page(tab, key) ==
    \E d \in Inode : /\ tab[d].type = "dir"
                     /\ \E k \in 0 .. Used(tab[d]) - 1 : key = <<d, tab[d].blocks[k]>>

PagesOK(dc, val, tab) ==
    /\ IsCache(dc) /\ Len(dc) <= DIR_CACHE_SIZE
    /\ \A x \in ToSet(dc) : Page(tab, x.key) /\ ~x.dirty /\ x.data = val[x.key[2]]

AllClean(c) == \A x \in ToSet(c) : ~x.dirty

\* Between calls, and during those that read: all is clean.
Steady(m, disk, tab) ==
    /\ m.disk = disk /\ Holds(m, disk) /\ AllClean(m.bc) /\ PagesOK(m.dc, disk, tab)

LEMMA HeldData ==
  ASSUME NEW m, NEW val, Holds(m, val), NEW b \in Block
  PROVE  bc_data(m, b) = val[b]
<1>1. CASE Cached(m.bc, b)
  <2>1. Lookup(m.bc, b) \in ToSet(m.bc) /\ Lookup(m.bc, b).key = b
    BY <1>1, LookupIs
  <2> QED
    BY <1>1, <2>1 DEF bc_data, Holds
<1>2. CASE ~Cached(m.bc, b)
  BY <1>2 DEF bc_data, Holds
<1> QED
  BY <1>1, <1>2

LEMMA CachedIs ==
  ASSUME NEW c, NEW key
  PROVE  Cached(c, key) <=> \E x \in ToSet(c) : x.key = key
BY DEF Cached, ToSet

\* What is given up for block b: a clean entry, or a dirty one that is written.
LEMMA EvictIs ==
  ASSUME NEW m, NEW val, Holds(m, val), NEW b
  PROVE  LET m2 == EvictBlock(m, b)
         IN  /\ Parted(m2) /\ DOMAIN m2.disk = Block
             /\ m2.bc = m.bc /\ m2.dc = m.dc
             /\ \A c \in Block : m2.disk[c] = m.disk[c] \/ m2.disk[c] = val[c]
             /\ Full(m.bc, b, BLOCK_CACHE_SIZE) =>
                  LET v == m.bc[Victim(m.bc)] IN m2.disk[v.key] = val[v.key]
             /\ AllClean(m.bc) => m2 = m
             /\ m2.disk[b] = m.disk[b]
<1> DEFINE v == m.bc[Victim(m.bc)]
           m2 == EvictBlock(m, b)
<1>0. Parted(m) /\ DOMAIN m.disk = Block /\ IsCache(m.bc)
  BY DEF Holds
<1>1. ASSUME Full(m.bc, b, BLOCK_CACHE_SIZE)
      PROVE  v \in ToSet(m.bc) /\ ~Cached(m.bc, b) /\ v.key # b
  <2>1. Len(m.bc) # 0 /\ ~Cached(m.bc, b)
    BY <1>0, <1>1, CacheSizes, ElementsAre DEF Full
  <2>2. Victim(m.bc) \in DOMAIN m.bc
    BY <1>0, <2>1, VictimIs
  <2>3. v \in ToSet(m.bc)
    BY <2>2 DEF ToSet
  <2> HIDE DEF v
  <2> QED
    BY <2>1, <2>3, CachedIs
<1>2. CASE Full(m.bc, b, BLOCK_CACHE_SIZE) /\ v.dirty
  <2> DEFINE disk == [m.disk EXCEPT ![v.key] = v.data]
  <2>1. m2 = WithDisk(m, disk)
    BY <1>0, <1>2 DEF EvictBlock, WithDisk, Parted
  <2>2. ~AllClean(m.bc)
    BY <1>1, <1>2 DEF AllClean
  <2>3. v.key \in Block /\ v.data = val[v.key]
    BY <1>1, <1>2 DEF Holds
  <2> HIDE DEF m2
  <2>4. /\ DOMAIN disk = Block /\ disk[v.key] = val[v.key]
        /\ \A c \in Block : disk[c] = m.disk[c] \/ disk[c] = val[c]
        /\ disk[b] = m.disk[b]
    BY <1>0, <1>1, <1>2, <2>3
  <2> HIDE DEF disk, v
  <2>5. /\ Parted(m2) /\ m2.disk = disk /\ m2.bc = m.bc /\ m2.dc = m.dc
    BY <1>0, <2>1, WithIs
  <2> QED
    BY <1>1, <1>2, <2>2, <2>4, <2>5 DEF m2, v
<1>3. CASE ~(Full(m.bc, b, BLOCK_CACHE_SIZE) /\ v.dirty)
  <2>1. m2 = m
    BY <1>3 DEF EvictBlock
  <2>2. Full(m.bc, b, BLOCK_CACHE_SIZE) => m.disk[v.key] = val[v.key]
    BY <1>1, <1>3 DEF Holds
  <2> HIDE DEF m2
  <2> QED
    BY <1>0, <2>1, <2>2 DEF m2, v
<1> QED
  BY <1>2, <1>3

\* Block e.key is used, and gets e.data; others stay as they are.
LEMMA BlockUse ==
  ASSUME NEW m, NEW val, Holds(m, val), NEW e, e.key \in Block, NEW val2,
         \A c \in Block \ {e.key} : val2[c] = val[c],
         e.data = val2[e.key],
         e.dirty \/ m.disk[e.key] = val2[e.key]
  PROVE  LET m2 == EvictBlock(m, e.key)
             m3 == WithBc(m2, Use(m2.bc, e, BLOCK_CACHE_SIZE))
         IN  /\ Holds(m3, val2) /\ m3.dc = m.dc
             /\ AllClean(m.bc) /\ ~e.dirty => AllClean(m3.bc) /\ m3.disk = m.disk
<1> DEFINE m2 == EvictBlock(m, e.key)
           u == Use(m.bc, e, BLOCK_CACHE_SIZE)
           m3 == WithBc(m2, u)
           v == m.bc[Victim(m.bc)]
<1>1. /\ Parted(m2) /\ DOMAIN m2.disk = Block
      /\ m2.bc = m.bc /\ m2.dc = m.dc
      /\ \A c \in Block : m2.disk[c] = m.disk[c] \/ m2.disk[c] = val[c]
      /\ Full(m.bc, e.key, BLOCK_CACHE_SIZE) => m2.disk[v.key] = val[v.key]
      /\ AllClean(m.bc) => m2 = m
      /\ m2.disk[e.key] = m.disk[e.key]
  BY EvictIs
<1>2. /\ IsCache(u) /\ \A x \in ToSet(u) : x = e \/ (x \in ToSet(m.bc) /\ x.key # e.key)
  BY CacheSizes, UseKeeps DEF Holds
<1>3. /\ Len(u) <= BLOCK_CACHE_SIZE /\ e \in ToSet(u)
      /\ \A x \in ToSet(m.bc) : \/ x \in ToSet(u)
                                \/ x.key = e.key
                                \/ Full(m.bc, e.key, BLOCK_CACHE_SIZE) /\ x = v
  BY CacheSizes, UseLeaves DEF Holds
<1> HIDE DEF m2, u, v
<1>4. Parted(m3) /\ m3.disk = m2.disk /\ m3.bc = u /\ m3.dc = m.dc
  BY <1>1, WithIs
<1>5. m3 = WithBc(EvictBlock(m, e.key),
                  Use(EvictBlock(m, e.key).bc, e, BLOCK_CACHE_SIZE))
  BY <1>1 DEF m2, u
<1> HIDE DEF m3
<1>6. ASSUME NEW x \in ToSet(u)
      PROVE  /\ x.key \in Block /\ x.data = val2[x.key]
             /\ x.dirty \/ m3.disk[x.key] = val2[x.key]
  <2>1. CASE x = e
    BY <1>1, <1>4, <2>1
  <2>2. CASE x \in ToSet(m.bc) /\ x.key # e.key
    <3>1. /\ x.key \in Block /\ x.data = val[x.key]
          /\ x.dirty \/ m.disk[x.key] = val[x.key]
      BY <2>2 DEF Holds
    <3>2. val2[x.key] = val[x.key]
      BY <2>2, <3>1
    <3> QED
      BY <1>1, <1>4, <3>1, <3>2
  <2> QED
    BY <1>2, <2>1, <2>2
<1>7. ASSUME NEW b \in Block, ~Cached(u, b) PROVE m3.disk[b] = val2[b]
  <2>1. b # e.key /\ val2[b] = val[b]
    BY <1>3, <1>7, CachedIs
  <2>2. CASE Cached(m.bc, b)
    <3>1. PICK x \in ToSet(m.bc) : x.key = b
      BY <2>2, CachedIs
    <3>2. x \notin ToSet(u)
      BY <1>7, <3>1, CachedIs
    <3>3. Full(m.bc, e.key, BLOCK_CACHE_SIZE) /\ x = v
      BY <1>3, <2>1, <3>1, <3>2
    <3> QED
      BY <1>1, <1>4, <2>1, <3>1, <3>3
  <2>3. CASE ~Cached(m.bc, b)
    <3>1. m.disk[b] = val[b]
      BY <2>3 DEF Holds
    <3> QED
      BY <1>1, <1>4, <2>1, <3>1
  <2> QED
    BY <2>2, <2>3
<1>8. Holds(m3, val2)
  BY <1>1, <1>2, <1>3, <1>4, <1>6, <1>7 DEF Holds
<1>9. ASSUME AllClean(m.bc), ~e.dirty PROVE AllClean(m3.bc) /\ m3.disk = m.disk
  BY <1>1, <1>2, <1>4, <1>9 DEF AllClean
<1> QED
  BY <1>4, <1>5, <1>8, <1>9

LEMMA BlockRead ==
  ASSUME NEW m, NEW val, Holds(m, val), NEW b \in Block
  PROVE  /\ Holds(bc_read(m, b), val) /\ bc_read(m, b).dc = m.dc
         /\ AllClean(m.bc) => AllClean(bc_read(m, b).bc) /\ bc_read(m, b).disk = m.disk
<1> DEFINE e == IF Cached(m.bc, b) THEN Lookup(m.bc, b) ELSE Entry(b, m.disk[b], FALSE)
           m2 == EvictBlock(m, b)
<1>1. bc_read(m, b) = WithBc(m2, Use(m2.bc, e, BLOCK_CACHE_SIZE))
  <2>1. Parted(m2)
    BY EvictIs
  <2> HIDE DEF m2
  <2> QED
    BY <2>1 DEF bc_read, WithBc, m2, Parted
<1>2. /\ e.key = b /\ e.data = val[b]
      /\ e.dirty \/ m.disk[b] = val[b]
      /\ AllClean(m.bc) => ~e.dirty
  <2>1. CASE Cached(m.bc, b)
    <3>1. Lookup(m.bc, b) \in ToSet(m.bc) /\ Lookup(m.bc, b).key = b
      BY <2>1, LookupIs
    <3> QED
      BY <2>1, <3>1 DEF Holds, AllClean
  <2>2. CASE ~Cached(m.bc, b)
    <3>1. m.disk[b] = val[b]
      BY <2>2 DEF Holds
    <3>2. e = Entry(b, m.disk[b], FALSE)
      BY <2>2
    <3> HIDE DEF e
    <3>3. e.key = b /\ e.data = m.disk[b] /\ ~e.dirty
      BY <3>2 DEF Entry
    <3> QED
      BY <3>1, <3>3
  <2> QED
    BY <2>1, <2>2
<1> HIDE DEF e, m2
<1> DEFINE m3 == WithBc(m2, Use(m2.bc, e, BLOCK_CACHE_SIZE))
<1>3. /\ Holds(m3, val) /\ m3.dc = m.dc
      /\ AllClean(m.bc) /\ ~e.dirty => AllClean(m3.bc) /\ m3.disk = m.disk
  BY <1>2, BlockUse DEF m2
<1> QED
  BY <1>1, <1>2, <1>3

LEMMA BlockWrite ==
  ASSUME NEW m, NEW val, Holds(m, val), NEW b \in Block, NEW data, NEW val2,
         val2[b] = data, \A c \in Block \ {b} : val2[c] = val[c]
  PROVE  Holds(bc_write(m, b, data), val2) /\ bc_write(m, b, data).dc = m.dc
<1> DEFINE e == Entry(b, data, TRUE)
           m2 == EvictBlock(m, b)
<1>1. bc_write(m, b, data) = WithBc(m2, Use(m2.bc, e, BLOCK_CACHE_SIZE))
  <2>1. Parted(m2)
    BY EvictIs
  <2> HIDE DEF m2
  <2> QED
    BY <2>1 DEF bc_write, WithBc, m2, Parted
<1>2. e.key = b /\ e.data = data /\ e.dirty
  BY DEF Entry
<1> HIDE DEF e, m2
<1> DEFINE m3 == WithBc(m2, Use(m2.bc, e, BLOCK_CACHE_SIZE))
<1>3. Holds(m3, val2) /\ m3.dc = m.dc
  BY <1>2, BlockUse DEF m2
<1> QED
  BY <1>1, <1>3

\* When all pages are clean nothing is written for a new one.
LEMMA NoPageWritten ==
  ASSUME NEW m, NEW val, NEW tab, PagesOK(m.dc, val, tab), NEW key
  PROVE  EvictPage(m, key) = m
<1>1. Full(m.dc, key, DIR_CACHE_SIZE) => ~m.dc[Victim(m.dc)].dirty
  BY CacheSizes, CleanVictim DEF PagesOK
<1> QED
  BY <1>1 DEF EvictPage

LEMMA PageUse ==
  ASSUME NEW dc, NEW val, NEW tab, PagesOK(dc, val, tab), NEW e,
         Page(tab, e.key), ~e.dirty, e.data = val[e.key[2]]
  PROVE  PagesOK(Use(dc, e, DIR_CACHE_SIZE), val, tab)
<1> DEFINE u == Use(dc, e, DIR_CACHE_SIZE)
<1>1. /\ IsCache(u) /\ \A x \in ToSet(u) : x = e \/ (x \in ToSet(dc) /\ x.key # e.key)
      /\ Len(u) <= DIR_CACHE_SIZE
  BY CacheSizes, UseKeeps, UseLeaves DEF PagesOK
<1> HIDE DEF u
<1>2. \A x \in ToSet(u) : Page(tab, x.key) /\ ~x.dirty /\ x.data = val[x.key[2]]
  BY <1>1 DEF PagesOK
<1> QED
  BY <1>1, <1>2 DEF PagesOK, u

LEMMA SteadyBlock ==
  ASSUME NEW m, NEW disk, NEW tab, Steady(m, disk, tab), NEW b \in Block
  PROVE  /\ Steady(bc_read(m, b), disk, tab) /\ bc_read(m, b).dc = m.dc
         /\ bc_data(m, b) = disk[b]
BY BlockRead, HeldData DEF Steady

LEMMA SteadyPage ==
  ASSUME NEW m, NEW disk, NEW tab, Steady(m, disk, tab), NEW d, NEW b \in Block,
         Page(tab, <<d, b>>)
  PROVE  /\ Steady(dc_read(m, d, b), disk, tab)
         /\ dc_data(m, d, b) = disk[b]
<1> DEFINE key == <<d, b>>
           e == IF Cached(m.dc, key) THEN Lookup(m.dc, key)
                ELSE Entry(key, bc_data(m, b), FALSE)
           below == IF Cached(m.dc, key) THEN m ELSE bc_read(m, b)
<1>0. key[2] = b /\ Page(tab, key)
  OBVIOUS
<1>1. EvictPage(m, key) = m
  BY NoPageWritten DEF Steady
<1>2. dc_read(m, d, b) = [below EXCEPT !.dc = Use(m.dc, e, DIR_CACHE_SIZE)]
  BY <1>1 DEF dc_read
<1>3. bc_data(m, b) = disk[b] /\ Steady(below, disk, tab)
  BY SteadyBlock
<1> HIDE DEF below, key
<1>4. /\ e.key = key /\ ~e.dirty /\ e.data = disk[b]
      /\ dc_data(m, d, b) = disk[b]
  <2>1. CASE Cached(m.dc, key)
    <3>1. Lookup(m.dc, key) \in ToSet(m.dc) /\ Lookup(m.dc, key).key = key
      BY <2>1, LookupIs
    <3>2. /\ ~Lookup(m.dc, key).dirty /\ Lookup(m.dc, key).data = disk[b]
      BY <1>0, <3>1 DEF Steady, PagesOK
    <3>3. dc_data(m, d, b) = Lookup(m.dc, key).data
      BY <2>1 DEF dc_data, key
    <3> QED
      BY <2>1, <3>1, <3>2, <3>3
  <2>2. CASE ~Cached(m.dc, key)
    <3>1. e = Entry(key, bc_data(m, b), FALSE)
      BY <2>2
    <3>3. dc_data(m, d, b) = bc_data(m, b)
      BY <2>2 DEF dc_data, key
    <3> HIDE DEF e
    <3>2. e.key = key /\ e.data = bc_data(m, b) /\ ~e.dirty
      BY <3>1 DEF Entry
    <3> QED
      BY <1>3, <3>2, <3>3
  <2> QED
    BY <2>1, <2>2
<1> HIDE DEF e
<1> DEFINE u == Use(m.dc, e, DIR_CACHE_SIZE)
<1>5. PagesOK(u, disk, tab)
  BY <1>0, <1>4, PageUse DEF Steady
<1> HIDE DEF u
<1>6. dc_read(m, d, b) = WithDc(below, u)
  BY <1>2 DEF WithDc, u
<1>7. Parted(below)
  BY <1>3 DEF Steady, Holds
<1> DEFINE m3 == WithDc(below, u)
<1>8. Parted(m3) /\ m3.dc = u /\ m3.disk = below.disk /\ m3.bc = below.bc
  BY <1>7, WithIs
<1> HIDE DEF m3
<1>9. Steady(m3, disk, tab)
  BY <1>3, <1>5, <1>8 DEF Steady, Holds
<1> QED
  BY <1>4, <1>6, <1>9 DEF m3

FlushFold == INSTANCE FoldProofs WITH op <- Flush
FlushPageFold == INSTANCE FoldProofs WITH op <- FlushPage

LEMMA FlushesAre ==
  ASSUME NEW base, NEW seq
  PROVE  /\ FoldLeft(Flush, base, seq) = FlushFold!Folded(base, seq)
         /\ FoldLeft(FlushPage, base, seq) = FlushPageFold!Folded(base, seq)
<1>1. FoldLeft(Flush, base, seq) = FlushFold!Folded(base, seq)
  BY DEF FoldLeft, MapThenFoldSet, FlushFold!Folded, FlushFold!Iterates, Max, FlushFold!Top
<1>2. FoldLeft(FlushPage, base, seq) = FlushPageFold!Folded(base, seq)
  BY DEF FoldLeft, MapThenFoldSet, FlushPageFold!Folded, FlushPageFold!Iterates, Max,
         FlushPageFold!Top
<1> QED
  BY <1>1, <1>2

\* StoreBlocks writes what is held to the disk.
LEMMA StoreIs ==
  ASSUME NEW m, NEW val, Holds(m, val)
  PROVE  LET m2 == StoreBlocks(m)
         IN  /\ Holds(m2, val) /\ AllClean(m2.bc) /\ m2.dc = m.dc
             /\ \A b \in Block : m2.disk[b] = val[b]
<1> DEFINE bc == m.bc
           n == Len(bc)
           disk2 == FoldLeft(Flush, m.disk, bc)
           Fine(disk, k) ==
               /\ DOMAIN disk = Block
               /\ \A b \in Block : \/ disk[b] = val[b]
                                   \/ /\ disk[b] = m.disk[b]
                                      /\ \A i \in 1 .. k : bc[i].key # b
<1>1. Parted(m) /\ DOMAIN m.disk = Block /\ IsCache(bc) /\ Len(bc) <= BLOCK_CACHE_SIZE
  BY DEF Holds
<1>2. n \in Nat /\ DOMAIN bc = 1 .. n /\ \A i \in 1 .. n : bc[i] \in ToSet(bc)
  BY <1>1, ElementsAre
<1>3. \A i \in 1 .. n : /\ bc[i].key \in Block /\ bc[i].data = val[bc[i].key]
                        /\ bc[i].dirty \/ m.disk[bc[i].key] = val[bc[i].key]
  BY <1>2 DEF Holds
<1>4. \A b \in Block : (\A i \in 1 .. n : bc[i].key # b) => m.disk[b] = val[b]
  BY <1>2 DEF Holds, Cached
<1> HIDE DEF bc, n
<1>5. PICK g : FlushFold!Values(g, m.disk, bc, n)
  BY <1>2, FlushFold!FoldSteps
<1>6. /\ g[0] = m.disk /\ disk2 = g[n]
      /\ \A k \in 1 .. n : g[k] = Flush(g[k - 1], bc[k])
  BY <1>5, FlushesAre DEF FlushFold!Values
<1> HIDE DEF disk2
<1>7. ASSUME NEW k \in 1 .. n, NEW disk, Fine(disk, k - 1) PROVE Fine(Flush(disk, bc[k]), k)
  <2>1. /\ bc[k].key \in Block /\ bc[k].data = val[bc[k].key]
        /\ bc[k].dirty \/ m.disk[bc[k].key] = val[bc[k].key]
    BY <1>3
  <2>2. \A i \in 1 .. k : i = k \/ i \in 1 .. k - 1
    BY <1>2
  <2>3. CASE bc[k].dirty
    BY <1>7, <2>1, <2>2, <2>3 DEF Flush
  <2>4. CASE ~bc[k].dirty
    BY <1>7, <2>1, <2>2, <2>4 DEF Flush
  <2> QED
    BY <2>3, <2>4
<1> DEFINE G == {k \in 0 .. n : Fine(g[k], k)}
<1>8. 0 \in G
  BY <1>1, <1>2, <1>6
<1>9. ASSUME NEW k \in 1 .. n, k - 1 \in G PROVE k \in G
  <2>1. k \in 0 .. n /\ Fine(g[k - 1], k - 1)
    BY <1>2, <1>9
  <2> HIDE DEF Fine
  <2>2. Fine(Flush(g[k - 1], bc[k]), k)
    BY <1>7, <2>1
  <2>3. g[k] = Flush(g[k - 1], bc[k])
    BY <1>6
  <2> QED
    BY <2>1, <2>2, <2>3
<1> HIDE DEF G
<1>10. n \in G
  BY <1>2, <1>8, <1>9, FlushFold!CountUp
<1>11. DOMAIN disk2 = Block /\ \A b \in Block : disk2[b] = val[b]
  BY <1>4, <1>6, <1>10 DEF G
<1> DEFINE m1 == WithDisk(m, disk2)
           m2 == WithBc(m1, Cleaned(bc))
<1>12. StoreBlocks(m) = m2
  BY <1>1 DEF StoreBlocks, WithDisk, WithBc, Parted, disk2, bc
<1>13. Parted(m1) /\ m1.disk = disk2 /\ m1.dc = m.dc
  BY <1>1, WithIs
<1> HIDE DEF m1
<1>14. Parted(m2) /\ m2.disk = disk2 /\ m2.dc = m.dc /\ m2.bc = Cleaned(bc)
  BY <1>13, WithIs
<1> HIDE DEF m2
<1>15. /\ IsCache(Cleaned(bc)) /\ Len(Cleaned(bc)) <= BLOCK_CACHE_SIZE
       /\ \A x \in ToSet(Cleaned(bc)) :
             /\ ~x.dirty
             /\ \E y \in ToSet(bc) : x.key = y.key /\ x.data = y.data
  BY <1>1, <1>2, CleanedIs
<1>16. \A y \in ToSet(bc) : y.key \in Block /\ y.data = val[y.key]
  BY DEF Holds, bc
<1>17. Holds(m2, val)
  BY <1>11, <1>14, <1>15, <1>16 DEF Holds
<1>18. AllClean(m2.bc)
  BY <1>14, <1>15 DEF AllClean
<1> QED
  BY <1>11, <1>12, <1>14, <1>17, <1>18

\* val2 is val with the page that is dirty, if there is one.
Flushes(dc, val, val2) ==
    \/ AllClean(dc) /\ val2 = val
    \/ \E e \in ToSet(dc) : /\ e.dirty /\ e.key[2] \in Block
                            /\ \A y \in ToSet(dc) : y.dirty => y = e
                            /\ val2[e.key[2]] = e.data
                            /\ \A c \in Block \ {e.key[2]} : val2[c] = val[c]

\* fsi_store_fsdata writes what is held and the page that is dirty.
LEMMA StoreFsIs ==
  ASSUME NEW m, NEW val, Holds(m, val), IsCache(m.dc), NEW val2,
         Flushes(m.dc, val, val2)
  PROVE  LET m2 == fsi_store_fsdata(m)
         IN  /\ Holds(m2, val2) /\ AllClean(m2.bc) /\ m2.dc = Cleaned(m.dc)
             /\ \A b \in Block : m2.disk[b] = val2[b]
<1> DEFINE dc == m.dc
           n == Len(dc)
           m1 == FoldLeft(FlushPage, m, dc)
           Fine(acc, k) ==
               /\ acc.dc = dc
               /\ \/ Holds(acc, val2)
                  \/ Holds(acc, val) /\ \A i \in 1 .. k : ~dc[i].dirty
<1>0. n \in Nat
  BY ElementsAre
<1>1. n \in Nat /\ DOMAIN dc = 1 .. n /\ \A i \in 1 .. n : dc[i] \in ToSet(dc)
  BY ElementsAre
<1>2. (\A i \in 1 .. n : ~dc[i].dirty) => AllClean(dc)
  BY <1>1 DEF AllClean, ToSet
<1>3. AllClean(dc) => val2 = val
  BY DEF Flushes, AllClean
<1>4. ASSUME NEW i \in 1 .. n, dc[i].dirty
      PROVE  /\ dc[i].key[2] \in Block /\ val2[dc[i].key[2]] = dc[i].data
             /\ \A c \in Block \ {dc[i].key[2]} : val2[c] = val[c]
  <2>1. PICK e \in ToSet(dc) : /\ e.dirty /\ e.key[2] \in Block
                               /\ \A y \in ToSet(dc) : y.dirty => y = e
                               /\ val2[e.key[2]] = e.data
                               /\ \A c \in Block \ {e.key[2]} : val2[c] = val[c]
    BY <1>1, <1>4 DEF Flushes, AllClean
  <2>2. dc[i] = e
    BY <1>1, <1>4, <2>1
  <2> QED
    BY <2>1, <2>2
<1> HIDE DEF dc, n
<1>5. PICK g : FlushPageFold!Values(g, m, dc, n)
  BY <1>1, FlushPageFold!FoldSteps
<1>6. /\ g[0] = m /\ m1 = g[n]
      /\ \A k \in 1 .. n : g[k] = FlushPage(g[k - 1], dc[k])
  BY <1>5, FlushesAre DEF FlushPageFold!Values
<1> HIDE DEF m1
<1>7. ASSUME NEW k \in 1 .. n, NEW acc, Fine(acc, k - 1)
      PROVE  Fine(FlushPage(acc, dc[k]), k)
  <2>1. CASE dc[k].dirty
    <3>1. FlushPage(acc, dc[k]) = bc_write(acc, dc[k].key[2], dc[k].data)
      BY <2>1 DEF FlushPage
    <3>2. /\ dc[k].key[2] \in Block /\ val2[dc[k].key[2]] = dc[k].data
          /\ \A c \in Block \ {dc[k].key[2]} : val2[c] = val[c]
      BY <1>4, <2>1
    <3>3. CASE Holds(acc, val2)
      <4>1. \A c \in Block \ {dc[k].key[2]} : val2[c] = val2[c]
        OBVIOUS
      <4>2. /\ Holds(bc_write(acc, dc[k].key[2], dc[k].data), val2)
            /\ bc_write(acc, dc[k].key[2], dc[k].data).dc = acc.dc
        BY <3>2, <3>3, <4>1, BlockWrite
      <4> QED
        BY <1>7, <3>1, <4>2
    <3>4. CASE Holds(acc, val)
      <4>2. /\ Holds(bc_write(acc, dc[k].key[2], dc[k].data), val2)
            /\ bc_write(acc, dc[k].key[2], dc[k].data).dc = acc.dc
        BY <3>2, <3>4, BlockWrite
      <4> QED
        BY <1>7, <3>1, <4>2
    <3> QED
      BY <1>7, <3>3, <3>4
  <2>2. CASE ~dc[k].dirty
    <3>1. FlushPage(acc, dc[k]) = acc
      BY <2>2 DEF FlushPage
    <3>2. \A i \in 1 .. k : i = k \/ i \in 1 .. k - 1
      BY <1>1
    <3> QED
      BY <1>7, <2>2, <3>1, <3>2
  <2> QED
    BY <2>1, <2>2
<1> DEFINE G == {k \in 0 .. n : Fine(g[k], k)}
<1>8. 0 \in G
  BY <1>1, <1>6 DEF dc
<1>9. ASSUME NEW k \in 1 .. n, k - 1 \in G PROVE k \in G
  <2>1. k \in 0 .. n /\ Fine(g[k - 1], k - 1)
    BY <1>1, <1>9
  <2> HIDE DEF Fine
  <2>2. Fine(FlushPage(g[k - 1], dc[k]), k)
    BY <1>7, <2>1
  <2>3. g[k] = FlushPage(g[k - 1], dc[k])
    BY <1>6
  <2> QED
    BY <2>1, <2>2, <2>3
<1> HIDE DEF G
<1>10. n \in G
  BY <1>0, <1>8, <1>9, FlushPageFold!CountUp
<1>11. Holds(m1, val2) /\ m1.dc = dc
  BY <1>2, <1>3, <1>6, <1>10 DEF G
<1> DEFINE m2 == WithDc(m1, Cleaned(dc))
<1>12. fsi_store_fsdata(m) = StoreBlocks(m2)
  BY <1>11 DEF fsi_store_fsdata, WithDc, m1, dc
<1>13. /\ Parted(m2) /\ m2.disk = m1.disk /\ m2.bc = m1.bc /\ m2.dc = Cleaned(dc)
  BY <1>11, WithIs DEF Holds
<1> HIDE DEF m2
<1>14. Holds(m2, val2)
  BY <1>11, <1>13 DEF Holds
<1>15. /\ Holds(StoreBlocks(m2), val2) /\ AllClean(StoreBlocks(m2).bc)
       /\ StoreBlocks(m2).dc = m2.dc
       /\ \A b \in Block : StoreBlocks(m2).disk[b] = val2[b]
  BY <1>14, StoreIs
<1> QED
  BY <1>12, <1>13, <1>15 DEF dc

-----------------------------------------------------------------------------
(* Folds.                                                                  *)

WalkFold == INSTANCE FoldProofs WITH op <- Walk
ListFold == INSTANCE FoldProofs WITH op <- ListPage
TypeFold == INSTANCE FoldProofs WITH op <- GetType

LEMMA FoldsAre ==
  ASSUME NEW base, NEW seq
  PROVE  /\ FoldLeft(Walk, base, seq) = WalkFold!Folded(base, seq)
         /\ FoldLeft(ListPage, base, seq) = ListFold!Folded(base, seq)
         /\ FoldLeft(GetType, base, seq) = TypeFold!Folded(base, seq)
<1>1. FoldLeft(Walk, base, seq) = WalkFold!Folded(base, seq)
  BY DEF FoldLeft, MapThenFoldSet, WalkFold!Folded, WalkFold!Iterates, Max, WalkFold!Top
<1>2. FoldLeft(ListPage, base, seq) = ListFold!Folded(base, seq)
  BY DEF FoldLeft, MapThenFoldSet, ListFold!Folded, ListFold!Iterates, Max, ListFold!Top
<1>3. FoldLeft(GetType, base, seq) = TypeFold!Folded(base, seq)
  BY DEF FoldLeft, MapThenFoldSet, TypeFold!Folded, TypeFold!Iterates, Max, TypeFold!Top
<1> QED
  BY <1>1, <1>2, <1>3

-----------------------------------------------------------------------------
(* The calls that read.                                                    *)

\* Entry k of directory d, the first one being entry 1.
EntryAt(disk, tab, d, k) ==
    disk[tab[d].blocks[(k - 1) \div DIR_PAGE_ENTRIES]][(k - 1) % DIR_PAGE_ENTRIES]

\* Each entry of a directory is an inode, and no two have the same name.
EntriesOK(disk, tab) ==
    \A d \in Inode : tab[d].type = "dir" =>
        \A k \in 1 .. tab[d].size :
            /\ EntryAt(disk, tab, d, k)[2] \in Inode
            /\ \A l \in 1 .. tab[d].size :
                  EntryAt(disk, tab, d, k)[1] = EntryAt(disk, tab, d, l)[1] => k = l

\* What the inode cache holds.
InodesOK(c, tab) ==
    /\ CacheOK(c, tab) /\ Len(c) <= INODE_CACHE_SIZE /\ AllClean(c)
    /\ \A x \in ToSet(c) : x.key \in Inode

LEMMA BlockOf ==
  ASSUME NEW tab, TableOK(tab), NEW i \in Inode, NEW k \in 0 .. Used(tab[i]) - 1
  PROVE  k \in 0 .. INODE_NUM_BLKS - 1 /\ tab[i].blocks[k] \in Block
<1>1. tab[i].size \in Nat
  BY DEF TableOK, InodeRecord
<1>2. Used(tab[i]) \in Nat /\ Used(tab[i]) <= INODE_NUM_BLKS
  BY <1>1, UsedIs DEF TableOK
<1>3. k \in 0 .. INODE_NUM_BLKS - 1
  BY <1>2, Sizes
<1> QED
  BY <1>3 DEF TableOK, InodeRecord

LEMMA PageOf ==
  ASSUME NEW tab, TableOK(tab), NEW d \in Inode, tab[d].type = "dir", NEW idir,
         Agrees(idir, tab[d]), NEW k \in 0 .. Used(tab[d]) - 1
  PROVE  /\ Page(tab, <<d, idir.blocks[k]>>) /\ idir.blocks[k] \in Block
         /\ idir.blocks[k] = tab[d].blocks[k]
<1>1. idir.blocks[k] = tab[d].blocks[k]
  BY DEF Agrees
<1>2. tab[d].blocks[k] \in Block
  BY BlockOf
<1> QED
  BY <1>1, <1>2 DEF Page

LEMMA DivisionIs ==
  ASSUME NEW n \in Nat, NEW length \in Nat \ {0}
  PROVE  /\ n \div length \in Nat /\ n % length \in 0 .. length - 1
         /\ n = (n \div length) * length + (n % length)
BY SMTT(60)

\* Where an entry is.
LEMMA EntryPlace ==
  ASSUME NEW tab, TableOK(tab), NEW d \in Inode, tab[d].type = "dir",
         NEW k \in 1 .. tab[d].size
  PROVE  LET p == (k - 1) \div DIR_PAGE_ENTRIES
             j == (k - 1) % DIR_PAGE_ENTRIES
         IN  /\ p \in 0 .. Used(tab[d]) - 1 /\ p \in Nat /\ tab[d].blocks[p] \in Block
             /\ j \in 0 .. DIR_PAGE_ENTRIES - 1 /\ k - 1 = p * DIR_PAGE_ENTRIES + j
<1> DEFINE p == (k - 1) \div DIR_PAGE_ENTRIES
           j == (k - 1) % DIR_PAGE_ENTRIES
<1>0. k - 1 \in Nat /\ k - 1 < tab[d].size /\ tab[d].size \in Nat
  BY DEF TableOK, InodeRecord
<1>1. p \in Nat /\ j \in 0 .. DIR_PAGE_ENTRIES - 1 /\ k - 1 = p * DIR_PAGE_ENTRIES + j
  BY <1>0, Sizes, DivisionIs
<1>2. Used(tab[d]) \in Nat /\ tab[d].size <= Used(tab[d]) * DIR_PAGE_ENTRIES
  BY <1>0, Sizes, PartsHold DEF Used, Pages
<1>3. p < Used(tab[d])
  <2>1. k - 1 < Used(tab[d]) * DIR_PAGE_ENTRIES
    <3>1. Used(tab[d]) * DIR_PAGE_ENTRIES \in Nat
      BY <1>2, Sizes, ProductGrows
    <3> QED
      BY <1>0, <1>2, <3>1
  <2> QED
    BY <1>0, <1>2, <2>1, Sizes, PartsNext
<1>4. p \in 0 .. Used(tab[d]) - 1
  BY <1>1, <1>2, <1>3
<1> HIDE DEF p, j
<1>5. tab[d].blocks[p] \in Block
  BY <1>4, AgreesItself, PageOf
<1> QED
  BY <1>1, <1>4, <1>5 DEF p, j

LEMMA EntriesAre ==
  ASSUME NEW m, NEW disk, NEW tab, Steady(m, disk, tab), EntriesOK(disk, tab),
         TableOK(tab), NEW d \in Inode, tab[d].type = "dir", NEW idir,
         Agrees(idir, tab[d]), NEW n \in Nat, n <= tab[d].size, NEW k \in 1 .. n
  PROVE  /\ Entries(m, d, idir, n)[k] = EntryAt(disk, tab, d, k)
         /\ Entries(m, d, idir, n)[k][2] \in Inode
<1> DEFINE p == (k - 1) \div DIR_PAGE_ENTRIES
           j == (k - 1) % DIR_PAGE_ENTRIES
<1>0. k \in 1 .. tab[d].size
  BY DEF TableOK, InodeRecord
<1>1. p \in 0 .. Used(tab[d]) - 1
  BY <1>0, EntryPlace
<1>2. Entries(m, d, idir, n)[k] = dc_data(m, d, idir.blocks[p])[j]
  BY DEF Entries
<1>3. EntryAt(disk, tab, d, k) = disk[tab[d].blocks[p]][j]
  BY DEF EntryAt
<1> HIDE DEF p, j
<1>4. /\ Page(tab, <<d, idir.blocks[p]>>) /\ idir.blocks[p] \in Block
      /\ idir.blocks[p] = tab[d].blocks[p]
  BY <1>1, PageOf
<1>5. dc_data(m, d, idir.blocks[p]) = disk[tab[d].blocks[p]]
  BY <1>4, SteadyPage
<1>6. EntryAt(disk, tab, d, k)[2] \in Inode
  BY <1>0 DEF EntriesOK
<1> QED
  BY <1>2, <1>3, <1>5, <1>6

ReadFold == INSTANCE FoldProofs WITH op <- ReadPage
ReadBlockFold == INSTANCE FoldProofs WITH op <- ReadBlock
WriteBlockFold == INSTANCE FoldProofs WITH op <- WriteBlock

LEMMA ReadsAre ==
  ASSUME NEW base, NEW seq
  PROVE  /\ FoldLeft(ReadPage, base, seq) = ReadFold!Folded(base, seq)
         /\ FoldLeft(ReadBlock, base, seq) = ReadBlockFold!Folded(base, seq)
         /\ FoldLeft(WriteBlock, base, seq) = WriteBlockFold!Folded(base, seq)
<1>1. FoldLeft(ReadPage, base, seq) = ReadFold!Folded(base, seq)
  BY DEF FoldLeft, MapThenFoldSet, ReadFold!Folded, ReadFold!Iterates, Max, ReadFold!Top
<1>2. FoldLeft(ReadBlock, base, seq) = ReadBlockFold!Folded(base, seq)
  BY DEF FoldLeft, MapThenFoldSet, ReadBlockFold!Folded, ReadBlockFold!Iterates, Max,
         ReadBlockFold!Top
<1>3. FoldLeft(WriteBlock, base, seq) = WriteBlockFold!Folded(base, seq)
  BY DEF FoldLeft, MapThenFoldSet, WriteBlockFold!Folded, WriteBlockFold!Iterates, Max,
         WriteBlockFold!Top
<1> QED
  BY <1>1, <1>2, <1>3

\* fsi_dir_search leaves all clean.
LEMMA SearchKeeps ==
  ASSUME NEW m, NEW disk, NEW tab, Steady(m, disk, tab), TableOK(tab),
         NEW d \in Inode, tab[d].type = "dir", NEW idir, Agrees(idir, tab[d]), NEW name
  PROVE  /\ Steady(fsi_dir_search(m, d, idir, name), disk, tab)
         /\ Position(m, d, idir, name) \in 0 .. tab[d].size
<1> DEFINE k == Position(m, d, idir, name)
           last == Pages(IF k = 0 THEN idir.size ELSE k)
           base == [mem |-> m, d |-> d, idir |-> idir]
           pages == [p \in 1 .. last |-> p]
           Fine(acc) == /\ {"mem", "d", "idir"} \subseteq DOMAIN acc
                        /\ acc.d = d /\ acc.idir = idir
                        /\ Steady(acc.mem, disk, tab)
<1>1. idir.size = tab[d].size /\ tab[d].size \in Nat
  BY DEF Agrees, TableOK, InodeRecord
<1>2. k \in 0 .. tab[d].size
  <2> DEFINE e == Entries(m, d, idir, idir.size)
             match == {i \in DOMAIN e : e[i][1] = name}
  <2>1. k = IF match = {} THEN 0 ELSE Min(match)
    BY DEF Position
  <2>2. DOMAIN e = 1 .. tab[d].size
    BY <1>1 DEF Entries
  <2> HIDE DEF e
  <2>3. match \subseteq 0 .. tab[d].size
    BY <2>2
  <2> HIDE DEF k, match
  <2>4. match # {} => Min(match) \in match
    BY <1>1, <2>3, Extremes
  <2> QED
    BY <1>1, <2>1, <2>3, <2>4
<1> HIDE DEF k
<1>3. last \in Nat /\ last <= Used(tab[d])
  <2>0. k \in Nat /\ k <= idir.size /\ idir.size \in Nat /\ DIR_PAGE_ENTRIES \in Nat \ {0}
    BY <1>1, <1>2, Sizes
  <2>1. /\ Pages(idir.size) = Used(tab[d]) /\ Pages(idir.size) \in Nat
        /\ Pages(k) \in Nat /\ Pages(k) <= Pages(idir.size)
    BY <1>1, <2>0, PartsHold, PartsGrow DEF Used, Pages
  <2> QED
    BY <2>1
<1>4. fsi_dir_search(m, d, idir, name) = ReadFold!Folded(base, pages).mem
  BY ReadsAre DEF fsi_dir_search, k
<1> HIDE DEF last
<1>5. Fine(base)
  OBVIOUS
<1>6. ASSUME NEW acc, Fine(acc), NEW p \in 1 .. last PROVE Fine(ReadPage(acc, p))
  <2>1. Used(tab[d]) \in Nat
    BY <1>1, UsedIs
  <2>2. p - 1 \in 0 .. Used(tab[d]) - 1
    BY <1>3, <2>1
  <2> DEFINE b == idir.blocks[p - 1]
             x == dc_read(acc.mem, d, b)
  <2>3. Page(tab, <<d, b>>) /\ b \in Block
    BY <2>2, PageOf
  <2> HIDE DEF b
  <2>4. Steady(x, disk, tab)
    BY <1>6, <2>3, SteadyPage
  <2>5. ReadPage(acc, p) = [acc EXCEPT !.mem = x]
    BY <1>6 DEF ReadPage, b
  <2> HIDE DEF x
  <2> QED
    BY <1>6, <2>4, <2>5
<1>7. DOMAIN pages = 1 .. last /\ \A p \in 1 .. last : pages[p] = p
  OBVIOUS
<1> HIDE DEF base, pages
<1>8. PICK g : ReadFold!Values(g, base, pages, last)
  BY <1>3, <1>7, ReadFold!FoldSteps
<1>9. /\ g[0] = base /\ fsi_dir_search(m, d, idir, name) = g[last].mem
      /\ \A p \in 1 .. last : g[p] = ReadPage(g[p - 1], p)
  BY <1>4, <1>7, <1>8 DEF ReadFold!Values
<1> DEFINE G == {p \in 0 .. last : Fine(g[p])}
<1>10. 0 \in G
  BY <1>3, <1>5, <1>9
<1>11. ASSUME NEW p \in 1 .. last, p - 1 \in G PROVE p \in G
  <2>1. p \in 0 .. last /\ Fine(g[p - 1])
    BY <1>3, <1>11
  <2> HIDE DEF Fine
  <2>2. Fine(ReadPage(g[p - 1], p))
    BY <1>6, <2>1
  <2> QED
    BY <1>9, <2>1, <2>2
<1> HIDE DEF G
<1>12. last \in G
  BY <1>3, <1>10, <1>11, ReadFold!CountUp
<1> QED
  BY <1>2, <1>9, <1>12 DEF G, k

\* fsi_dir_search finds an entry by its name.
LEMMA PositionIs ==
  ASSUME NEW m, NEW disk, NEW tab, Steady(m, disk, tab), EntriesOK(disk, tab),
         TableOK(tab), NEW d \in Inode, tab[d].type = "dir", NEW idir,
         Agrees(idir, tab[d]), NEW name, NEW k, k = Position(m, d, idir, name)
  PROVE  /\ k \in 0 .. tab[d].size
         /\ k = 0 => \A i \in 1 .. tab[d].size : EntryAt(disk, tab, d, i)[1] # name
         /\ k # 0 => EntryAt(disk, tab, d, k)[1] = name
<1> DEFINE e == Entries(m, d, idir, idir.size)
           match == {i \in DOMAIN e : e[i][1] = name}
<1>1. idir.size = tab[d].size /\ tab[d].size \in Nat
  BY DEF Agrees, TableOK, InodeRecord
<1>2. k = IF match = {} THEN 0 ELSE Min(match)
  BY DEF Position
<1>3. DOMAIN e = 1 .. tab[d].size
  BY <1>1 DEF Entries
<1>4. \A i \in 1 .. tab[d].size : e[i] = EntryAt(disk, tab, d, i)
  BY <1>1, EntriesAre
<1> HIDE DEF e
<1>5. match \subseteq 0 .. tab[d].size
  BY <1>3
<1>6. \A i \in 1 .. tab[d].size : i \in match <=> EntryAt(disk, tab, d, i)[1] = name
  BY <1>3, <1>4
<1>7. match \subseteq 1 .. tab[d].size
  BY <1>3
<1> HIDE DEF match
<1>8. match # {} => Min(match) \in match
  BY <1>1, <1>5, Extremes
<1>9. CASE match = {}
  BY <1>1, <1>2, <1>6, <1>9
<1>10. CASE match # {}
  <2>1. k \in match /\ k \in 1 .. tab[d].size
    BY <1>2, <1>7, <1>8, <1>10
  <2> QED
    BY <1>1, <1>6, <2>1
<1> QED
  BY <1>9, <1>10

\* Directories that neither the table nor the disk has changed.
LEMMA DirectoriesStay ==
  ASSUME NEW tab, TableOK(tab), NEW disk, EntriesOK(disk, tab), NEW tab2, NEW disk2,
         \A d \in Inode : tab2[d].type = "dir" =>
             /\ tab2[d] = tab[d]
             /\ \A p \in 0 .. Used(tab[d]) - 1 :
                   disk2[tab[d].blocks[p]] = disk[tab[d].blocks[p]]
  PROVE  EntriesOK(disk2, tab2)
<1>1. ASSUME NEW d \in Inode, tab2[d].type = "dir"
      PROVE  /\ tab[d].type = "dir" /\ tab2[d].size = tab[d].size
             /\ \A k \in 1 .. tab[d].size :
                   EntryAt(disk2, tab2, d, k) = EntryAt(disk, tab, d, k)
  <2>1. tab2[d] = tab[d]
    BY <1>1
  <2> SUFFICES ASSUME NEW k \in 1 .. tab[d].size
               PROVE  EntryAt(disk2, tab2, d, k) = EntryAt(disk, tab, d, k)
    BY <1>1, <2>1
  <2> DEFINE p == (k - 1) \div DIR_PAGE_ENTRIES
             j == (k - 1) % DIR_PAGE_ENTRIES
  <2>2. p \in 0 .. Used(tab[d]) - 1
    BY <1>1, <2>1, EntryPlace
  <2>3. /\ EntryAt(disk2, tab2, d, k) = disk2[tab2[d].blocks[p]][j]
        /\ EntryAt(disk, tab, d, k) = disk[tab[d].blocks[p]][j]
    BY DEF EntryAt
  <2> HIDE DEF p, j
  <2> QED
    BY <1>1, <2>1, <2>2, <2>3
<1> QED
  BY <1>1 DEF EntriesOK

LEMMA InodeUse ==
  ASSUME NEW c, NEW tab, InodesOK(c, tab), NEW e, e.key \in Inode, ~e.dirty, NEW tab2,
         CacheOK(Use(c, e, INODE_CACHE_SIZE), tab2)
  PROVE  InodesOK(Use(c, e, INODE_CACHE_SIZE), tab2)
<1> DEFINE u == Use(c, e, INODE_CACHE_SIZE)
<1>1. IsCache(c) /\ Len(c) <= INODE_CACHE_SIZE
  BY DEF InodesOK, CacheOK
<1>2. /\ \A x \in ToSet(u) : x = e \/ (x \in ToSet(c) /\ x.key # e.key)
      /\ Len(u) <= INODE_CACHE_SIZE
  BY <1>1, CacheSizes, UseKeeps, UseLeaves
<1>3. CacheOK(u, tab2)
  OBVIOUS
<1> HIDE DEF u
<1>4. \A x \in ToSet(u) : ~x.dirty /\ x.key \in Inode
  BY <1>2 DEF InodesOK, AllClean
<1>5. InodesOK(u, tab2)
  BY <1>2, <1>3, <1>4 DEF InodesOK, AllClean
<1> QED
  BY <1>5 DEF u

\* ic_get finds an inode as it is in the table.
LEMMA GetFinds ==
  ASSUME TableOK(inode_tab), NEW c, InodesOK(c, inode_tab), NEW id \in Inode
  PROVE  /\ InodesOK(ic_get(c, id), inode_tab)
         /\ Agrees(Head(ic_get(c, id)).data, inode_tab[id])
<1> DEFINE e == IF Cached(c, id) THEN Lookup(c, id) ELSE Entry(id, inode_tab[id], FALSE)
<1>1. /\ e.key = id /\ ~e.dirty /\ Agrees(e.data, inode_tab[id])
  <2>1. CASE Cached(c, id)
    <3>1. Lookup(c, id) \in ToSet(c) /\ Lookup(c, id).key = id
      BY <2>1, LookupIs
    <3> QED
      BY <2>1, <3>1 DEF InodesOK, CacheOK, AllClean
  <2>2. CASE ~Cached(c, id)
    <3>1. e = Entry(id, inode_tab[id], FALSE)
      BY <2>2
    <3> HIDE DEF e
    <3>2. e.key = id /\ e.data = inode_tab[id] /\ ~e.dirty
      BY <3>1 DEF Entry
    <3> QED
      BY <3>2, AgreesItself
  <2> QED
    BY <2>1, <2>2
<1>2. ic_get(c, id) = Use(c, e, INODE_CACHE_SIZE)
  BY DEF ic_get
<1>3. CacheOK(ic_get(c, id), inode_tab)
  BY GetKeeps DEF InodesOK
<1> HIDE DEF e
<1>4. InodesOK(Use(c, e, INODE_CACHE_SIZE), inode_tab)
  BY <1>1, <1>2, <1>3, InodeUse
<1>5. Head(Use(c, e, INODE_CACHE_SIZE)) = e
  BY CacheSizes, UseKeeps DEF InodesOK, CacheOK
<1> QED
  BY <1>1, <1>2, <1>4, <1>5

\* The caches agree with the disk and the table, which hold a tree.
Settled ==
    /\ TableOK(inode_tab) /\ InodesOK(icache, inode_tab)
    /\ Steady(mem, mem.disk, inode_tab) /\ EntriesOK(mem.disk, inode_tab)

\* A lookup that has come to acc.
WalkOK(acc) ==
    /\ {"mem", "ic", "at", "ok"} \subseteq DOMAIN acc
    /\ InodesOK(acc.ic, inode_tab) /\ Steady(acc.mem, mem.disk, inode_tab)
    /\ acc.at \in Inode

LEMMA WalkKeeps ==
  ASSUME Settled, NEW acc, WalkOK(acc), NEW name
  PROVE  WalkOK(Walk(acc, name))
<1>0. /\ TableOK(inode_tab) /\ EntriesOK(mem.disk, inode_tab)
      /\ {"mem", "ic", "at", "ok"} \subseteq DOMAIN acc
      /\ InodesOK(acc.ic, inode_tab) /\ Steady(acc.mem, mem.disk, inode_tab)
      /\ acc.at \in Inode
  BY DEF Settled, WalkOK
<1> DEFINE ic == ic_get(acc.ic, acc.at)
           idir == Head(ic).data
           k == Position(acc.mem, acc.at, idir, name)
           m == fsi_dir_search(acc.mem, acc.at, idir, name)
           at == IF k = 0 THEN acc.at
                 ELSE Entries(acc.mem, acc.at, idir, idir.size)[k][2]
<1>1. InodesOK(ic, inode_tab) /\ Agrees(idir, inode_tab[acc.at])
  BY <1>0, GetFinds
<1>2. \/ Walk(acc, name) = acc
      \/ Walk(acc, name) = [acc EXCEPT !.ic = ic, !.ok = FALSE]
      \/ /\ idir.type = "dir"
         /\ \E ok : Walk(acc, name) = [mem |-> m, ic |-> ic, ok |-> ok, at |-> at]
  BY DEF Walk
<1> HIDE DEF ic
<1>3. CASE Walk(acc, name) = [acc EXCEPT !.ic = ic, !.ok = FALSE]
  <2> DEFINE x == [acc EXCEPT !.ic = ic, !.ok = FALSE]
  <2>1. DOMAIN x = DOMAIN acc /\ x.ic = ic /\ x.mem = acc.mem /\ x.at = acc.at
    BY <1>0
  <2> HIDE DEF x
  <2> QED
    BY <1>0, <1>1, <1>3, <2>1 DEF x, WalkOK
<1>4. CASE /\ idir.type = "dir"
           /\ \E ok : Walk(acc, name) = [mem |-> m, ic |-> ic, ok |-> ok, at |-> at]
  <2>1. inode_tab[acc.at].type = "dir" /\ idir.size = inode_tab[acc.at].size
        /\ idir.size \in Nat
    BY <1>1, <1>4 DEF Agrees, InodeRecord
  <2>2. Steady(m, mem.disk, inode_tab) /\ k \in 0 .. inode_tab[acc.at].size
    BY <1>0, <1>1, <2>1, SearchKeeps
  <2>3. at \in Inode
    <3>1. CASE k = 0
      BY <1>0, <3>1
    <3>2. CASE k # 0
      <4>1. k \in 1 .. idir.size
        BY <2>1, <2>2, <3>2
      <4> HIDE DEF k
      <4>2. Entries(acc.mem, acc.at, idir, idir.size)[k][2] \in Inode
        BY <1>0, <1>1, <2>1, <4>1, EntriesAre
      <4> QED
        BY <3>2, <4>2
    <3> QED
      BY <3>1, <3>2
  <2> HIDE DEF m, at
  <2> QED
    BY <1>1, <1>4, <2>2, <2>3 DEF WalkOK
<1> QED
  BY <1>2, <1>3, <1>4

\* fs_lookup.
LEMMA LookupKeeps ==
  ASSUME Settled, NEW T, NEW path \in Seq(T)
  PROVE  /\ InodesOK(fs_lookup(path).ic, inode_tab)
         /\ Steady(fs_lookup(path).mem, mem.disk, inode_tab)
<1> DEFINE base == [mem |-> mem, ic |-> icache, ok |-> TRUE, at |-> ROOT]
           n == Len(path)
<1>1. n \in Nat /\ DOMAIN path = 1 .. n
  BY LenProperties
<1>3. WalkOK(base)
  <2>1. ROOT \in Inode
    BY GeometryAssumption DEF ROOT, Inode
  <2>2. /\ InodesOK(icache, inode_tab) /\ Steady(mem, mem.disk, inode_tab)
    BY DEF Settled
  <2> QED
    BY <2>1, <2>2 DEF WalkOK
<1>4. fs_lookup(path) = WalkFold!Folded(base, path)
  BY FoldsAre DEF fs_lookup
<1> HIDE DEF base, n
<1>6. PICK g : WalkFold!Values(g, base, path, n)
  BY <1>1, WalkFold!FoldSteps
<1>7. /\ g[0] = base /\ fs_lookup(path) = g[n]
      /\ \A k \in 1 .. n : g[k] = Walk(g[k - 1], path[k])
  BY <1>4, <1>6 DEF WalkFold!Values
<1> DEFINE G == {k \in 0 .. n : WalkOK(g[k])}
<1>8. 0 \in G
  BY <1>1, <1>3, <1>7
<1>9. ASSUME NEW k \in 1 .. n, k - 1 \in G PROVE k \in G
  <2>1. k \in 0 .. n /\ WalkOK(g[k - 1])
    BY <1>1, <1>9
  <2>2. WalkOK(Walk(g[k - 1], path[k]))
    BY <2>1, WalkKeeps
  <2> QED
    BY <1>7, <2>1, <2>2
<1> HIDE DEF G
<1>10. n \in G
  BY <1>1, <1>8, <1>9, WalkFold!CountUp
<1> QED
  BY <1>7, <1>10 DEF G, WalkOK

LEMMA TypesFound ==
  ASSUME TableOK(inode_tab), NEW c, InodesOK(c, inode_tab), NEW n \in Nat, NEW page,
         DOMAIN page = 1 .. n, \A k \in 1 .. n : page[k][2] \in Inode
  PROVE  InodesOK(FoldLeft(GetType, c, page), inode_tab)
<1>1. PICK g : TypeFold!Values(g, c, page, n)
  BY TypeFold!FoldSteps
<1>2. /\ g[0] = c /\ FoldLeft(GetType, c, page) = g[n]
      /\ \A k \in 1 .. n : g[k] = GetType(g[k - 1], page[k])
  BY <1>1, FoldsAre DEF TypeFold!Values
<1>3. ASSUME NEW ic, InodesOK(ic, inode_tab), NEW e, e[2] \in Inode
      PROVE  InodesOK(GetType(ic, e), inode_tab)
  BY <1>3, GetFinds DEF GetType
<1> DEFINE G == {k \in 0 .. n : InodesOK(g[k], inode_tab)}
<1>4. 0 \in G
  BY <1>2
<1>5. \A k \in 1 .. n : k - 1 \in G => k \in G
  BY <1>2, <1>3
<1> HIDE DEF G
<1>6. n \in G
  BY <1>4, <1>5, TypeFold!CountUp
<1> QED
  BY <1>2, <1>6 DEF G

\* fs_readdir.
LEMMA ReaddirKeeps ==
  ASSUME Settled, NEW d \in Inode, SeenInode(d).type = "dir", NEW max \in Nat,
         Agrees(SeenInode(d), inode_tab[d])
  PROVE  /\ InodesOK(fs_readdir(d, max).ic, inode_tab)
         /\ Steady(fs_readdir(d, max).mem, mem.disk, inode_tab)
<1> DEFINE idir == SeenInode(d)
           num == Min({idir.size, max})
           entries == Entries(mem, d, idir, num)
           base == [mem |-> mem, ic |-> ic_get(icache, d), ok |-> TRUE, d |-> d,
                    entries |-> entries]
           n == Pages(num)
           pages == [p \in 1 .. n |-> p]
           disk == mem.disk
           Fine(acc) == /\ {"mem", "ic", "entries", "d", "ok"} \subseteq DOMAIN acc
                        /\ acc.entries = entries /\ acc.d = d
                        /\ InodesOK(acc.ic, inode_tab)
                        /\ Steady(acc.mem, disk, inode_tab)
<1>1. /\ idir.size \in Nat /\ inode_tab[d].size = idir.size /\ inode_tab[d].type = "dir"
  BY DEF Agrees, InodeRecord
<1>2. num \in Nat /\ num <= idir.size
  BY <1>1, TwoNumbers
<1>3. n \in Nat /\ n <= Used(inode_tab[d]) /\ Used(inode_tab[d]) \in Nat
  BY <1>1, <1>2, Sizes, PartsHold, PartsGrow DEF Used, Pages
<1>4. TableOK(inode_tab) /\ EntriesOK(disk, inode_tab) /\ Steady(mem, disk, inode_tab)
      /\ InodesOK(icache, inode_tab)
  BY DEF Settled
<1>5. fs_readdir(d, max) = ListFold!Folded(base, pages)
  BY FoldsAre DEF fs_readdir
<1> HIDE DEF num
<1>6. \A k \in 1 .. num : entries[k][2] \in Inode
  BY <1>1, <1>2, <1>4, EntriesAre
<1> DEFINE T == {entries[k] : k \in 1 .. num}
<1>7. entries \in Seq(T) /\ Len(entries) = num
  <2>1. entries = [k \in 1 .. num |-> entries[k]]
    BY DEF Entries
  <2> HIDE DEF entries
  <2>2. entries \in [1 .. num -> T]
    BY <2>1
  <2>3. entries \in Seq(T)
    BY <1>2, <2>2, SeqDef
  <2> QED
    BY <1>2, <2>1, <2>3, LenProperties
<1>15. \A p \in 1 .. n : Page(inode_tab, <<d, idir.blocks[p - 1]>>)
                         /\ idir.blocks[p - 1] \in Block
  <2>1. \A p \in 1 .. n : p - 1 \in 0 .. Used(inode_tab[d]) - 1
    BY <1>3
  <2> QED
    BY <1>1, <1>4, <2>1, PageOf
<1> HIDE DEF entries, T, disk, idir
<1>8. Fine(base)
  BY <1>4, GetFinds
<1>9. ASSUME NEW acc, Fine(acc), NEW p \in 1 .. n PROVE Fine(ListPage(acc, p))
  <2> DEFINE from == (p - 1) * DIR_PAGE_ENTRIES + 1
             to == Min({p * DIR_PAGE_ENTRIES, Len(acc.entries)})
             page == SubSeq(acc.entries, from, to)
             ic == FoldLeft(GetType, acc.ic, page)
             m == dc_read(acc.mem, d, idir.blocks[p - 1])
  <2>1. from \in 1 .. num + 1 /\ to \in from - 1 .. num
    <3>1. /\ p - 1 \in Nat /\ p \in Nat /\ ~(n <= p - 1)
          /\ DIR_PAGE_ENTRIES \in Nat \ {0}
      BY <1>3, Sizes
    <3>2. ~(num <= (p - 1) * DIR_PAGE_ENTRIES)
      BY <1>2, <3>1, PartsFew DEF Pages
    <3>3. /\ (p - 1) * DIR_PAGE_ENTRIES \in Nat /\ p * DIR_PAGE_ENTRIES \in Nat
          /\ (p - 1) * DIR_PAGE_ENTRIES <= p * DIR_PAGE_ENTRIES
      BY <3>1, ProductGrows
    <3>4. to = IF p * DIR_PAGE_ENTRIES <= num THEN p * DIR_PAGE_ENTRIES ELSE num
      BY <1>2, <1>7, <1>9, <3>3, TwoNumbers
    <3> HIDE DEF to
    <3> QED
      BY <1>2, <3>2, <3>3, <3>4
  <2>2. \/ ListPage(acc, p) = [acc EXCEPT !.ok = FALSE]
        \/ ListPage(acc, p) = [acc EXCEPT !.mem = m, !.ic = ic]
    BY <1>9 DEF ListPage, idir
  <2> HIDE DEF from, to
  <2>3. /\ to - from + 1 \in Nat /\ DOMAIN page = 1 .. to - from + 1
        /\ \A k \in 1 .. to - from + 1 : page[k] = entries[from + k - 1]
    <3>1. page = SubSeq(entries, from, to)
      BY <1>9
    <3>2. /\ to - from + 1 \in Nat /\ DOMAIN SubSeq(entries, from, to) = 1 .. to - from + 1
          /\ \A k \in 1 .. to - from + 1 :
                SubSeq(entries, from, to)[k] = entries[from + k - 1]
      BY <1>2, <1>7, <2>1
    <3> HIDE DEF page
    <3> QED
      BY <3>1, <3>2
  <2>4. \A k \in 1 .. to - from + 1 : page[k][2] \in Inode
    <3>1. \A k \in 1 .. to - from + 1 : from + k - 1 \in 1 .. num
      BY <1>2, <2>1
    <3> HIDE DEF page
    <3> QED
      BY <1>6, <2>3, <3>1
  <2> HIDE DEF page
  <2>5. InodesOK(ic, inode_tab)
    BY <1>4, <1>9, <2>3, <2>4, TypesFound
  <2>6. Steady(m, disk, inode_tab)
    BY <1>9, <1>15, SteadyPage
  <2> HIDE DEF ic, m
  <2>7. CASE ListPage(acc, p) = [acc EXCEPT !.ok = FALSE]
    <3> DEFINE x == [acc EXCEPT !.ok = FALSE]
    <3>1. /\ DOMAIN x = DOMAIN acc /\ x.ic = acc.ic /\ x.mem = acc.mem /\ x.d = acc.d
          /\ x.entries = acc.entries
      BY <1>9
    <3> HIDE DEF x
    <3> QED
      BY <1>9, <2>7, <3>1 DEF x
  <2>8. CASE ListPage(acc, p) = [acc EXCEPT !.mem = m, !.ic = ic]
    BY <1>9, <2>5, <2>6, <2>8
  <2> QED
    BY <2>2, <2>7, <2>8
<1>10. DOMAIN pages = 1 .. n /\ \A p \in 1 .. n : pages[p] = p
  OBVIOUS
<1> HIDE DEF base, pages, n
<1>11. PICK g : ListFold!Values(g, base, pages, n)
  BY <1>3, <1>10, ListFold!FoldSteps
<1>12. /\ g[0] = base /\ fs_readdir(d, max) = g[n]
       /\ \A k \in 1 .. n : g[k] = ListPage(g[k - 1], k)
  BY <1>5, <1>10, <1>11 DEF ListFold!Values
<1> DEFINE G == {k \in 0 .. n : Fine(g[k])}
<1>13. 0 \in G
  BY <1>3, <1>8, <1>12
<1>14. ASSUME NEW k \in 1 .. n, k - 1 \in G PROVE k \in G
  <2>1. k \in 0 .. n /\ Fine(g[k - 1])
    BY <1>3, <1>14
  <2> HIDE DEF Fine
  <2>2. Fine(ListPage(g[k - 1], k))
    BY <1>9, <2>1
  <2> QED
    BY <1>12, <2>1, <2>2
<1> HIDE DEF G
<1>16. n \in G
  BY <1>3, <1>13, <1>14, ListFold!CountUp
<1> QED
  BY <1>12, <1>16 DEF G, disk

-----------------------------------------------------------------------------
(* Where in a file a call is.                                              *)

Cells == DOMAIN ZeroBlock

\* A block has a cell for each byte, and for each entry of a page.
LEMMA CellsHold ==
  0 .. BLOCK_SIZE - 1 \subseteq Cells /\ 0 .. DIR_PAGE_ENTRIES - 1 \subseteq Cells
<1> DEFINE most == Max({BLOCK_SIZE, DIR_PAGE_ENTRIES})
<1>1. most >= DIR_PAGE_ENTRIES /\ most >= BLOCK_SIZE /\ most \in Nat
  <2>1. BLOCK_SIZE \in Int /\ DIR_PAGE_ENTRIES \in Int
    BY Sizes
  <2>2. most = IF BLOCK_SIZE <= DIR_PAGE_ENTRIES THEN DIR_PAGE_ENTRIES ELSE BLOCK_SIZE
    BY <2>1, TwoNumbers
  <2> QED
    BY <2>2, Sizes
<1>2. Cells = 0 .. most - 1
  BY DEF Cells, ZeroBlock
<1> HIDE DEF Cells, most
<1> QED
  BY <1>1, <1>2, Sizes

\* Where a write of length bytes at o is after j blocks.
Reached(o, length, j) ==
    LET end == ((o \div BLOCK_SIZE) + j) * BLOCK_SIZE
    IN  IF j = 0 THEN o ELSE IF o + length <= end THEN o + length ELSE end

\* Where in its block a part begins.
Begins(o, num, j, start) ==
    /\ num = 0 => start = o % BLOCK_SIZE \/ (j # 0 /\ start = 0)
    /\ num # 0 => start = 0

\* How much is written after the part that begins there.
After(num, start, length) == num + Min({BLOCK_SIZE - start, length - num})

LEMMA ReachNext ==
  ASSUME NEW o \in Nat, NEW length \in Nat, NEW j \in Nat, NEW num \in Nat,
         o + num = Reached(o, length, j), NEW start,
         Begins(o, num, j, start)
  PROVE  /\ After(num, start, length) \in Nat
         /\ o + After(num, start, length) = Reached(o, length, j + 1)
<1> DEFINE q == o \div BLOCK_SIZE
           r == o % BLOCK_SIZE
           end == (q + j) * BLOCK_SIZE
           part == Min({BLOCK_SIZE - start, length - num})
<1>1. q \in Nat /\ r \in 0 .. BLOCK_SIZE - 1 /\ o = q * BLOCK_SIZE + r
      /\ BLOCK_SIZE \in Nat \ {0}
  BY Sizes, DivisionIs
<1>2. Reached(o, length, j) =
         IF j = 0 THEN o ELSE IF o + length <= end THEN o + length ELSE end
  BY DEF Reached
<1>3. Reached(o, length, j + 1) =
         IF o + length <= (q + (j + 1)) * BLOCK_SIZE THEN o + length
         ELSE (q + (j + 1)) * BLOCK_SIZE
  <2>1. j + 1 # 0
    OBVIOUS
  <2> QED
    BY <2>1 DEF Reached
<1> HIDE DEF q
<1>13. /\ num = 0 => start = r \/ (j # 0 /\ start = 0)
       /\ num # 0 => start = 0
  BY DEF Begins
<1>4. start \in 0 .. BLOCK_SIZE - 1
  BY <1>1, <1>13
<1>5. part = IF BLOCK_SIZE - start <= length - num THEN BLOCK_SIZE - start ELSE length - num
  BY <1>1, <1>4, TwoNumbers
<1>14. After(num, start, length) = num + part
  BY DEF After
<1> HIDE DEF part
<1>6. q * BLOCK_SIZE \in Nat /\ end \in Nat /\ (q + (j + 1)) * BLOCK_SIZE = end + BLOCK_SIZE
  BY <1>1, SMTT(60)
<1>7. j = 0 => end = q * BLOCK_SIZE
  BY <1>1
<1>8. j # 0 => q * BLOCK_SIZE + BLOCK_SIZE <= end
  <2> SUFFICES ASSUME j # 0 PROVE q * BLOCK_SIZE + BLOCK_SIZE <= end
    OBVIOUS
  <2>1. (q + 1) * BLOCK_SIZE <= (q + j) * BLOCK_SIZE
    <3>1. q + 1 \in Nat /\ q + j \in Nat /\ q + 1 <= q + j
      BY <1>1
    <3> QED
      BY <1>1, <3>1, ProductGrows
  <2>2. (q + 1) * BLOCK_SIZE = q * BLOCK_SIZE + BLOCK_SIZE
    BY <1>1, SMTT(60)
  <2> QED
    BY <2>1, <2>2
<1> DEFINE low == q * BLOCK_SIZE
<1>9. o = low + r /\ low \in Nat /\ (j = 0 => end = low) /\ (j # 0 => low + BLOCK_SIZE <= end)
  BY <1>1, <1>6, <1>7, <1>8
<1> HIDE DEF low, end, r
<1>10. CASE j = 0
  <2>1. num = 0 /\ start = r
    BY <1>2, <1>10, <1>13
  <2> QED
    BY <1>1, <1>3, <1>4, <1>5, <1>6, <1>9, <1>10, <1>14, <2>1
<1>11. CASE j # 0 /\ num = 0
  <2>1. length = 0
    BY <1>1, <1>2, <1>6, <1>9, <1>11
  <2>2. part = 0
    BY <1>1, <1>4, <1>5, <1>11, <2>1
  <2> QED
    BY <1>1, <1>3, <1>6, <1>9, <1>11, <1>14, <2>1, <2>2
<1>12. CASE j # 0 /\ num # 0
  <2>1. start = 0 /\ o + num = IF o + length <= end THEN o + length ELSE end
    BY <1>2, <1>12, <1>13
  <2> QED
    BY <1>1, <1>3, <1>5, <1>6, <1>9, <1>12, <1>14, <2>1
<1> QED
  BY <1>10, <1>11, <1>12

\* The blocks that a write is about.
LEMMA WriteEnds ==
  ASSUME NEW o \in Nat, NEW length \in Nat
  PROVE  LET n == OFFSET_TO_BLOCKS(o + length) - o \div BLOCK_SIZE
         IN  n \in Nat /\ Reached(o, length, n) = o + length
<1> DEFINE q == o \div BLOCK_SIZE
           p == OFFSET_TO_BLOCKS(o + length)
           n == p - q
<1>1. /\ q \in Nat /\ (o % BLOCK_SIZE) \in 0 .. BLOCK_SIZE - 1
      /\ o = q * BLOCK_SIZE + (o % BLOCK_SIZE) /\ BLOCK_SIZE \in Nat \ {0}
  BY Sizes, DivisionIs
<1>2. p \in Nat /\ o + length <= p * BLOCK_SIZE
  <2>1. o + length \in Nat
    OBVIOUS
  <2> QED
    BY <1>1, <2>1, PartsHold DEF OFFSET_TO_BLOCKS
<1>3. n \in Nat => Reached(o, length, n) =
         IF n = 0 THEN o
         ELSE IF o + length <= p * BLOCK_SIZE THEN o + length ELSE p * BLOCK_SIZE
  <2> SUFFICES ASSUME n \in Nat
               PROVE  Reached(o, length, n) =
                         IF n = 0 THEN o
                         ELSE IF o + length <= p * BLOCK_SIZE THEN o + length
                              ELSE p * BLOCK_SIZE
    OBVIOUS
  <2>1. q + n = p
    BY <1>1, <1>2
  <2> HIDE DEF n, p
  <2> QED
    BY <2>1 DEF Reached
<1> HIDE DEF p, q
<1>4. p * BLOCK_SIZE \in Nat /\ q * BLOCK_SIZE \in Nat
  BY <1>1, <1>2, ProductGrows
<1>5. q <= p
  <2> SUFFICES ASSUME p < q PROVE FALSE
    BY <1>1, <1>2
  <2>1. (p + 1) * BLOCK_SIZE <= q * BLOCK_SIZE
    <3>1. p + 1 \in Nat /\ p + 1 <= q
      BY <1>1, <1>2
    <3> QED
      BY <1>1, <3>1, ProductGrows
  <2>2. (p + 1) * BLOCK_SIZE = p * BLOCK_SIZE + BLOCK_SIZE
    BY <1>1, <1>2, SMTT(60)
  <2> QED
    BY <1>1, <1>2, <1>4, <2>1, <2>2
<1>6. n = 0 => length = 0
  <2>1. n = 0 => p = q
    BY <1>1, <1>2
  <2> QED
    BY <1>1, <1>2, <1>4, <2>1
<1>7. n \in Nat
  BY <1>1, <1>2, <1>5
<1> QED
  BY <1>2, <1>3, <1>6, <1>7 DEF p, q

-----------------------------------------------------------------------------
(* What a read returns.                                                    *)

\* Byte p of the file, the first one being byte 1.
Byte(disk, ifile, p) ==
    disk[ifile.blocks[(p - 1) \div BLOCK_SIZE]][(p - 1) % BLOCK_SIZE]

\* The num bytes from offset o on.
Bytes(disk, ifile, o, num) == [k \in 1 .. num |-> Byte(disk, ifile, o + k)]

\* Unit n is unit r of part q.
Divides(n, length, q, r) ==
    q \in Nat /\ r \in 0 .. length - 1 /\ n = q * length + r

LEMMA DivisionOnce ==
  ASSUME NEW length \in Nat \ {0}, NEW q, NEW r, NEW n \in Nat,
         Divides(n, length, q, r)
  PROVE  n \div length = q /\ n % length = r
<1> DEFINE p == n \div length
           s == n % length
<1>1. p \in Nat /\ s \in 0 .. length - 1 /\ n = p * length + s
  BY DivisionIs
<1>0. q \in Nat /\ r \in 0 .. length - 1 /\ n = q * length + r
  BY DEF Divides
<1> HIDE DEF p, s
<1>2. ~(p < q)
  <2> SUFFICES ASSUME p < q PROVE FALSE
    OBVIOUS
  <2>1. (p + 1) * length <= q * length /\ p * length \in Nat /\ q * length \in Nat
    BY <1>0, <1>1, ProductGrows
  <2>2. (p + 1) * length = p * length + length
    BY <1>1, SMTT(60)
  <2> QED
    BY <1>0, <1>1, <2>1, <2>2
<1>3. ~(q < p)
  <2> SUFFICES ASSUME q < p PROVE FALSE
    OBVIOUS
  <2>1. (q + 1) * length <= p * length /\ p * length \in Nat /\ q * length \in Nat
    BY <1>0, <1>1, ProductGrows
  <2>2. (q + 1) * length = q * length + length
    BY <1>0, SMTT(60)
  <2> QED
    BY <1>0, <1>1, <2>1, <2>2
<1>4. p = q
  BY <1>0, <1>1, <1>2, <1>3
<1>5. p * length \in Nat
  BY <1>1, ProductGrows
<1>6. s = r
  BY <1>0, <1>1, <1>4, <1>5
<1> QED
  BY <1>4, <1>6 DEF p, s

\* A part begins in the block it is said to be in.
LEMMA PartStands ==
  ASSUME NEW o \in Nat, NEW length \in Nat, NEW j \in Nat, NEW num \in Nat,
         o + num = Reached(o, length, j), num < length, NEW start,
         start = Start(num, o)
  PROVE  /\ start \in 0 .. BLOCK_SIZE - 1
         /\ o + num = ((o \div BLOCK_SIZE) + j) * BLOCK_SIZE + start
         /\ Begins(o, num, j, start)
<1> DEFINE q == o \div BLOCK_SIZE
           r == o % BLOCK_SIZE
           end == (q + j) * BLOCK_SIZE
<1>1. /\ q \in Nat /\ r \in 0 .. BLOCK_SIZE - 1 /\ o = q * BLOCK_SIZE + r
      /\ BLOCK_SIZE \in Nat \ {0}
  BY Sizes, DivisionIs
<1>2. o + num = IF j = 0 THEN o ELSE IF o + length <= end THEN o + length ELSE end
  BY DEF Reached
<1>3. start = IF num = 0 THEN r ELSE 0
  BY DEF Start
<1>4. Begins(o, num, j, start)
  BY <1>3 DEF Begins
<1> HIDE DEF q, r
<1>5. end \in Nat /\ q * BLOCK_SIZE \in Nat
  BY <1>1, SMTT(60)
<1>6. CASE j = 0
  <2>1. num = 0 /\ start = r
    BY <1>2, <1>3, <1>6
  <2>2. end = q * BLOCK_SIZE
    BY <1>1, <1>6
  <2> QED
    BY <1>1, <1>4, <2>1, <2>2 DEF q
<1>7. CASE j # 0
  <2>1. o + num = end
    BY <1>2, <1>5, <1>7
  <2>2. (q + 1) * BLOCK_SIZE <= end /\ (q + 1) * BLOCK_SIZE = q * BLOCK_SIZE + BLOCK_SIZE
    <3>1. q + 1 \in Nat /\ q + j \in Nat /\ q + 1 <= q + j
      BY <1>1, <1>7
    <3>2. (q + 1) * BLOCK_SIZE <= end
      BY <1>1, <3>1, ProductGrows
    <3>3. (q + 1) * BLOCK_SIZE = q * BLOCK_SIZE + BLOCK_SIZE
      BY <1>1, SMTT(60)
    <3> QED
      BY <3>2, <3>3
  <2> HIDE DEF end
  <2>3. num # 0
    BY <1>1, <1>5, <2>1, <2>2
  <2>4. start = 0
    BY <1>3, <2>3
  <2>5. o + num = end + start /\ start \in 0 .. BLOCK_SIZE - 1
    BY <1>1, <1>5, <2>1, <2>4
  <2> QED
    BY <1>4, <2>5 DEF end, q
<1> QED
  BY <1>6, <1>7

\* Two slices that meet.
Slice(f, n, m) == [k \in 1 .. m |-> f[n + k]]

LEMMA SlicesJoin ==
  ASSUME NEW f, NEW n \in Nat, NEW m \in Nat
  PROVE  Slice(f, 0, n) \o Slice(f, n, m) = Slice(f, 0, n + m)
<1> DEFINE a == Slice(f, 0, n)
           b == Slice(f, n, m)
<1>0. a = [k \in 1 .. n |-> f[k]] /\ b = [k \in 1 .. m |-> f[n + k]]
  BY DEF Slice
<1> HIDE DEF a, b
<1>1. PICK S : \A k \in 1 .. n + m : f[k] \in S
  <2>1. \A k \in 1 .. n + m : f[k] \in {f[i] : i \in 1 .. n + m}
    OBVIOUS
  <2> QED
    BY <2>1
<1>2. a \in Seq(S) /\ b \in Seq(S) /\ Len(a) = n /\ Len(b) = m
  BY <1>0, <1>1
<1> DEFINE c == a \o b
<1>3. c \in Seq(S) /\ Len(c) = n + m
  BY <1>2
<1>4. \A k \in 1 .. n : c[k] = f[k]
  BY <1>0, <1>2
<1>5. \A k \in 1 .. m : c[n + k] = f[n + k]
  BY <1>0, <1>2
<1> HIDE DEF c
<1>6. \A k \in 1 .. n + m : c[k] = f[k]
  <2> SUFFICES ASSUME NEW k \in 1 .. n + m PROVE c[k] = f[k]
    OBVIOUS
  <2>1. CASE k <= n
    BY <1>4, <2>1
  <2>2. CASE ~(k <= n)
    <3>1. k - n \in 1 .. m /\ n + (k - n) = k
      BY <2>2
    <3>2. c[n + (k - n)] = f[n + (k - n)]
      BY <1>5, <3>1
    <3> QED
      BY <3>1, <3>2
  <2> QED
    BY <2>1, <2>2
<1>7. c = [k \in 1 .. n + m |-> f[k]]
  BY <1>3, <1>6
<1>8. Slice(f, 0, n + m) = [k \in 1 .. n + m |-> f[k]]
  BY DEF Slice
<1> QED
  BY <1>7, <1>8 DEF a, b, c

\* A read at o of max bytes of ifile, after j blocks.
ReadSoFar(acc, disk, tab, ifile, o, max, j) ==
    /\ {"mem", "buffer", "ifile", "o", "max"} \subseteq DOMAIN acc
    /\ acc.ifile = ifile /\ acc.o = o /\ acc.max = max
    /\ Steady(acc.mem, disk, tab)
    /\ \E num \in Nat : /\ o + num = Reached(o, max, j)
                        /\ acc.buffer = Bytes(disk, ifile, o, num)

\* The part of one block.
PartOf(block, start, part) == [i \in 1 .. part |-> block[start + i - 1]]

\* A read of max bytes at o, num of them done, goes on with a part of block j.
Reads(disk, ifile, o, max, j, num, block, start, part) ==
    /\ o \in Nat /\ max \in Nat \ {0} /\ j \in Nat /\ num \in Nat
    /\ o + num = Reached(o, max, j) /\ num <= max
    /\ block = disk[ifile.blocks[(o \div BLOCK_SIZE) + j]]
    /\ start = Start(num, o) /\ part = Min({BLOCK_SIZE - start, max - num})

LEMMA PartRead ==
  ASSUME NEW disk, NEW ifile, NEW o, NEW max, NEW j, NEW num, NEW block, NEW start,
         NEW part, Reads(disk, ifile, o, max, j, num, block, start, part)
  PROVE  /\ part \in Nat /\ o + (num + part) = Reached(o, max, j + 1)
         /\ Bytes(disk, ifile, o, num) \o PartOf(block, start, part)
               = Bytes(disk, ifile, o, num + part)
<1>0. /\ o \in Nat /\ max \in Nat \ {0} /\ j \in Nat /\ num \in Nat
      /\ o + num = Reached(o, max, j) /\ num <= max
      /\ block = disk[ifile.blocks[(o \div BLOCK_SIZE) + j]]
      /\ start = Start(num, o) /\ part = Min({BLOCK_SIZE - start, max - num})
  BY DEF Reads
<1> DEFINE q == o \div BLOCK_SIZE
           f == [k \in 1 .. num + part |-> Byte(disk, ifile, o + k)]
           a == Bytes(disk, ifile, o, num)
           b == PartOf(block, start, part)
<1>1. q \in Nat /\ o % BLOCK_SIZE \in 0 .. BLOCK_SIZE - 1 /\ BLOCK_SIZE \in Nat \ {0}
  BY <1>0, Sizes, DivisionIs
<1>2. start \in 0 .. BLOCK_SIZE - 1
  BY <1>0, <1>1 DEF Start
<1>3. part = IF BLOCK_SIZE - start <= max - num THEN BLOCK_SIZE - start ELSE max - num
  BY <1>0, <1>1, <1>2, TwoNumbers
<1>4. part \in Nat /\ part <= BLOCK_SIZE - start /\ part <= max - num
  BY <1>0, <1>1, <1>2, <1>3
<1>5. Begins(o, num, j, start)
  BY <1>0 DEF Begins, Start
<1>6. o + (num + part) = Reached(o, max, j + 1)
  <2>1. o + After(num, start, max) = Reached(o, max, j + 1)
    BY <1>0, <1>5, ReachNext
  <2> QED
    BY <1>0, <2>1 DEF After
<1>12. o \in Nat /\ num \in Nat
  BY <1>0
<1>7. b = Slice(f, num, part)
  <2> SUFFICES ASSUME NEW k \in 1 .. part PROVE block[start + k - 1] = f[num + k]
    BY DEF PartOf, Slice
  <2>1. num < max
    BY <1>0, <1>4
  <2>2. o + num = (q + j) * BLOCK_SIZE + start
    BY <1>0, <2>1, PartStands
  <2>3. num + k \in 1 .. num + part
    BY <1>0, <1>4
  <2>4. f[num + k] = Byte(disk, ifile, o + (num + k))
    BY <1>0, <2>3
  <2> DEFINE p == o + (num + k) - 1
             e == q + j
             s == start + k - 1
  <2>5. e \in Nat /\ e * BLOCK_SIZE \in Nat
    BY <1>0, <1>1, ProductGrows
  <2>6. s \in 0 .. BLOCK_SIZE - 1 /\ p \in Nat
    BY <1>0, <1>1, <1>2, <1>4
  <2>7. p = e * BLOCK_SIZE + s
    <3>1. e * BLOCK_SIZE = (q + j) * BLOCK_SIZE
      OBVIOUS
    <3> HIDE DEF e
    <3>2. o + num = e * BLOCK_SIZE + start
      BY <1>0, <2>2, <3>1
    <3> QED
      BY <1>12, <1>2, <2>5, <3>2
  <2> HIDE DEF p, e, s
  <2>11. Divides(p, BLOCK_SIZE, e, s)
    BY <1>0, <2>5, <2>6, <2>7 DEF Divides
  <2>8. p \div BLOCK_SIZE = e /\ p % BLOCK_SIZE = s
    BY <1>0, <1>1, <2>6, <2>11, DivisionOnce
  <2>9. Byte(disk, ifile, o + (num + k)) = disk[ifile.blocks[e]][s]
    BY <1>12, <2>8 DEF Byte, p
  <2>10. block = disk[ifile.blocks[e]]
    BY <1>0 DEF e
  <2> QED
    BY <1>0, <2>4, <2>9, <2>10 DEF s
<1>8. a = Slice(f, 0, num)
  BY <1>0, <1>4 DEF Bytes, Slice
<1>10. Slice(f, 0, num + part) = Bytes(disk, ifile, o, num + part)
  BY <1>0, <1>4 DEF Bytes, Slice
<1> HIDE DEF a, b, f
<1>9. a \o b = Slice(f, 0, num + part)
  BY <1>0, <1>4, <1>7, <1>8, SlicesJoin
<1> QED
  BY <1>0, <1>4, <1>6, <1>9, <1>10 DEF a, b

LEMMA ReadNext ==
  ASSUME NEW disk, NEW tab, NEW ifile, NEW o \in Nat, NEW max \in Nat \ {0},
         NEW j \in Nat, NEW acc, ReadSoFar(acc, disk, tab, ifile, o, max, j),
         ifile.blocks[(o \div BLOCK_SIZE) + j] \in Block
  PROVE  ReadSoFar(ReadBlock(acc, (o \div BLOCK_SIZE) + j), disk, tab, ifile, o, max, j + 1)
<1> DEFINE i == (o \div BLOCK_SIZE) + j
           b == acc.ifile.blocks[i]
           start == Start(Len(acc.buffer), acc.o)
           part == Min({BLOCK_SIZE - start, acc.max - Len(acc.buffer)})
           x == bc_read(acc.mem, b)
           y == acc.buffer \o [k \in 1 .. part |-> bc_data(acc.mem, b)[start + k - 1]]
           z == [acc EXCEPT !.mem = x, !.buffer = y]
<1>1. ReadBlock(acc, i) = z
  BY DEF ReadBlock, ReadSoFar
<1>2. PICK num \in Nat : o + num = Reached(o, max, j) /\ acc.buffer = Bytes(disk, ifile, o, num)
  BY DEF ReadSoFar
<1>3. Len(acc.buffer) = num
  BY <1>2 DEF Bytes
<1>4. /\ b = ifile.blocks[i] /\ b \in Block /\ acc.o = o /\ acc.max = max
      /\ Steady(acc.mem, disk, tab)
  BY DEF ReadSoFar
<1>5. Steady(x, disk, tab) /\ bc_data(acc.mem, b) = disk[b]
  BY <1>4, SteadyBlock
<1>6. num <= max
  <2>0. o \div BLOCK_SIZE \in Nat /\ BLOCK_SIZE \in Nat \ {0}
    BY Sizes, DivisionIs
  <2>1. (o \div BLOCK_SIZE) + j \in Nat
    BY <2>0
  <2>2. ((o \div BLOCK_SIZE) + j) * BLOCK_SIZE \in Nat
    BY <2>1, Sizes, ProductGrows
  <2> DEFINE end == ((o \div BLOCK_SIZE) + j) * BLOCK_SIZE
  <2>3. o + num = IF j = 0 THEN o ELSE IF o + max <= end THEN o + max ELSE end
    BY <1>2 DEF Reached
  <2>4. end \in Nat
    BY <2>2
  <2> HIDE DEF end
  <2> QED
    BY <2>3, <2>4
<1>7. /\ start = Start(num, o) /\ part = Min({BLOCK_SIZE - start, max - num})
      /\ y = Bytes(disk, ifile, o, num) \o PartOf(disk[b], start, part)
  BY <1>2, <1>3, <1>4, <1>5 DEF PartOf
<1>8. PICK block : block = disk[b]
  OBVIOUS
<1>13. block = disk[ifile.blocks[(o \div BLOCK_SIZE) + j]]
  BY <1>4, <1>8
<1> HIDE DEF start, part, x, y, b
<1>14. y = Bytes(disk, ifile, o, num) \o PartOf(block, start, part)
  BY <1>7, <1>8
<1>15. /\ start = Start(num, o) /\ part = Min({BLOCK_SIZE - start, max - num})
       /\ o + num = Reached(o, max, j) /\ max \in Nat /\ 0 < max
  BY <1>2, <1>7
<1>16. Reads(disk, ifile, o, max, j, num, block, start, part)
  BY <1>6, <1>13, <1>15 DEF Reads
<1>9. /\ part \in Nat /\ o + (num + part) = Reached(o, max, j + 1)
      /\ y = Bytes(disk, ifile, o, num + part)
  BY <1>14, <1>16, PartRead
<1>10. /\ DOMAIN z = DOMAIN acc /\ z.mem = x /\ z.buffer = y
       /\ z.ifile = acc.ifile /\ z.o = acc.o /\ z.max = acc.max
  BY DEF ReadSoFar
<1> HIDE DEF z, i
<1>11. num + part \in Nat
  BY <1>9
<1>12. ReadSoFar(z, disk, tab, ifile, o, max, j + 1)
  BY <1>5, <1>9, <1>10, <1>11 DEF ReadSoFar
<1> QED
  BY <1>1, <1>12 DEF i

\* fs_read: the bytes that are asked for, as far as the file goes.
LEMMA ReadReturns ==
  ASSUME Settled, NEW f \in Inode, SeenInode(f).type = "file", NEW o \in Nat,
         NEW count \in Nat, Agrees(SeenInode(f), inode_tab[f])
  PROVE  LET max == Min({count, SeenInode(f).size - o})
         IN  /\ Steady(fs_read(SeenInode(f), o, count).mem, mem.disk, inode_tab)
             /\ fs_read(SeenInode(f), o, count).buffer =
                   Bytes(mem.disk, SeenInode(f), o, IF max <= 0 THEN 0 ELSE max)
<1> DEFINE ifile == SeenInode(f)
           max == Min({count, ifile.size - o})
           first == o \div BLOCK_SIZE
           last == IF max <= 0 THEN first - 1 ELSE (o + max - 1) \div BLOCK_SIZE
           n == last - first + 1
           base == [mem |-> mem, buffer |-> << >>, ifile |-> ifile, o |-> o, max |-> max]
           blocks == [j \in 1 .. n |-> first + j - 1]
           disk == mem.disk
           r == fs_read(ifile, o, count)
           SoFar(acc, j) == ReadSoFar(acc, disk, inode_tab, ifile, o, max, j)
<1>1. /\ ifile \in InodeRecord /\ ifile.size \in Nat
      /\ ifile.blocks \in [0 .. INODE_NUM_BLKS - 1 -> Block]
      /\ Used(ifile) <= INODE_NUM_BLKS /\ Used(ifile) = OFFSET_TO_BLOCKS(ifile.size)
  BY DEF Agrees, InodeRecord, Settled, TableOK, Used
<1>2. first \in Nat
  BY Sizes, DivisionIs
<1>3. r = ReadBlockFold!Folded(base, blocks)
  BY ReadsAre DEF fs_read
<1>4. SoFar(base, 0)
  <2>1. o + 0 = Reached(o, max, 0)
    BY DEF Reached
  <2>2. base.buffer = Bytes(disk, ifile, o, 0)
    BY DEF Bytes
  <2>3. /\ base.mem = mem /\ base.ifile = ifile /\ base.o = o /\ base.max = max
        /\ {"mem", "buffer", "ifile", "o", "max"} \subseteq DOMAIN base
    OBVIOUS
  <2> HIDE DEF base
  <2>4. Steady(base.mem, disk, inode_tab)
    BY <2>3 DEF Settled
  <2> HIDE DEF ifile, disk, max
  <2> QED
    BY <2>1, <2>2, <2>3, <2>4 DEF ReadSoFar
<1>5. DOMAIN blocks = 1 .. n /\ \A j \in 1 .. n : blocks[j] = first + j - 1
  OBVIOUS
<1>6. CASE max <= 0
  <2>1. n = 0
    BY <1>2, <1>6
  <2>2. PICK g : ReadBlockFold!Values(g, base, blocks, 0)
    <3> HIDE DEF base, blocks, n
    <3> QED
      BY <1>5, <2>1, ReadBlockFold!FoldSteps
  <2>3. r = base
    BY <1>3, <2>2 DEF ReadBlockFold!Values
  <2>4. r.buffer = Bytes(disk, ifile, o, 0) /\ r.mem = mem
    BY <2>3 DEF Bytes
  <2> QED
    BY <1>6, <2>4 DEF Settled
<1>7. CASE ~(max <= 0)
  <2>1. max \in Nat \ {0} /\ max <= ifile.size - o
    BY <1>1, <1>7, TwoNumbers
  <2> HIDE DEF max, ifile
  <2> DEFINE p == OFFSET_TO_BLOCKS(o + max)
  <2>2. n = p - first /\ n \in Nat /\ Reached(o, max, n) = o + max
    <3>1. o + max - 1 \in Nat /\ (o + max - 1) + 1 = o + max
      BY <2>1
    <3>2. /\ (o + max - 1) \div BLOCK_SIZE \in Nat
          /\ Parts(o + max, BLOCK_SIZE) = (o + max - 1) \div BLOCK_SIZE + 1
      BY <3>1, Sizes, PartsNext
    <3>3. last = (o + max - 1) \div BLOCK_SIZE
      BY <1>7
    <3>4. max \in Nat /\ p - first \in Nat /\ Reached(o, max, p - first) = o + max
      BY <2>1, WriteEnds
    <3>5. n = p - first
      <4>1. p = (o + max - 1) \div BLOCK_SIZE + 1
        BY <3>2 DEF OFFSET_TO_BLOCKS
      <4> HIDE DEF p, first, last
      <4> QED
        BY <1>2, <3>2, <3>3, <4>1
    <3> HIDE DEF n, p, first
    <3> QED
      BY <3>4, <3>5
  <2>3. p \in Nat /\ p <= INODE_NUM_BLKS
    <3>1. o + max \in Nat /\ o + max <= ifile.size
      BY <1>1, <2>1
    <3>2. p \in Nat /\ p <= OFFSET_TO_BLOCKS(ifile.size)
      BY <1>1, <3>1, Sizes, PartsHold, PartsGrow DEF OFFSET_TO_BLOCKS
    <3>3. OFFSET_TO_BLOCKS(ifile.size) \in Nat
      BY <1>1, Sizes, PartsHold DEF OFFSET_TO_BLOCKS
    <3> HIDE DEF p
    <3> QED
      BY <1>1, <3>2, <3>3, Sizes
  <2> HIDE DEF n, p, first, last, base, blocks, disk, r
  <2>4. ASSUME NEW j \in 1 .. n, NEW acc, SoFar(acc, j - 1)
        PROVE  SoFar(ReadBlock(acc, first + j - 1), j)
    <3>1. first + (j - 1) = first + j - 1 /\ j - 1 \in Nat /\ (j - 1) + 1 = j
      BY <1>2, <2>2
    <3>2. first + (j - 1) \in 0 .. INODE_NUM_BLKS - 1
      BY <1>2, <2>2, <2>3, Sizes
    <3>3. ifile.blocks[first + (j - 1)] \in Block
      BY <1>1, <3>2
    <3> DEFINE l == j - 1
    <3>4. /\ l \in Nat /\ ReadSoFar(acc, disk, inode_tab, ifile, o, max, l)
          /\ ifile.blocks[(o \div BLOCK_SIZE) + l] \in Block
      BY <2>4, <3>1, <3>3 DEF first
    <3> HIDE DEF l
    <3>5. ReadSoFar(ReadBlock(acc, (o \div BLOCK_SIZE) + l), disk, inode_tab, ifile, o,
                    max, l + 1)
      BY <2>1, <3>4, ReadNext
    <3>6. (o \div BLOCK_SIZE) + l = first + j - 1 /\ l + 1 = j
      BY <3>1 DEF first, l
    <3> QED
      BY <3>5, <3>6
  <2>5. PICK g : ReadBlockFold!Values(g, base, blocks, n)
    BY <1>5, <2>2, ReadBlockFold!FoldSteps
  <2>6. /\ g[0] = base /\ r = g[n]
        /\ \A j \in 1 .. n : g[j] = ReadBlock(g[j - 1], first + j - 1)
    BY <1>3, <1>5, <2>5 DEF ReadBlockFold!Values
  <2> HIDE DEF SoFar
  <2> DEFINE G == {j \in 0 .. n : SoFar(g[j], j)}
  <2>7. 0 \in G
    BY <1>4, <2>2, <2>6
  <2>8. ASSUME NEW j \in 1 .. n, j - 1 \in G PROVE j \in G
    <3>1. j \in 0 .. n /\ SoFar(g[j - 1], j - 1)
      BY <2>2, <2>8
    <3>2. SoFar(ReadBlock(g[j - 1], first + j - 1), j)
      BY <2>4, <3>1
    <3> QED
      BY <2>6, <3>1, <3>2
  <2>9. SoFar(r, n)
    <3> HIDE DEF G
    <3>1. n \in Nat
      BY <2>2
    <3>2. n \in G
      BY <2>7, <2>8, <3>1, ReadBlockFold!CountUp
    <3> QED
      BY <2>6, <3>2 DEF G
  <2>10. Steady(r.mem, disk, inode_tab) /\ r.buffer = Bytes(disk, ifile, o, max)
    <3>1. PICK num \in Nat : /\ o + num = Reached(o, max, n)
                             /\ r.buffer = Bytes(disk, ifile, o, num)
      BY <2>9 DEF SoFar, ReadSoFar
    <3>2. num = max
      BY <2>1, <2>2, <3>1
    <3> QED
      BY <2>9, <3>1, <3>2 DEF SoFar, ReadSoFar
  <2> QED
    BY <1>7, <2>10 DEF r, disk, ifile, max
<1> QED
  BY <1>6, <1>7

-----------------------------------------------------------------------------
(* What a write leaves.                                                    *)

\* Cell c of block i of a file is among the num bytes from o on.
Within(i, c, o, num) == o <= i * BLOCK_SIZE + c /\ i * BLOCK_SIZE + c < o + num

\* A write of length bytes at o, num of them done, goes on with part of block j.
Writes(o, length, j, num, start, part) ==
    /\ o \in Nat /\ length \in Nat /\ j \in Nat /\ num \in Nat
    /\ o + num = Reached(o, length, j) /\ num <= length
    /\ start \in 0 .. BLOCK_SIZE - 1 /\ (num < length => start = Start(num, o))
    /\ part = Min({BLOCK_SIZE - start, length - num})

\* What the part of a block that begins at start holds of a file.
LEMMA PartWithin ==
  ASSUME NEW o, NEW length, NEW j, NEW num, NEW start, NEW part,
         Writes(o, length, j, num, start, part),
         NEW i \in Nat, NEW c \in 0 .. BLOCK_SIZE - 1
  PROVE  LET here == i = (o \div BLOCK_SIZE) + j /\ c \in start .. start + part - 1
         IN  /\ Within(i, c, o, num + part) <=> Within(i, c, o, num) \/ here
             /\ i = (o \div BLOCK_SIZE) + j => ~Within(i, c, o, num)
             /\ here => i * BLOCK_SIZE + c - o + 1 = num + c - start + 1
<1> DEFINE q == o \div BLOCK_SIZE
           low == (q + j) * BLOCK_SIZE
           at == i * BLOCK_SIZE
<1>0. /\ o \in Nat /\ length \in Nat /\ j \in Nat /\ num \in Nat
      /\ o + num = Reached(o, length, j) /\ num <= length
      /\ start \in 0 .. BLOCK_SIZE - 1 /\ (num < length => start = Start(num, o))
      /\ part = Min({BLOCK_SIZE - start, length - num})
  BY DEF Writes
<1>1. q \in Nat /\ BLOCK_SIZE \in Nat \ {0} /\ q + j \in Nat
  <2>1. q \in Nat /\ BLOCK_SIZE \in Nat \ {0}
    BY <1>0, Sizes, DivisionIs
  <2> HIDE DEF q
  <2> QED
    BY <1>0, <2>1
<1>2. part = IF BLOCK_SIZE - start <= length - num THEN BLOCK_SIZE - start ELSE length - num
  BY <1>0, <1>1, TwoNumbers
<1>3. o + num = IF j = 0 THEN o ELSE IF o + length <= low THEN o + length ELSE low
  BY <1>0 DEF Reached
<1>4. num < length => o + num = low + start
  BY <1>0, PartStands
<1> HIDE DEF q
<1>5. low \in Nat /\ at \in Nat
  BY <1>0, <1>1, ProductGrows
<1>6. i = q + j => at = low
  OBVIOUS
<1>7. i < q + j => at + BLOCK_SIZE <= low
  <2> SUFFICES ASSUME i < q + j PROVE at + BLOCK_SIZE <= low
    OBVIOUS
  <2>1. (i + 1) * BLOCK_SIZE <= low
    BY <1>0, <1>1, ProductGrows
  <2>2. (i + 1) * BLOCK_SIZE = at + BLOCK_SIZE
    BY <1>1, SMTT(60)
  <2> QED
    BY <2>1, <2>2
<1>8. i > q + j => low + BLOCK_SIZE <= at
  <2> SUFFICES ASSUME i > q + j PROVE low + BLOCK_SIZE <= at
    OBVIOUS
  <2>1. (q + j + 1) * BLOCK_SIZE <= at
    <3>1. q + j + 1 \in Nat /\ q + j + 1 <= i
      BY <1>0, <1>1
    <3> QED
      BY <1>1, <3>1, ProductGrows
  <2>2. (q + j + 1) * BLOCK_SIZE = low + BLOCK_SIZE
    BY <1>1, SMTT(60)
  <2> QED
    BY <2>1, <2>2
<1>9. /\ Within(i, c, o, num) <=> o <= at + c /\ at + c < o + num
      /\ Within(i, c, o, num + part) <=> o <= at + c /\ at + c < o + (num + part)
  BY DEF Within
<1>10. i * BLOCK_SIZE + c - o + 1 = at + c - o + 1
  OBVIOUS
<1> DEFINE here == i = q + j /\ c \in start .. start + part - 1
<1>11. part \in Nat /\ part <= BLOCK_SIZE - start /\ part <= length - num
       /\ (part # 0 => num < length)
  BY <1>0, <1>1, <1>2
<1> HIDE DEF at, low
<1>12. i = q + j => ~Within(i, c, o, num)
  BY <1>0, <1>3, <1>5, <1>6, <1>9
<1>13. here => at + c - o + 1 = num + c - start + 1
  BY <1>0, <1>4, <1>5, <1>6, <1>11
<1>14. Within(i, c, o, num + part) <=> Within(i, c, o, num) \/ here
  <2>1. CASE part = 0
    BY <1>0, <1>9, <2>1
  <2>2. CASE part # 0
    <3>1. o + num = low + start
      BY <1>4, <1>11, <2>2
    <3>2. CASE i = q + j
      BY <1>0, <1>1, <1>5, <1>6, <1>9, <1>11, <3>1, <3>2
    <3>3. CASE i < q + j
      BY <1>0, <1>1, <1>5, <1>7, <1>9, <1>11, <3>1, <3>3
    <3>4. CASE i > q + j
      BY <1>0, <1>1, <1>5, <1>8, <1>9, <1>11, <3>1, <3>4
    <3> QED
      BY <1>0, <1>1, <3>2, <3>3, <3>4
  <2> QED
    BY <2>1, <2>2
<1> QED
  BY <1>10, <1>12, <1>13, <1>14 DEF q

\* The first n blocks of a file hold num bytes of data from o on, and else what they
\* held before if they were used before.
Wrote(val, disk, ifile, used, o, data, num, n) ==
    \A i \in 0 .. n - 1, c \in 0 .. BLOCK_SIZE - 1 :
        /\ Within(i, c, o, num) =>
              val[ifile.blocks[i]][c] = data[i * BLOCK_SIZE + c - o + 1]
        /\ ~Within(i, c, o, num) /\ i < used =>
              val[ifile.blocks[i]][c] = disk[ifile.blocks[i]][c]

\* No block is used twice among the first n of a file.
Distinct(ifile, n) ==
    \A i, j \in 0 .. n - 1 :
        /\ ifile.blocks[i] \in Block
        /\ ifile.blocks[i] = ifile.blocks[j] => i = j

\* Block b gets what data has for it, and keeps the rest if it was used before.
Changed(block, old, data, num, start, part) ==
    \A c \in 0 .. BLOCK_SIZE - 1 :
        block[c] = IF c \in start .. start + part - 1 THEN data[num + c - start + 1]
                   ELSE old[c]

LEMMA WroteNext ==
  ASSUME NEW val, NEW disk, NEW ifile, NEW used, NEW o, NEW data, NEW length, NEW j,
         NEW num, NEW start, NEW part, Writes(o, length, j, num, start, part),
         NEW n \in Nat, Wrote(val, disk, ifile, used, o, data, num, n),
         Distinct(ifile, n), NEW i, i = (o \div BLOCK_SIZE) + j, i \in 0 .. n - 1,
         NEW block, NEW old, Changed(block, old, data, num, start, part),
         i < used => old = val[ifile.blocks[i]], NEW val2,
         val2[ifile.blocks[i]] = block,
         \A b \in Block \ {ifile.blocks[i]} : val2[b] = val[b]
  PROVE  Wrote(val2, disk, ifile, used, o, data, num + part, n)
<1> SUFFICES ASSUME NEW x \in 0 .. n - 1, NEW c \in 0 .. BLOCK_SIZE - 1
             PROVE  /\ Within(x, c, o, num + part) =>
                          val2[ifile.blocks[x]][c] = data[x * BLOCK_SIZE + c - o + 1]
                    /\ ~Within(x, c, o, num + part) /\ x < used =>
                          val2[ifile.blocks[x]][c] = disk[ifile.blocks[x]][c]
  BY DEF Wrote
<1> DEFINE here == x = (o \div BLOCK_SIZE) + j /\ c \in start .. start + part - 1
<1>1. /\ Within(x, c, o, num + part) <=> Within(x, c, o, num) \/ here
      /\ x = i => ~Within(x, c, o, num)
      /\ here => x * BLOCK_SIZE + c - o + 1 = num + c - start + 1
  <2>1. x \in Nat
    OBVIOUS
  <2> QED
    BY <2>1, PartWithin
<1>2. /\ Within(x, c, o, num) =>
            val[ifile.blocks[x]][c] = data[x * BLOCK_SIZE + c - o + 1]
      /\ ~Within(x, c, o, num) /\ x < used =>
            val[ifile.blocks[x]][c] = disk[ifile.blocks[x]][c]
  BY DEF Wrote
<1>3. here <=> x = i /\ c \in start .. start + part - 1
  OBVIOUS
<1> HIDE DEF here
<1>4. CASE x = i
  <2>1. block[c] = IF c \in start .. start + part - 1 THEN data[num + c - start + 1]
                   ELSE old[c]
    BY DEF Changed
  <2> QED
    BY <1>1, <1>2, <1>3, <1>4, <2>1
<1>5. CASE x # i
  <2>1. ifile.blocks[x] \in Block \ {ifile.blocks[i]}
    BY <1>5 DEF Distinct
  <2> QED
    BY <1>1, <1>2, <1>3, <1>5, <2>1
<1> QED
  BY <1>4, <1>5

\* Where a call is when it has not come to its end.
LEMMA NotAtEnd ==
  ASSUME NEW o \in Nat, NEW length \in Nat, NEW j \in Nat, NEW num \in Nat,
         o + num = Reached(o, length, j)
  PROVE  num <= length /\ (num < length /\ j # 0 => num # 0)
<1> DEFINE q == o \div BLOCK_SIZE
           r == o % BLOCK_SIZE
           end == (q + j) * BLOCK_SIZE
<1>1. /\ q \in Nat /\ r \in 0 .. BLOCK_SIZE - 1 /\ o = q * BLOCK_SIZE + r
      /\ BLOCK_SIZE \in Nat \ {0}
  BY Sizes, DivisionIs
<1>2. o + num = IF j = 0 THEN o ELSE IF o + length <= end THEN o + length ELSE end
  BY DEF Reached
<1> HIDE DEF q, r
<1>3. end \in Nat /\ q * BLOCK_SIZE \in Nat
  BY <1>1, SMTT(60)
<1>4. j # 0 => q * BLOCK_SIZE + BLOCK_SIZE <= end
  <2> SUFFICES ASSUME j # 0 PROVE q * BLOCK_SIZE + BLOCK_SIZE <= end
    OBVIOUS
  <2>1. q + 1 \in Nat /\ q + j \in Nat /\ q + 1 <= q + j
    BY <1>1
  <2>2. (q + 1) * BLOCK_SIZE <= end
    BY <1>1, <2>1, ProductGrows
  <2>3. (q + 1) * BLOCK_SIZE = q * BLOCK_SIZE + BLOCK_SIZE
    BY <1>1, SMTT(60)
  <2> QED
    BY <2>2, <2>3
<1> DEFINE low == q * BLOCK_SIZE
<1>5. o = low + r /\ low \in Nat /\ (j # 0 => low + BLOCK_SIZE <= end)
  BY <1>1, <1>3, <1>4
<1> HIDE DEF end, low
<1> QED
  BY <1>1, <1>2, <1>3, <1>5

\* A write of data at o, of an inode of whose n blocks the first were used before.
CanWrite(disk, ifile, used, n, o, data) ==
    /\ Holds(mem, disk) /\ \A b \in Block : DOMAIN disk[b] = Cells
    /\ used \in Nat /\ o \in Nat /\ Len(data) \in Nat
    /\ n \in Nat /\ OFFSET_TO_BLOCKS(o + Len(data)) <= n /\ Distinct(ifile, n)
    /\ o \div BLOCK_SIZE >= used => o % BLOCK_SIZE = 0

\* The loops of fs_write: all data is written where it belongs, and only to blocks
\* of the file.
LEMMA WritesAre ==
  ASSUME NEW disk, NEW ifile, NEW used, NEW total, NEW o, NEW data,
         CanWrite(disk, ifile, used, total, o, data)
  PROVE  LET w == WriteBlocks(ifile, used, o, data)
             first == o \div BLOCK_SIZE
             last == OFFSET_TO_BLOCKS(o + Len(data)) - 1
         IN  /\ w.num = Len(data) /\ w.mem.dc = mem.dc
             /\ \E val : /\ Holds(w.mem, val)
                        /\ Wrote(val, disk, ifile, used, o, data, Len(data), total)
                        /\ \A b \in Block :
                              /\ DOMAIN val[b] = Cells
                              /\ \/ val[b] = disk[b]
                                 \/ \E i \in first .. last : b = ifile.blocks[i]
<1> DEFINE length == Len(data)
           first == o \div BLOCK_SIZE
           last == OFFSET_TO_BLOCKS(o + length) - 1
           n == OFFSET_TO_BLOCKS(o + length) - first
           w == WriteBlocks(ifile, used, o, data)
           base == [mem |-> mem, num |-> 0, ifile |-> ifile, used |-> used, o |-> o,
                    data |-> data]
           blocks == [j \in 1 .. n |-> first + j - 1]
           dc == mem.dc
           Good(val) == \A b \in Block :
                            /\ DOMAIN val[b] = Cells
                            /\ \/ val[b] = disk[b]
                               \/ \E i \in first .. last : b = ifile.blocks[i]
           Fine(acc, j) ==
               /\ {"mem", "num", "ifile", "used", "o", "data"} \subseteq DOMAIN acc
               /\ acc.ifile = ifile /\ acc.used = used /\ acc.o = o /\ acc.data = data
               /\ acc.num \in Nat /\ o + acc.num = Reached(o, length, j)
               /\ acc.mem.dc = dc
               /\ \E val : /\ Holds(acc.mem, val) /\ Good(val)
                          /\ Wrote(val, disk, ifile, used, o, data, acc.num, total)
<1>1. /\ length \in Nat /\ o \in Nat /\ used \in Nat
      /\ total \in Nat /\ Distinct(ifile, total)
  BY DEF CanWrite
<1>2. n \in Nat /\ Reached(o, length, n) = o + length
  BY <1>1, WriteEnds
<1>3. first \in Nat /\ BLOCK_SIZE \in Nat \ {0} /\ (o % BLOCK_SIZE) \in 0 .. BLOCK_SIZE - 1
      /\ o \div BLOCK_SIZE = first
  BY <1>1, Sizes, DivisionIs
<1>4. \A j \in 1 .. n : /\ first + j - 1 \in 0 .. total - 1
                        /\ first + j - 1 \in first .. last
  <2>1. OFFSET_TO_BLOCKS(o + length) \in Nat
    <3>1. o + length \in Nat
      BY <1>1
    <3> QED
      BY <1>3, <3>1, PartsHold DEF OFFSET_TO_BLOCKS
  <2> DEFINE p == OFFSET_TO_BLOCKS(o + length)
  <2>2. p \in Nat /\ p <= total /\ n = p - first /\ last = p - 1
    BY <2>1 DEF CanWrite
  <2> HIDE DEF p, n, last, first
  <2> QED
    BY <1>1, <1>2, <1>3, <2>2
<1>5. WriteBlocks(ifile, used, o, data) = WriteBlockFold!Folded(base, blocks)
  BY ReadsAre DEF WriteBlocks
<1>6. Fine(base, 0)
  <2>1. Reached(o, length, 0) = o
    BY DEF Reached
  <2>2. /\ Good(disk) /\ Holds(mem, disk)
        /\ Wrote(disk, disk, ifile, used, o, data, 0, total)
    <3>1. Good(disk) /\ Holds(mem, disk)
      BY DEF CanWrite
    <3>2. \A i \in 0 .. total - 1, c \in 0 .. BLOCK_SIZE - 1 : ~Within(i, c, o, 0)
      <4> SUFFICES ASSUME NEW i \in 0 .. total - 1, NEW c \in 0 .. BLOCK_SIZE - 1
                   PROVE  ~Within(i, c, o, 0)
        OBVIOUS
      <4>1. i * BLOCK_SIZE \in Nat
        BY <1>1, <1>3, ProductGrows
      <4> DEFINE at == i * BLOCK_SIZE
      <4>2. Within(i, c, o, 0) <=> o <= at + c /\ at + c < o + 0
        BY DEF Within
      <4>3. at \in Nat
        BY <4>1
      <4> HIDE DEF at
      <4> QED
        BY <1>1, <1>3, <4>2, <4>3
    <3> HIDE DEF Good
    <3> QED
      BY <3>1, <3>2 DEF Wrote
  <2> HIDE DEF Good, dc
  <2>3. /\ base.mem = mem /\ base.num = 0 /\ base.ifile = ifile /\ base.used = used
        /\ base.o = o /\ base.data = data
        /\ {"mem", "num", "ifile", "used", "o", "data"} \subseteq DOMAIN base
    OBVIOUS
  <2> HIDE DEF base
  <2>4. mem.dc = dc
    BY DEF dc
  <2> QED
    BY <1>1, <2>1, <2>2, <2>3, <2>4
<1>7. DOMAIN blocks = 1 .. n /\ \A j \in 1 .. n : blocks[j] = first + j - 1
  OBVIOUS
<1> HIDE DEF base, blocks, n, first, last, dc, length
<1>8. ASSUME NEW j \in 1 .. n, NEW acc, Fine(acc, j - 1)
      PROVE  Fine(WriteBlock(acc, first + j - 1), j)
  <2> DEFINE i == first + j - 1
             had == i < acc.used
             b == acc.ifile.blocks[i]
             start == IF had THEN Start(acc.num, acc.o) ELSE 0
             part == Min({BLOCK_SIZE - start, Len(acc.data) - acc.num})
             old == IF had THEN bc_data(acc.mem, b) ELSE ZeroBlock
             block == [k \in DOMAIN old |->
                         IF k \in start .. start + part - 1
                         THEN acc.data[acc.num + k - start + 1] ELSE old[k]]
             x == IF had THEN bc_read(acc.mem, b) ELSE acc.mem
             y == bc_write(x, b, block)
             num == acc.num + part
  <2>1. WriteBlock(acc, i) = [acc EXCEPT !.mem = y, !.num = num]
    BY <1>8 DEF WriteBlock
  <2>2. i \in 0 .. total - 1 /\ i \in first .. last
    BY <1>4
  <2>3. b = ifile.blocks[i] /\ b \in Block
    BY <1>1, <1>8, <2>2 DEF Distinct
  <2>4. PICK val : /\ Holds(acc.mem, val) /\ Good(val)
                   /\ Wrote(val, disk, ifile, used, o, data, acc.num, total)
    BY <1>8
  <2>5. Holds(x, val) /\ x.dc = dc
    BY <1>8, <2>3, <2>4, BlockRead
  <2>6. DOMAIN old = Cells
    BY <2>3, <2>4, HeldData DEF Cells
  <2>7. /\ num \in Nat /\ o + num = Reached(o, length, j)
        /\ Writes(o, length, j - 1, acc.num, start, part)
    <3>1. j - 1 \in Nat /\ (j - 1) + 1 = j /\ acc.num \in Nat
          /\ o + acc.num = Reached(o, length, j - 1)
      BY <1>2, <1>8
    <3>2. acc.num # 0 => start = 0
      BY DEF Start
    <3>8. ~had /\ j = 1 => o % BLOCK_SIZE = 0
      <4> SUFFICES ASSUME ~had, j = 1 PROVE o % BLOCK_SIZE = 0
        OBVIOUS
      <4>1. first >= used
        BY <1>1, <1>3, <1>8
      <4> QED
        BY <1>3, <4>1 DEF CanWrite
    <3>3. acc.num = 0 => start = o % BLOCK_SIZE \/ (j - 1 # 0 /\ start = 0)
      <4> SUFFICES ASSUME acc.num = 0
                   PROVE  start = o % BLOCK_SIZE \/ (j - 1 # 0 /\ start = 0)
        OBVIOUS
      <4>1. CASE had
        BY <1>8, <4>1 DEF Start
      <4>2. CASE ~had /\ j = 1
        BY <3>8, <4>2
      <4>3. CASE ~had /\ j # 1
        BY <1>2, <4>3
      <4> QED
        BY <4>1, <4>2, <4>3
    <3>9. start \in 0 .. BLOCK_SIZE - 1
      BY <1>3, <1>8 DEF Start
    <3>10. acc.num <= length /\ (acc.num < length => start = Start(acc.num, o))
      <4>1. acc.num <= length /\ (acc.num < length /\ j - 1 # 0 => acc.num # 0)
        <5> DEFINE c == acc.num
                   l == j - 1
        <5>1. c \in Nat /\ l \in Nat /\ o + c = Reached(o, length, l)
          BY <3>1
        <5> HIDE DEF c, l
        <5>2. c <= length /\ (c < length /\ l # 0 => c # 0)
          BY <1>1, <5>1, NotAtEnd
        <5> QED
          BY <5>2 DEF c, l
      <4>2. CASE had
        BY <1>8, <4>1, <4>2
      <4>3. CASE ~had /\ j = 1
        BY <3>8, <4>1, <4>3 DEF Start
      <4>4. CASE ~had /\ j # 1
        BY <1>2, <4>1, <4>4 DEF Start
      <4> QED
        BY <4>2, <4>3, <4>4
    <3>4. part = Min({BLOCK_SIZE - start, length - acc.num})
      BY <1>8 DEF length
    <3> HIDE DEF start, part
    <3>0. PICK c, l : c = acc.num /\ l = j - 1
      OBVIOUS
    <3>6. /\ c \in Nat /\ l \in Nat /\ o + c = Reached(o, length, l) /\ length \in Nat
          /\ o \in Nat
          /\ Begins(o, c, l, start)
      BY <1>1, <3>0, <3>1, <3>2, <3>3 DEF Begins
    <3>5. /\ After(c, start, length) \in Nat
          /\ o + After(c, start, length) = Reached(o, length, l + 1)
      BY <3>6, ReachNext
    <3>7. acc.num + part = After(c, start, length)
      BY <3>0, <3>4 DEF After
    <3>11. Writes(o, length, j - 1, acc.num, start, part)
      BY <1>1, <3>1, <3>4, <3>9, <3>10 DEF Writes
    <3> QED
      BY <3>0, <3>1, <3>5, <3>7, <3>11
  <2>15. i < used => old = val[ifile.blocks[i]]
    BY <1>8, <2>3, <2>4, HeldData
  <2> HIDE DEF old, part, start, had, x
  <2>8. DOMAIN block = Cells
    BY <2>6
  <2>16. Changed(block, old, data, acc.num, start, part)
    BY <1>8, <2>6, CellsHold DEF Changed
  <2> HIDE DEF block, b
  <2>17. i = (o \div BLOCK_SIZE) + (j - 1)
    BY <1>2, <1>3
  <2> DEFINE c0 == acc.num
             l0 == j - 1
  <2>19. num = c0 + part
    OBVIOUS
  <2> HIDE DEF num
  <2> DEFINE val2 == [c \in Block |-> IF c = b THEN block ELSE val[c]]
  <2>9. val2[b] = block /\ \A c \in Block \ {b} : val2[c] = val[c]
    BY <2>3
  <2>10. Good(val2)
    BY <2>2, <2>3, <2>4, <2>8
  <2> HIDE DEF val2
  <2>18. Wrote(val2, disk, ifile, used, o, data, num, total)
    <3>1. /\ Writes(o, length, l0, c0, start, part) /\ total \in Nat
          /\ Wrote(val, disk, ifile, used, o, data, c0, total) /\ Distinct(ifile, total)
          /\ i = (o \div BLOCK_SIZE) + l0 /\ i \in 0 .. total - 1
          /\ Changed(block, old, data, c0, start, part)
          /\ (i < used => old = val[ifile.blocks[i]])
          /\ val2[ifile.blocks[i]] = block
          /\ \A c \in Block \ {ifile.blocks[i]} : val2[c] = val[c]
      BY <1>1, <2>2, <2>3, <2>4, <2>7, <2>9, <2>15, <2>16, <2>17
    <3> HIDE DEF c0, l0, i
    <3>2. Wrote(val2, disk, ifile, used, o, data, c0 + part, total)
      BY <3>1, WroteNext
    <3> QED
      BY <2>19, <3>2
  <2>11. Holds(y, val2) /\ y.dc = dc
    BY <2>3, <2>5, <2>9, BlockWrite
  <2> HIDE DEF y, Good, i
  <2> DEFINE z == [acc EXCEPT !.mem = y, !.num = num]
  <2>12. /\ DOMAIN z = DOMAIN acc /\ z.mem = y /\ z.num = num
         /\ z.ifile = acc.ifile /\ z.used = acc.used /\ z.o = acc.o /\ z.data = acc.data
    BY <1>8
  <2>13. z = WriteBlock(acc, i)
    BY <2>1
  <2> HIDE DEF z
  <2>14. Fine(z, j)
    BY <1>8, <2>7, <2>10, <2>11, <2>12, <2>18
  <2> QED
    BY <2>13, <2>14 DEF i
<1>9. PICK g : WriteBlockFold!Values(g, base, blocks, n)
  BY <1>2, <1>7, WriteBlockFold!FoldSteps
<1>10. /\ g[0] = base /\ w = g[n]
       /\ \A j \in 1 .. n : g[j] = WriteBlock(g[j - 1], first + j - 1)
  BY <1>5, <1>7, <1>9 DEF WriteBlockFold!Values
<1> HIDE DEF w
<1> DEFINE G == {j \in 0 .. n : Fine(g[j], j)}
<1>11. 0 \in G
  BY <1>2, <1>6, <1>10
<1>12. ASSUME NEW j \in 1 .. n, j - 1 \in G PROVE j \in G
  <2>1. j \in 0 .. n /\ Fine(g[j - 1], j - 1)
    BY <1>2, <1>12
  <2> HIDE DEF Fine
  <2>2. Fine(WriteBlock(g[j - 1], first + j - 1), j)
    BY <1>8, <2>1
  <2> QED
    BY <1>10, <2>1, <2>2
<1> HIDE DEF G
<1>13. n \in G
  <2>1. n \in Nat
    BY <1>2
  <2>2. \A j \in 1 .. n : j - 1 \in G => j \in G
    BY <1>12
  <2> QED
    BY <1>11, <2>1, <2>2, WriteBlockFold!CountUp
<1>14. Fine(w, n)
  BY <1>10, <1>13 DEF G
<1>15. w.num = length
  BY <1>1, <1>2, <1>14
<1> QED
  BY <1>14, <1>15 DEF w, dc, first, last, length

\* Where a byte is.
LEMMA BytePlace ==
  ASSUME NEW tab, TableOK(tab), NEW f \in Inode, tab[f].type = "file",
         NEW p \in 1 .. tab[f].size
  PROVE  LET i == (p - 1) \div BLOCK_SIZE
             c == (p - 1) % BLOCK_SIZE
         IN  /\ i \in 0 .. Used(tab[f]) - 1 /\ i \in Nat /\ tab[f].blocks[i] \in Block
             /\ c \in 0 .. BLOCK_SIZE - 1 /\ p - 1 = i * BLOCK_SIZE + c
<1> DEFINE i == (p - 1) \div BLOCK_SIZE
           c == (p - 1) % BLOCK_SIZE
<1>0. p - 1 \in Nat /\ p - 1 < tab[f].size /\ tab[f].size \in Nat
  BY DEF TableOK, InodeRecord
<1>1. i \in Nat /\ c \in 0 .. BLOCK_SIZE - 1 /\ p - 1 = i * BLOCK_SIZE + c
  BY <1>0, Sizes, DivisionIs
<1>2. Used(tab[f]) \in Nat /\ tab[f].size <= Used(tab[f]) * BLOCK_SIZE
  BY <1>0, Sizes, PartsHold DEF Used, OFFSET_TO_BLOCKS
<1>3. i < Used(tab[f])
  <2>1. p - 1 < Used(tab[f]) * BLOCK_SIZE
    <3>1. Used(tab[f]) * BLOCK_SIZE \in Nat
      BY <1>2, Sizes, ProductGrows
    <3> QED
      BY <1>0, <1>2, <3>1
  <2> QED
    BY <1>0, <1>2, <2>1, Sizes, PartsNext
<1>4. i \in 0 .. Used(tab[f]) - 1
  BY <1>1, <1>2, <1>3
<1> HIDE DEF i, c
<1>5. tab[f].blocks[i] \in Block
  BY <1>4, BlockOf
<1> QED
  BY <1>1, <1>4, <1>5 DEF i, c

\* A write of data at o gives file f the blocks of grown, and these hold the data.
Fills(f, o, data, grown, disk, disk2, tab, tab2) ==
    /\ o \in Nat /\ o <= tab[f].size /\ Len(data) \in Nat
    /\ tab[f].type = "file" /\ tab2[f].type = "file"
    /\ tab2[f].size = Max({o + Len(data), tab[f].size})
    /\ tab2[f].blocks = grown.blocks
    /\ \A k \in 0 .. Used(tab[f]) - 1 : grown.blocks[k] = tab[f].blocks[k]
    /\ Wrote(disk2, disk, grown, Used(tab[f]), o, data, Len(data), Used(tab2[f]))

\* Byte p of a file is what was written there, or else what it was.
ByteAfter(f, o, data, disk, disk2, tab, tab2, p) ==
    Byte(disk2, tab2[f], p) = IF p \in o + 1 .. o + Len(data) THEN data[p - o]
                              ELSE Byte(disk, tab[f], p)

LEMMA BytesAfter ==
  ASSUME NEW tab, TableOK(tab), NEW tab2, TableOK(tab2), NEW f \in Inode,
         NEW o, NEW data, NEW grown, NEW disk, NEW disk2,
         Fills(f, o, data, grown, disk, disk2, tab, tab2), NEW p \in 1 .. tab2[f].size
  PROVE  ByteAfter(f, o, data, disk, disk2, tab, tab2, p)
<1>0. /\ o \in Nat /\ o <= tab[f].size /\ Len(data) \in Nat
      /\ tab[f].type = "file" /\ tab2[f].type = "file"
      /\ tab2[f].size = Max({o + Len(data), tab[f].size})
      /\ tab2[f].blocks = grown.blocks
      /\ \A k \in 0 .. Used(tab[f]) - 1 : grown.blocks[k] = tab[f].blocks[k]
      /\ Wrote(disk2, disk, grown, Used(tab[f]), o, data, Len(data), Used(tab2[f]))
  BY DEF Fills
<1> DEFINE i == (p - 1) \div BLOCK_SIZE
           c == (p - 1) % BLOCK_SIZE
<1>1. /\ i \in 0 .. Used(tab2[f]) - 1 /\ i \in Nat /\ tab2[f].blocks[i] \in Block
      /\ c \in 0 .. BLOCK_SIZE - 1 /\ p - 1 = i * BLOCK_SIZE + c
  BY <1>0, BytePlace
<1>2. /\ Byte(disk2, tab2[f], p) = disk2[tab2[f].blocks[i]][c]
      /\ Byte(disk, tab[f], p) = disk[tab[f].blocks[i]][c]
  BY DEF Byte
<1>3. tab[f].size \in Nat /\ Used(tab[f]) \in Nat
  BY UsedIs DEF TableOK, InodeRecord
<1>4. p \in 1 .. tab[f].size => i \in 0 .. Used(tab[f]) - 1
  BY <1>0, BytePlace
<1> HIDE DEF i, c
<1>5. Within(i, c, o, Len(data)) <=> p \in o + 1 .. o + Len(data)
  <2>1. Within(i, c, o, Len(data)) <=> o <= p - 1 /\ p - 1 < o + Len(data)
    BY <1>1 DEF Within
  <2> QED
    BY <1>0, <2>1
<1>6. p \notin o + 1 .. o + Len(data) => p \in 1 .. tab[f].size
  <2>1. tab2[f].size = IF o + Len(data) <= tab[f].size THEN tab[f].size ELSE o + Len(data)
    <3>1. o + Len(data) \in Int /\ tab[f].size \in Int
      BY <1>0, <1>3
    <3> QED
      BY <1>0, <3>1, TwoNumbers
  <2> QED
    BY <1>0, <1>3, <2>1
<1>7. i * BLOCK_SIZE + c - o + 1 = p - o
  <2> DEFINE at == i * BLOCK_SIZE
  <2>1. at \in Nat /\ p - 1 = at + c /\ c \in Nat /\ p \in Nat
    BY <1>1, Sizes, ProductGrows
  <2>2. i * BLOCK_SIZE + c - o + 1 = at + c - o + 1
    OBVIOUS
  <2> HIDE DEF at
  <2> QED
    BY <1>0, <2>1, <2>2
<1>8. CASE p \in o + 1 .. o + Len(data)
  <2>1. disk2[grown.blocks[i]][c] = data[i * BLOCK_SIZE + c - o + 1]
    BY <1>0, <1>1, <1>5, <1>8 DEF Wrote
  <2> QED
    BY <1>0, <1>2, <1>7, <1>8, <2>1 DEF ByteAfter
<1>9. CASE p \notin o + 1 .. o + Len(data)
  <2>1. i \in 0 .. Used(tab[f]) - 1
    BY <1>4, <1>6, <1>9
  <2>2. disk2[grown.blocks[i]][c] = disk[grown.blocks[i]][c]
    BY <1>0, <1>1, <1>3, <1>5, <1>9, <2>1 DEF Wrote
  <2> QED
    BY <1>0, <1>2, <1>9, <2>1, <2>2 DEF ByteAfter
<1> QED
  BY <1>8, <1>9

\* The blocks of an inode stay.
Stays(disk, disk2, inode) ==
    \A k \in 0 .. Used(inode) - 1 : disk2[inode.blocks[k]] = disk[inode.blocks[k]]

\* What fs_write makes of the disk and the table.
Overwritten(f, o, data, disk, disk2, tab, tab2) ==
    /\ tab[f].type = "file" /\ o \in 0 .. tab[f].size
    /\ tab2[f].type = "file" /\ tab2[f].size = Max({o + Len(data), tab[f].size})
    /\ \A p \in 1 .. tab2[f].size : ByteAfter(f, o, data, disk, disk2, tab, tab2, p)
    /\ \A i \in Inode \ {f} : tab2[i] = tab[i] /\ Stays(disk, disk2, tab[i])

\* The caches and the disk.
DataInvariant ==
    /\ InodesOK(icache, inode_tab)
    /\ Steady(mem, mem.disk, inode_tab)
    /\ \A b \in Block : DOMAIN mem.disk[b] = Cells
    /\ EntriesOK(mem.disk, inode_tab)
    /\ \A i \in Inode \ inode_bmap : inode_tab[i].type = "none"
    /\ fault \in {"no", "readdir"}

FsAllInvariant == FsInvariant /\ DataInvariant

LEMMA HoldsItself ==
  ASSUME NEW m, NEW val, Holds(m, val), \A b \in Block : m.disk[b] = val[b]
  PROVE  Holds(m, m.disk)
<1> USE DEF Holds
<1>1. \A x \in ToSet(m.bc) : x.data = m.disk[x.key]
  OBVIOUS
<1> QED
  BY <1>1

\* The cached copy of an inode is replaced.
LEMMA CacheInodeIs ==
  ASSUME InodesOK(icache, inode_tab), NEW f \in Inode, NEW inode, NEW tab,
         CacheOK(CacheInode(f, inode), tab)
  PROVE  InodesOK(CacheInode(f, inode), tab)
<1> DEFINE e == Entry(f, inode, FALSE)
<1>1. CacheInode(f, inode) = Use(icache, e, INODE_CACHE_SIZE)
  BY DEF CacheInode
<1>2. e.key = f /\ ~e.dirty
  BY DEF Entry
<1> HIDE DEF e
<1> QED
  BY <1>1, <1>2, InodeUse

\* fs_write.
LEMMA WriteData ==
  ASSUME FsInvariant, DataInvariant, FsInvariant', NEW f \in Inode,
         NEW offset \in Nat, NEW T, NEW data \in Seq(T), Write(f, offset, data)
  PROVE  /\ DataInvariant'
         /\ \/ mem' = mem /\ inode_tab' = inode_tab
            \/ \E o \in Nat : Overwritten(f, o, data, mem.disk, mem'.disk,
                                         inode_tab, inode_tab')
<1> DEFINE ifile == SeenInode(f)
           length == Len(data)
           o == Min({offset, ifile.size})
           used == OFFSET_TO_BLOCKS(ifile.size)
           needed == OFFSET_TO_BLOCKS(o + length)
           req == Max({needed, used}) - used
           new == NewBlocks(req)
           grown == WithBlocks(ifile, used, new)
           written == [grown EXCEPT !.size = Max({o + length, @})]
           w == WriteBlocks(grown, used, o, data)
           disk == mem.disk
<1>11. f \in inode_bmap /\ inode_bmap' = inode_bmap
  BY DEF Write, CallOn
<1>1. /\ ifile.type = "file" /\ used + req <= INODE_NUM_BLKS /\ fault = "no"
      /\ \/ /\ icache' = CacheInode(f, grown)
            /\ inode_tab' = inode_tab /\ mem' = mem /\ fault' = fault
         \/ /\ ~(Len(new) < req)
            /\ icache' = CacheInode(f, written)
            /\ inode_tab' = [inode_tab EXCEPT ![f] = written]
            /\ mem' = fsi_store_fsdata(w.mem)
            /\ fault' = IF w.num = length THEN "no" ELSE "write"
  BY DEF Write, CallOn
<1>2. length \in Nat
  BY LenProperties
<1>9. Growth(f, ifile, o, length, used, needed, req, new, grown)
  BY <1>1, <1>2, GrownIs
<1>4. /\ TableOK(inode_tab) /\ Apart(inode_tab, blk_bmap) /\ CacheOK(icache', inode_tab')
      /\ TableOK(inode_tab') /\ Apart(inode_tab', blk_bmap')
  BY DEF FsInvariant
<1>5. /\ InodesOK(icache, inode_tab) /\ Steady(mem, disk, inode_tab)
      /\ \A b \in Block : DOMAIN disk[b] = Cells
      /\ EntriesOK(disk, inode_tab)
  BY DEF DataInvariant
<1> HIDE DEF w, used, req, needed, new, grown, ifile, o
<1>3. /\ ifile.size \in Nat /\ o \in Nat /\ o <= ifile.size
      /\ used \in Nat /\ used = Used(inode_tab[f]) /\ used <= INODE_NUM_BLKS
      /\ req \in Nat /\ needed \in Nat /\ needed <= used + req
      /\ Max({o + Len(data), ifile.size}) \in Nat
      /\ OFFSET_TO_BLOCKS(Max({o + Len(data), ifile.size})) = used + req
      /\ grown.size = ifile.size
      /\ Len(new) \in 0 .. req /\ ToSet(new) \subseteq FreeBlocks
      /\ \A i \in 1 .. Len(new) : new[i] \in ToSet(new)
      /\ grown \in InodeRecord /\ grown.type = "file"
      /\ \A k \in 0 .. used - 1 : grown.blocks[k] = inode_tab[f].blocks[k]
      /\ \A k \in 0 .. INODE_NUM_BLKS - 1 :
            k \in used .. used + Len(new) - 1 =>
               grown.blocks[k] = new[k - used + 1]
  BY <1>9 DEF Growth, length
<1>13. /\ used \in Nat /\ req \in Nat /\ needed \in Nat /\ needed <= used + req
       /\ used + req <= INODE_NUM_BLKS /\ Len(new) \in 0 .. req
  BY <1>1, <1>3
<1>10. used = OFFSET_TO_BLOCKS(ifile.size) /\ needed = OFFSET_TO_BLOCKS(o + length)
  BY DEF used, needed
<1> HIDE DEF written, length
<1>6. InodesOK(icache', inode_tab')
  BY <1>1, <1>4, <1>5, CacheInodeIs
<1>7. CASE inode_tab' = inode_tab /\ mem' = mem /\ fault' = fault
  BY <1>5, <1>6, <1>7, <1>11 DEF DataInvariant
<1>8. CASE /\ ~(Len(new) < req)
           /\ inode_tab' = [inode_tab EXCEPT ![f] = written]
           /\ mem' = fsi_store_fsdata(w.mem)
           /\ fault' = IF w.num = length THEN "no" ELSE "write"
  <2>1. Used(inode_tab[f]) = used /\ inode_tab[f].type = "file"
    <3>1. Agrees(ifile, inode_tab[f])
      BY SeenAgrees DEF ifile
    <3> QED
      BY <1>1, <1>3, <3>1 DEF Agrees
  <2>2. \A i \in Inode \ {f} : inode_tab'[i] = inode_tab[i]
    BY <1>4, <1>8 DEF TableOK
  <2>3. /\ inode_tab'[f].type = "file" /\ inode_tab'[f].blocks = grown.blocks
        /\ inode_tab'[f].size = Max({o + Len(data), inode_tab[f].size})
        /\ Used(inode_tab'[f]) = used + req /\ o <= inode_tab[f].size
    <3>1. /\ written.type = "file" /\ written.blocks = grown.blocks
          /\ written.size = Max({o + Len(data), ifile.size})
      BY <1>3 DEF InodeRecord, written, length
    <3>2. inode_tab'[f] = written
      BY <1>4, <1>8 DEF TableOK
    <3> HIDE DEF written
    <3>3. Used(written) = used + req
      BY <1>3, <3>1 DEF Used
    <3>4. inode_tab[f].size = ifile.size
      <4>1. Agrees(ifile, inode_tab[f])
        BY SeenAgrees DEF ifile
      <4> QED
        BY <4>1 DEF Agrees
    <3> QED
      BY <1>3, <3>1, <3>2, <3>3, <3>4
  <2> DEFINE total == used + req
  <2>21. Used(inode_tab'[f]) = total /\ total \in Nat /\ needed <= total
    BY <1>13, <2>3
  <2> HIDE DEF total
  <2>18. Distinct(grown, total)
    <3> SUFFICES ASSUME NEW i \in 0 .. total - 1, NEW j \in 0 .. total - 1
                 PROVE  /\ grown.blocks[i] \in Block
                        /\ grown.blocks[i] = grown.blocks[j] => i = j
      BY DEF Distinct
    <3>1. i \in 0 .. Used(inode_tab'[f]) - 1 /\ j \in 0 .. Used(inode_tab'[f]) - 1
      BY <2>21
    <3>2. inode_tab'[f].blocks[i] \in Block
      BY <1>4, <3>1, BlockOf
    <3>3. inode_tab'[f].blocks[i] = inode_tab'[f].blocks[j] => i = j
      BY <1>4, <3>1 DEF Apart
    <3> QED
      BY <2>3, <3>2, <3>3
  <2> DEFINE first == o \div BLOCK_SIZE
             last == needed - 1
  <2>4. CanWrite(disk, grown, used, total, o, data)
    <3>1. Holds(mem, disk)
      BY <1>5 DEF Steady
    <3>4. ASSUME o \div BLOCK_SIZE >= used PROVE o % BLOCK_SIZE = 0
      <4> DEFINE r == o % BLOCK_SIZE
      <4>1. /\ first \in Nat /\ r \in 0 .. BLOCK_SIZE - 1
            /\ o = first * BLOCK_SIZE + r
        BY <1>3, Sizes, DivisionIs
      <4>2. ifile.size <= used * BLOCK_SIZE
        BY <1>3, <1>10, Sizes, PartsHold DEF OFFSET_TO_BLOCKS
      <4>5. first >= used
        BY <3>4
      <4>6. used \in Nat /\ o \in Nat /\ ifile.size \in Nat /\ o <= ifile.size
        BY <1>3
      <4> HIDE DEF first, r
      <4>3. used * BLOCK_SIZE <= first * BLOCK_SIZE
            /\ used * BLOCK_SIZE \in Nat /\ first * BLOCK_SIZE \in Nat
        BY <4>1, <4>5, <4>6, Sizes, ProductGrows
      <4>4. r = 0
        BY <4>1, <4>2, <4>3, <4>6
      <4> QED
        BY <4>4 DEF r
    <3> QED
      BY <1>2, <1>3, <1>5, <1>10, <2>18, <2>21, <3>1, <3>4 DEF CanWrite, length
  <2>5. w.num = length /\ w.mem.dc = mem.dc
    BY <2>4, WritesAre DEF w, length
  <2>6. PICK val : /\ Holds(w.mem, val)
                   /\ Wrote(val, disk, grown, used, o, data, Len(data), total)
                   /\ \A b \in Block : /\ DOMAIN val[b] = Cells
                                       /\ \/ val[b] = disk[b]
                                          \/ \E i \in first .. last : b = grown.blocks[i]
    BY <1>10, <2>4, WritesAre DEF w, length
  <2>7. first \in Nat /\ last <= used + req - 1 /\ last \in Int
    <3>1. first \in Nat
      BY <1>3, Sizes, DivisionIs
    <3> HIDE DEF first
    <3> QED
      BY <1>13, <3>1
  <2> HIDE DEF first, last
  <2>8. /\ IsCache(mem.dc) /\ Len(mem.dc) <= DIR_CACHE_SIZE /\ AllClean(mem.dc)
        /\ \A x \in ToSet(mem.dc) : Page(inode_tab, x.key) /\ x.data = disk[x.key[2]]
    BY <1>5 DEF Steady, PagesOK, AllClean
  <2>9. /\ Holds(mem', val) /\ AllClean(mem'.bc) /\ mem'.dc = Cleaned(mem.dc)
        /\ \A b \in Block : mem'.disk[b] = val[b]
    <3>1. Flushes(mem.dc, val, val)
      BY <2>8 DEF Flushes
    <3>2. Holds(w.mem, val) /\ IsCache(w.mem.dc) /\ Flushes(w.mem.dc, val, val)
      BY <2>5, <2>6, <2>8, <3>1
    <3>3. mem' = fsi_store_fsdata(w.mem)
      BY <1>8
    <3>4. LET m2 == fsi_store_fsdata(w.mem)
          IN  /\ Holds(m2, val) /\ AllClean(m2.bc) /\ m2.dc = Cleaned(w.mem.dc)
              /\ \A b \in Block : m2.disk[b] = val[b]
      BY <3>2, StoreFsIs
    <3> QED
      BY <2>5, <3>3, <3>4
  \* What is written is no block of another inode.
  <2>10. ASSUME NEW d \in Inode \ {f}, NEW k \in 0 .. Used(inode_tab[d]) - 1
         PROVE  /\ inode_tab[d].blocks[k] \in Block
                /\ mem'.disk[inode_tab[d].blocks[k]] = disk[inode_tab[d].blocks[k]]
    <3> DEFINE b == inode_tab[d].blocks[k]
    <3>1. b \in Block /\ b \in blk_bmap
      <4>1. b \in Block
        BY <1>4, BlockOf
      <4> QED
        BY <1>4, <4>1 DEF Apart
    <3>2. ASSUME NEW i \in first .. last PROVE b # grown.blocks[i]
      <4>1. i \in 0 .. INODE_NUM_BLKS - 1 /\ (i < used \/ i \in used .. used + req - 1)
        BY <1>13, <2>7, Sizes
      <4>2. CASE i < used
        <5>1. i \in 0 .. used - 1 /\ i \in 0 .. Used(inode_tab[f]) - 1
          BY <1>3, <4>1, <4>2
        <5>2. d # f
          OBVIOUS
        <5>3. inode_tab[d].blocks[k] # inode_tab[f].blocks[i]
          BY <1>4, <5>1, <5>2 DEF Apart
        <5> QED
          BY <1>3, <5>1, <5>3
      <4>3. CASE i \in used .. used + req - 1
        <5>1. /\ i \in used .. used + Len(new) - 1
              /\ i - used + 1 \in 1 .. Len(new)
          BY <1>8, <1>13, <4>3
        <5>2. grown.blocks[i] = new[i - used + 1]
          BY <1>3, <4>1, <5>1
        <5>3. grown.blocks[i] \in FreeBlocks
          BY <1>3, <5>1, <5>2
        <5> QED
          BY <3>1, <5>3 DEF FreeBlocks
      <4> QED
        BY <4>1, <4>2, <4>3
    <3> QED
      BY <2>6, <2>9, <3>1, <3>2
  <2>11. ASSUME NEW key, Page(inode_tab, key)
         PROVE  Page(inode_tab', key) /\ mem'.disk[key[2]] = disk[key[2]]
    <3>1. PICK d \in Inode : /\ inode_tab[d].type = "dir"
                             /\ \E k \in 0 .. Used(inode_tab[d]) - 1 :
                                   key = <<d, inode_tab[d].blocks[k]>>
      BY <2>11 DEF Page
    <3>2. PICK k \in 0 .. Used(inode_tab[d]) - 1 : key = <<d, inode_tab[d].blocks[k]>>
      BY <3>1
    <3>3. inode_tab'[d] = inode_tab[d] /\ d \in Inode \ {f}
      BY <2>1, <2>2, <3>1
    <3>4. Page(inode_tab', key)
      BY <3>1, <3>2, <3>3 DEF Page
    <3> QED
      BY <2>10, <3>1, <3>2, <3>3, <3>4
  <2>12. PagesOK(mem'.dc, mem'.disk, inode_tab')
    <3>1. /\ IsCache(Cleaned(mem.dc)) /\ Len(Cleaned(mem.dc)) = Len(mem.dc)
          /\ \A x \in ToSet(Cleaned(mem.dc)) :
                /\ ~x.dirty
                /\ \E y \in ToSet(mem.dc) : x.key = y.key /\ x.data = y.data
      BY <2>8, CleanedIs
    <3>2. ASSUME NEW x \in ToSet(Cleaned(mem.dc))
          PROVE  Page(inode_tab', x.key) /\ ~x.dirty /\ x.data = mem'.disk[x.key[2]]
      BY <2>8, <2>11, <3>1
    <3> QED
      BY <2>8, <2>9, <3>1, <3>2 DEF PagesOK
  <2>13. Steady(mem', mem'.disk, inode_tab')
    BY <2>9, <2>12, HoldsItself DEF Steady
  <2>14. EntriesOK(mem'.disk, inode_tab')
    <3>1. \A d \in Inode : inode_tab'[d].type = "dir" =>
              /\ inode_tab'[d] = inode_tab[d]
              /\ \A p \in 0 .. Used(inode_tab[d]) - 1 :
                    mem'.disk[inode_tab[d].blocks[p]] = disk[inode_tab[d].blocks[p]]
      BY <2>1, <2>2, <2>3, <2>10
    <3>2. EntriesOK(disk, inode_tab)
      BY <1>5
    <3> HIDE DEF disk
    <3>3. TableOK(inode_tab)
      BY DEF FsInvariant
    <3> QED
      BY <3>1, <3>2, <3>3, DirectoriesStay
  <2>15. \A b \in Block : DOMAIN mem'.disk[b] = Cells
    BY <2>6, <2>9
  <2>16. fault' \in {"no", "readdir"}
    BY <1>8, <2>5
  <2>17. \A i \in Inode \ inode_bmap' : inode_tab'[i].type = "none"
    BY <1>11, <2>2 DEF DataInvariant
  <2>19. DataInvariant'
    BY <1>6, <2>13, <2>14, <2>15, <2>16, <2>17 DEF DataInvariant
  <2>20. Overwritten(f, o, data, disk, mem'.disk, inode_tab, inode_tab')
    <3> DEFINE tab == inode_tab
               tab2 == inode_tab'
               disk2 == mem'.disk
    <3>1. /\ tab[f].type = "file" /\ tab2[f].type = "file"
          /\ o \in Nat /\ o <= tab[f].size /\ Len(data) \in Nat
          /\ tab2[f].size = Max({o + Len(data), tab[f].size})
          /\ tab2[f].blocks = grown.blocks
          /\ \A k \in 0 .. Used(tab[f]) - 1 : grown.blocks[k] = tab[f].blocks[k]
          /\ Used(tab[f]) = used /\ Used(tab2[f]) = total
      BY <1>2, <1>3, <2>1, <2>3, <2>21 DEF length
    <3>6. Wrote(disk2, disk, grown, used, o, data, Len(data), total)
      <4>1. \A i \in 0 .. total - 1 : disk2[grown.blocks[i]] = val[grown.blocks[i]]
        BY <2>9, <2>18 DEF Distinct
      <4> HIDE DEF disk2
      <4> QED
        BY <2>6, <4>1 DEF Wrote
    <3>2. \A i \in Inode \ {f} : tab2[i] = tab[i] /\ Stays(disk, disk2, tab[i])
      BY <2>2, <2>10 DEF Stays
    <3>3. o \in 0 .. tab[f].size
      BY <3>1 DEF TableOK, InodeRecord
    <3>7. TableOK(tab) /\ TableOK(tab2)
      BY <1>4
    <3> HIDE DEF tab, tab2, disk2, disk
    <3>8. Fills(f, o, data, grown, disk, disk2, tab, tab2)
      BY <3>1, <3>6 DEF Fills
    <3>4. \A p \in 1 .. tab2[f].size : ByteAfter(f, o, data, disk, disk2, tab, tab2, p)
      BY <3>7, <3>8, BytesAfter
    <3>5. Overwritten(f, o, data, disk, disk2, tab, tab2)
      BY <3>1, <3>2, <3>3, <3>4 DEF Overwritten
    <3> QED
      BY <3>5 DEF tab, tab2, disk2
  <2> QED
    BY <1>3, <2>19, <2>20 DEF disk
<1> QED
  BY <1>1, <1>7, <1>8

\* A page is written: it is the only thing that changes on the disk.
LEMMA PageWritten ==
  ASSUME NEW m, NEW disk, NEW tab, Steady(m, disk, tab), NEW d, NEW b \in Block,
         Page(tab, <<d, b>>), NEW page, NEW disk2,
         disk2[b] = page, \A c \in Block \ {b} : disk2[c] = disk[c],
         \A key : Page(tab, key) => /\ key[2] \in Block
                                    /\ key # <<d, b>> => key[2] # b
  PROVE  LET m2 == fsi_store_fsdata(dc_write(m, d, b, page))
         IN  Steady(m2, m2.disk, tab) /\ \A c \in Block : m2.disk[c] = disk2[c]
<1> DEFINE key == <<d, b>>
           e == Entry(key, page, TRUE)
           u == Use(m.dc, e, DIR_CACHE_SIZE)
           m1 == WithDc(m, u)
           m2 == fsi_store_fsdata(m1)
<1>1. key[2] = b /\ Page(tab, key)
  OBVIOUS
<1>2. e.key = key /\ e.dirty /\ e.data = page
  BY DEF Entry
<1>3. dc_write(m, d, b, page) = m1
  <2>1. EvictPage(m, e.key) = m
    BY NoPageWritten DEF Steady
  <2> QED
    BY <2>1 DEF dc_write, WithDc
<1> HIDE DEF key, e
<1>4. /\ IsCache(m.dc) /\ Len(m.dc) <= DIR_CACHE_SIZE
      /\ \A x \in ToSet(m.dc) : Page(tab, x.key) /\ ~x.dirty /\ x.data = disk[x.key[2]]
  BY DEF Steady, PagesOK
<1>5. /\ IsCache(u) /\ Len(u) <= DIR_CACHE_SIZE /\ e \in ToSet(u)
      /\ \A x \in ToSet(u) : x = e \/ (x \in ToSet(m.dc) /\ x.key # e.key)
  BY <1>4, CacheSizes, UseKeeps, UseLeaves
<1> HIDE DEF u
<1>6. Parted(m1) /\ m1.dc = u /\ m1.disk = m.disk /\ m1.bc = m.bc
  BY WithIs DEF Steady, Holds
<1> HIDE DEF m1
<1>7. Holds(m1, disk)
  BY <1>6 DEF Steady, Holds
<1>8. Flushes(u, disk, disk2)
  BY <1>1, <1>2, <1>4, <1>5 DEF Flushes
<1>9. /\ Holds(m2, disk2) /\ AllClean(m2.bc) /\ m2.dc = Cleaned(u)
      /\ \A c \in Block : m2.disk[c] = disk2[c]
  BY <1>5, <1>6, <1>7, <1>8, StoreFsIs
<1> HIDE DEF m2
<1>10. PagesOK(m2.dc, m2.disk, tab)
  <2>1. /\ IsCache(Cleaned(u)) /\ Len(Cleaned(u)) = Len(u)
        /\ \A x \in ToSet(Cleaned(u)) :
              /\ ~x.dirty
              /\ \E y \in ToSet(u) : x.key = y.key /\ x.data = y.data
    BY <1>5, CleanedIs
  <2>2. ASSUME NEW y \in ToSet(u)
        PROVE  Page(tab, y.key) /\ y.data = m2.disk[y.key[2]]
    <3>1. CASE y = e
      BY <1>1, <1>2, <1>9, <3>1
    <3>2. CASE y # e
      <4>1. Page(tab, y.key) /\ y.key # key /\ y.data = disk[y.key[2]]
        BY <1>2, <1>4, <1>5, <3>2
      <4>2. y.key[2] \in Block \ {b}
        BY <4>1 DEF key
      <4> QED
        BY <1>9, <4>1, <4>2
    <3> QED
      BY <3>1, <3>2
  <2>3. ASSUME NEW x \in ToSet(Cleaned(u))
        PROVE  Page(tab, x.key) /\ ~x.dirty /\ x.data = m2.disk[x.key[2]]
    BY <2>1, <2>2
  <2> QED
    BY <1>5, <1>9, <2>1, <2>3 DEF PagesOK
<1>11. Steady(m2, m2.disk, tab)
  BY <1>9, <1>10, HoldsItself DEF Steady
<1> QED
  BY <1>3, <1>9, <1>11 DEF m2

\* The pages of the directories stay, and there is one for the new entry.
LEMMA PagesStay ==
  ASSUME FsInvariant, \A i \in Inode \ inode_bmap : inode_tab[i].type = "none",
         NEW d \in Inode, NEW type, NEW old, NEW finode, NEW page, NEW new, NEW block,
         NEW idir, NEW tab2, Made(d, type, old, finode, page, new, block, idir, tab2)
  PROVE  /\ \A key : Page(inode_tab, key) => Page(tab2, key)
         /\ Page(tab2, <<d, block>>)
         /\ \A k \in 0 .. Used(inode_tab[d]) - 1 :
               idir.blocks[k] = inode_tab[d].blocks[k]
         /\ Used(inode_tab[d]) <= Used(idir)
<1>1. /\ page \in 0 .. INODE_NUM_BLKS - 1 /\ page \in Nat
      /\ Used(inode_tab[d]) = IF new = {} THEN page + 1 ELSE page
      /\ block = IF new = {} THEN old.blocks[page] ELSE Min(new)
      /\ \A k \in 0 .. INODE_NUM_BLKS - 1 :
            idir.blocks[k] = IF k = page THEN block ELSE old.blocks[k]
      /\ Used(idir) = page + 1 /\ idir.type = "dir" /\ tab2[d] = idir
      /\ \A i \in Inode \ {d, finode} : tab2[i] = inode_tab[i]
      /\ Agrees(old, inode_tab[d]) /\ finode \in Inode \ inode_bmap
  BY Sizes DEF Made
<1>2. \A k \in 0 .. Used(inode_tab[d]) - 1 : idir.blocks[k] = inode_tab[d].blocks[k]
  BY BlocksStay
<1>3. Used(inode_tab[d]) <= Used(idir)
  BY <1>1
<1>4. Page(tab2, <<d, block>>)
  <2>1. page \in 0 .. Used(tab2[d]) - 1 /\ tab2[d].blocks[page] = block
    BY <1>1
  <2> QED
    BY <1>1, <2>1 DEF Page
<1>5. ASSUME NEW key, Page(inode_tab, key) PROVE Page(tab2, key)
  <2>1. PICK i \in Inode : /\ inode_tab[i].type = "dir"
                           /\ \E k \in 0 .. Used(inode_tab[i]) - 1 :
                                 key = <<i, inode_tab[i].blocks[k]>>
    BY <1>5 DEF Page
  <2>2. PICK k \in 0 .. Used(inode_tab[i]) - 1 : key = <<i, inode_tab[i].blocks[k]>>
    BY <2>1
  <2>3. i # finode
    BY <1>1, <2>1
  <2>4. CASE i = d
    <3>1. k \in 0 .. Used(tab2[d]) - 1
      BY <1>1, <2>4
    <3>2. tab2[d].type = "dir" /\ key = <<d, tab2[d].blocks[k]>>
      BY <1>1, <1>2, <2>2, <2>4
    <3> QED
      BY <3>1, <3>2 DEF Page
  <2>5. CASE i # d
    BY <1>1, <2>1, <2>2, <2>3, <2>5 DEF Page
  <2> QED
    BY <2>4, <2>5
<1> QED
  BY <1>2, <1>3, <1>4, <1>5

\* disk2 is disk with the new entry in its block.
Entered(disk, disk2, n, old, finode, block) ==
    /\ \A c \in Block \ {block} : disk2[c] = disk[c]
    /\ \A j \in Cells \ {old.size % DIR_PAGE_ENTRIES} : disk2[block][j] = disk[block][j]
    /\ disk2[block][old.size % DIR_PAGE_ENTRIES] = <<n, finode>>
    /\ DOMAIN disk2[block] = Cells

\* The entries of all directories, after the new one of directory d.
LEMMA EntriesAfter ==
  ASSUME FsInvariant, NEW d \in Inode, NEW n, NEW type, NEW old, NEW finode, NEW page,
         NEW new, NEW block, NEW idir, NEW tab2,
         Made(d, type, old, finode, page, new, block, idir, tab2),
         TableOK(tab2), NEW bmap, Apart(tab2, bmap),
         \A k \in 0 .. Used(inode_tab[d]) - 1 : idir.blocks[k] = inode_tab[d].blocks[k],
         NEW disk, NEW disk2, Entered(disk, disk2, n, old, finode, block),
         NEW i \in Inode, tab2[i].type = "dir", NEW k \in 1 .. tab2[i].size
  PROVE  IF i = d /\ k = inode_tab[d].size + 1
         THEN EntryAt(disk2, tab2, i, k) = <<n, finode>>
         ELSE /\ EntryAt(disk2, tab2, i, k) = EntryAt(disk, inode_tab, i, k)
              /\ inode_tab[i].type = "dir" /\ k \in 1 .. inode_tab[i].size
<1> DEFINE pos == old.size % DIR_PAGE_ENTRIES
           p == (k - 1) \div DIR_PAGE_ENTRIES
           j == (k - 1) % DIR_PAGE_ENTRIES
<1>1. /\ page \in 0 .. INODE_NUM_BLKS - 1 /\ block \in Block
      /\ Used(idir) = page + 1 /\ idir.type = "dir" /\ tab2[d] = idir
      /\ idir.blocks[page] = block
      /\ idir.size = old.size + 1 /\ tab2[finode].size = 0
      /\ \A x \in Inode \ {d, finode} : tab2[x] = inode_tab[x]
      /\ old.size \in Nat /\ old.size = inode_tab[d].size
      /\ inode_tab[d].type = "dir" /\ page = old.size \div DIR_PAGE_ENTRIES
  BY Sizes DEF Made
<1>2. /\ pos \in 0 .. DIR_PAGE_ENTRIES - 1
      /\ old.size = page * DIR_PAGE_ENTRIES + pos
  BY <1>1, Sizes, DivisionIs
<1>3. /\ \A c \in Block \ {block} : disk2[c] = disk[c]
      /\ \A x \in Cells \ {pos} : disk2[block][x] = disk[block][x]
      /\ disk2[block][pos] = <<n, finode>>
  BY DEF Entered
<1>4. /\ p \in 0 .. Used(tab2[i]) - 1 /\ tab2[i].blocks[p] \in Block
      /\ j \in 0 .. DIR_PAGE_ENTRIES - 1 /\ k - 1 = p * DIR_PAGE_ENTRIES + j
  BY EntryPlace
<1>5. /\ EntryAt(disk2, tab2, i, k) = disk2[tab2[i].blocks[p]][j]
      /\ EntryAt(disk, inode_tab, i, k) = disk[inode_tab[i].blocks[p]][j]
  BY DEF EntryAt
<1>6. i = d /\ k = old.size + 1 => p = page /\ j = pos
  BY <1>1
<1>7. TableOK(inode_tab)
  BY DEF FsInvariant
<1>8. i = d /\ k \in 1 .. inode_tab[d].size => p \in 0 .. Used(inode_tab[d]) - 1
  BY <1>1, <1>7, EntryPlace
<1> HIDE DEF pos, p, j
<1>9. (i # d \/ p # page) => tab2[i].blocks[p] # block
  <2>1. page \in 0 .. Used(tab2[d]) - 1 /\ tab2[d].blocks[page] = block
    BY <1>1
  <2> QED
    BY <1>4, <2>1 DEF Apart
<1>10. CASE i # d
  <2>1. i # finode
    BY <1>1
  <2>2. tab2[i] = inode_tab[i]
    BY <1>1, <1>10, <2>1
  <2> QED
    BY <1>3, <1>4, <1>5, <1>9, <1>10, <2>2
<1>11. CASE i = d /\ k = inode_tab[d].size + 1
  <2>1. p = page /\ j = pos
    BY <1>1, <1>6, <1>11
  <2> QED
    BY <1>1, <1>3, <1>5, <1>11, <2>1
<1>12. CASE i = d /\ k # inode_tab[d].size + 1
  <2>1. k \in 1 .. inode_tab[d].size
    BY <1>1, <1>12
  <2>2. tab2[i].blocks[p] = inode_tab[i].blocks[p]
    BY <1>1, <1>8, <1>12, <2>1
  <2>3. CASE p # page
    BY <1>1, <1>3, <1>4, <1>5, <1>9, <1>12, <2>1, <2>2, <2>3
  <2>4. CASE p = page
    <3>1. j # pos
      BY <1>1, <1>2, <1>4, <1>12, <2>4
    <3>2. j \in Cells \ {pos}
      BY <1>4, <3>1, CellsHold
    <3>3. tab2[i].blocks[p] = block
      BY <1>1, <1>12, <2>4
    <3> QED
      BY <1>1, <1>3, <1>5, <1>12, <2>1, <2>2, <3>2, <3>3
  <2> QED
    BY <2>3, <2>4
<1> QED
  BY <1>10, <1>11, <1>12

\* Each entry leads to an inode, after the new one as before, and a name that was
\* not there is there once.
LEMMA EntryStays ==
  ASSUME FsInvariant, NEW d \in Inode, NEW n, NEW type, NEW old, NEW finode, NEW page,
         NEW new, NEW block, NEW idir, NEW tab2,
         Made(d, type, old, finode, page, new, block, idir, tab2),
         TableOK(tab2), NEW bmap, Apart(tab2, bmap),
         \A k \in 0 .. Used(inode_tab[d]) - 1 : idir.blocks[k] = inode_tab[d].blocks[k],
         NEW disk, EntriesOK(disk, inode_tab), NEW disk2,
         Entered(disk, disk2, n, old, finode, block),
         \A k \in 1 .. inode_tab[d].size : EntryAt(disk, inode_tab, d, k)[1] # n
  PROVE  EntriesOK(disk2, tab2)
<1> SUFFICES ASSUME NEW i \in Inode, tab2[i].type = "dir", NEW k \in 1 .. tab2[i].size,
                    NEW l \in 1 .. tab2[i].size
             PROVE  /\ EntryAt(disk2, tab2, i, k)[2] \in Inode
                    /\ EntryAt(disk2, tab2, i, k)[1] = EntryAt(disk2, tab2, i, l)[1] => k = l
  BY DEF EntriesOK
<1> DEFINE New(x) == i = d /\ x = inode_tab[d].size + 1
<1>1. \A x \in 1 .. tab2[i].size :
         IF New(x)
         THEN EntryAt(disk2, tab2, i, x) = <<n, finode>>
         ELSE /\ EntryAt(disk2, tab2, i, x) = EntryAt(disk, inode_tab, i, x)
              /\ inode_tab[i].type = "dir" /\ x \in 1 .. inode_tab[i].size
  BY EntriesAfter
<1>2. finode \in Inode
  BY DEF Made
<1>3. New(k) /\ New(l) => k = l
  OBVIOUS
<1>4. (New(k) \/ New(l)) => i = d
  OBVIOUS
<1> HIDE DEF New
<1>5. EntryAt(disk2, tab2, i, k)[2] \in Inode
  <2>1. CASE New(k)
    BY <1>1, <1>2, <2>1
  <2>2. CASE ~New(k)
    BY <1>1, <2>2 DEF EntriesOK
  <2> QED
    BY <2>1, <2>2
<1>6. ASSUME EntryAt(disk2, tab2, i, k)[1] = EntryAt(disk2, tab2, i, l)[1] PROVE k = l
  <2>1. CASE ~New(k) /\ ~New(l)
    BY <1>1, <1>6, <2>1 DEF EntriesOK
  <2>2. CASE New(k) /\ ~New(l)
    <3>1. EntryAt(disk, inode_tab, d, l)[1] = n /\ l \in 1 .. inode_tab[d].size
      BY <1>1, <1>4, <1>6, <2>2
    <3> QED
      BY <3>1
  <2>3. CASE ~New(k) /\ New(l)
    <3>1. EntryAt(disk, inode_tab, d, k)[1] = n /\ k \in 1 .. inode_tab[d].size
      BY <1>1, <1>4, <1>6, <2>3
    <3> QED
      BY <3>1
  <2> QED
    BY <1>3, <2>1, <2>2, <2>3
<1> QED
  BY <1>5, <1>6

\* What is cached after a new entry.
LEMMA CacheEntry ==
  ASSUME InodesOK(icache, inode_tab), NEW d \in Inode, NEW idir, NEW finode, NEW tab2,
         CacheOK(Without(CacheInode(d, idir), finode), tab2)
  PROVE  InodesOK(Without(CacheInode(d, idir), finode), tab2)
<1> DEFINE e == Entry(d, idir, FALSE)
           u == Use(icache, e, INODE_CACHE_SIZE)
           w == Without(u, finode)
<1>1. CacheInode(d, idir) = u
  BY DEF CacheInode
<1>2. e.key = d /\ ~e.dirty
  BY DEF Entry
<1> HIDE DEF e
<1>3. /\ IsCache(icache) /\ Len(icache) <= INODE_CACHE_SIZE
      /\ \A x \in ToSet(icache) : ~x.dirty /\ x.key \in Inode
  BY DEF InodesOK, CacheOK, AllClean
<1>4. /\ IsCache(u) /\ Len(u) <= INODE_CACHE_SIZE
      /\ \A x \in ToSet(u) : x = e \/ (x \in ToSet(icache) /\ x.key # e.key)
  BY <1>3, CacheSizes, UseKeeps, UseLeaves
<1> HIDE DEF u
<1>5. /\ \A x \in ToSet(w) : x \in ToSet(u) /\ x.key # finode
      /\ Len(w) = IF Cached(u, finode) THEN Len(u) - 1 ELSE Len(u)
      /\ Len(u) \in Nat
  BY <1>4, WithoutKeeps, WithoutLeaves, ElementsAre
<1>6. CacheOK(w, tab2)
  BY <1>1
<1> HIDE DEF w
<1>7. Len(w) <= INODE_CACHE_SIZE
  BY <1>4, <1>5, CacheSizes
<1>8. \A x \in ToSet(w) : ~x.dirty /\ x.key \in Inode
  BY <1>2, <1>3, <1>4, <1>5
<1>9. InodesOK(w, tab2)
  BY <1>6, <1>7, <1>8 DEF InodesOK, AllClean
<1> QED
  BY <1>1, <1>9 DEF w

\* What an entry for name n and inode g, the last one of directory d, makes of the disk
\* and the table.
EntryAdded(d, n, type, g, disk, disk2, tab, tab2) ==
    /\ tab[d].type = "dir" /\ tab2[d].type = "dir" /\ tab2[d].size = tab[d].size + 1
    /\ \A k \in 1 .. tab[d].size : EntryAt(disk, tab, d, k)[1] # n
    /\ g # d /\ tab2[g].type = type /\ tab2[g].size = 0
    /\ \A i \in Inode \ {d, g} : tab2[i] = tab[i] /\ Stays(disk, disk2, tab[i])
    /\ \A i \in Inode : tab2[i].type = "dir" =>
          \A k \in 1 .. tab2[i].size :
              IF i = d /\ k = tab[d].size + 1
              THEN EntryAt(disk2, tab2, i, k) = <<n, g>>
              ELSE /\ EntryAt(disk2, tab2, i, k) = EntryAt(disk, tab, i, k)
                   /\ tab[i].type = "dir" /\ k \in 1 .. tab[i].size

\* fs_create and fs_mkdir.
LEMMA MakeData ==
  ASSUME FsInvariant, DataInvariant, FsInvariant', NEW d \in Inode, NEW n,
         NEW type \in {"dir", "file"}, Make(d, n, type)
  PROVE  /\ DataInvariant'
         /\ \E g \in Inode \ inode_bmap :
               /\ inode_bmap' = inode_bmap \cup {g}
               /\ EntryAdded(d, n, type, g, mem.disk, mem'.disk, inode_tab, inode_tab')
<1> DEFINE old == SeenInode(d)
           finode == Min(FreeInodes)
           page == old.size \div DIR_PAGE_ENTRIES
           new == DirBlocks(old)
           block == IF new = {} THEN old.blocks[page] ELSE Min(new)
           idir == NextEntry(old, page, new)
           tab2 == [inode_tab EXCEPT ![d] = idir, ![finode] = NewInode(type)]
           b == idir.blocks[page]
           ms == fsi_dir_search(mem, d, old, n)
           m == dc_read(ms, d, b)
           pos == old.size % DIR_PAGE_ENTRIES
           entries == [dc_data(m, d, b) EXCEPT ![pos] = <<n, finode>>]
           disk == mem.disk
           disk2 == [disk EXCEPT ![b] = entries]
<1>1. /\ d \in inode_bmap /\ old.type = "dir" /\ ~Refuse(d, n)
      /\ mem' = fsi_store_fsdata(dc_write(m, d, b, entries))
      /\ inode_tab' = tab2 /\ inode_bmap' = inode_bmap \cup {finode}
      /\ icache' = Without(CacheInode(d, idir), finode)
      /\ fault' = fault
  BY DEF Make, CallOn, Mark, NextEntry
<1>2. Made(d, type, old, finode, page, new, block, idir, tab2)
  BY <1>1, MadeIs
<1> HIDE DEF tab2, idir, block, new, page, finode, old
<1>3. TableOK(tab2) /\ Apart(tab2, blk_bmap') /\ CacheOK(icache', tab2)
  BY <1>1 DEF FsInvariant
<1>4. /\ InodesOK(icache, inode_tab) /\ Steady(mem, disk, inode_tab)
      /\ \A c \in Block : DOMAIN disk[c] = Cells
      /\ EntriesOK(disk, inode_tab)
      /\ \A i \in Inode \ inode_bmap : inode_tab[i].type = "none"
      /\ fault \in {"no", "readdir"}
  BY DEF DataInvariant
<1>5. /\ \A key : Page(inode_tab, key) => Page(tab2, key)
      /\ Page(tab2, <<d, block>>)
      /\ \A k \in 0 .. Used(inode_tab[d]) - 1 : idir.blocks[k] = inode_tab[d].blocks[k]
  BY <1>2, <1>4, PagesStay
<1>6. /\ b = block /\ block \in Block /\ page \in 0 .. INODE_NUM_BLKS - 1
      /\ page \in 0 .. Used(tab2[d]) - 1 /\ tab2[d].blocks[page] = block
      /\ Agrees(old, inode_tab[d]) /\ inode_tab[d].type = "dir"
      /\ old.size \in Nat /\ tab2[finode].size = 0
      /\ \A i \in Inode \ {d, finode} : tab2[i] = inode_tab[i]
  BY <1>2, Sizes DEF Made
<1>7. Steady(m, disk, tab2) /\ dc_data(m, d, b) = disk[b]
  <2>1. Steady(ms, disk, inode_tab)
    BY <1>4, <1>6, SearchKeeps DEF FsInvariant
  <2> HIDE DEF ms
  <2>2. Steady(ms, disk, tab2)
    BY <1>5, <2>1 DEF Steady, PagesOK
  <2>3. Steady(m, disk, tab2)
    BY <1>5, <1>6, <2>2, SteadyPage
  <2> HIDE DEF m
  <2> QED
    BY <1>5, <1>6, <2>3, SteadyPage
<1> HIDE DEF m, b
<1>8. pos \in Cells
  BY <1>6, Sizes, DivisionIs, CellsHold
<1>9. /\ Entered(disk, disk2, n, old, finode, block)
      /\ disk2[block] = entries /\ \A c \in Block \ {block} : disk2[c] = disk[c]
  <2>1. DOMAIN disk = Block /\ DOMAIN disk[block] = Cells
    BY <1>4, <1>6 DEF Steady, Holds
  <2>2. disk2[block] = entries /\ \A c \in Block \ {block} : disk2[c] = disk[c]
    BY <1>6, <2>1
  <2> HIDE DEF disk2, disk
  <2>3. entries = [disk[block] EXCEPT ![pos] = <<n, finode>>]
    BY <1>6, <1>7
  <2>4. /\ \A j \in Cells \ {pos} : entries[j] = disk[block][j]
        /\ entries[pos] = <<n, finode>> /\ DOMAIN entries = Cells
    BY <1>8, <2>1, <2>3
  <2> HIDE DEF entries
  <2> QED
    BY <2>2, <2>4 DEF Entered
<1> HIDE DEF entries, disk2
<1>10. Steady(mem', mem'.disk, tab2) /\ \A c \in Block : mem'.disk[c] = disk2[c]
  <2>1. ASSUME NEW key, Page(tab2, key)
        PROVE  key[2] \in Block /\ (key # <<d, block>> => key[2] # block)
    <3>1. PICK i \in Inode : /\ tab2[i].type = "dir"
                             /\ \E k \in 0 .. Used(tab2[i]) - 1 :
                                   key = <<i, tab2[i].blocks[k]>>
      BY <2>1 DEF Page
    <3>2. PICK k \in 0 .. Used(tab2[i]) - 1 : key = <<i, tab2[i].blocks[k]>>
      BY <3>1
    <3>3. key[2] = tab2[i].blocks[k]
      BY <3>2
    <3>4. Agrees(tab2[i], tab2[i])
      BY <1>3, AgreesItself
    <3>5. key[2] \in Block
      BY <1>3, <3>1, <3>3, <3>4, PageOf
    <3>6. ASSUME key[2] = block PROVE i = d /\ k = page
      <4>1. tab2[i].blocks[k] = tab2[d].blocks[page]
        BY <1>6, <3>3, <3>6
      <4>2. page \in 0 .. Used(tab2[d]) - 1
        BY <1>6
      <4> QED
        BY <1>3, <4>1, <4>2 DEF Apart
    <3>7. key[2] = block => key = <<d, block>>
      BY <1>6, <3>2, <3>6
    <3> QED
      BY <3>5, <3>7
  <2>2. /\ Steady(m, disk, tab2) /\ Page(tab2, <<d, b>>) /\ b \in Block
        /\ disk2[b] = entries /\ \A c \in Block \ {b} : disk2[c] = disk[c]
        /\ \A key : Page(tab2, key) => /\ key[2] \in Block
                                       /\ key # <<d, b>> => key[2] # b
    BY <1>5, <1>6, <1>7, <1>9, <2>1
  <2>3. LET m2 == fsi_store_fsdata(dc_write(m, d, b, entries))
        IN  Steady(m2, m2.disk, tab2) /\ \A c \in Block : m2.disk[c] = disk2[c]
    BY <2>2, PageWritten
  <2> QED
    BY <1>1, <2>3
<1>11. \A c \in Block : DOMAIN mem'.disk[c] = Cells
  BY <1>4, <1>9, <1>10 DEF Entered
<1>15. \A k \in 1 .. inode_tab[d].size : EntryAt(disk, inode_tab, d, k)[1] # n
  <2>1. Position(mem, d, old, n) = 0
    BY <1>1 DEF Refuse, old
  <2>2. PICK k : k = Position(mem, d, old, n)
    OBVIOUS
  <2> QED
    BY <1>4, <1>6, <2>1, <2>2, PositionIs DEF FsInvariant
<1>12. EntriesOK(mem'.disk, tab2)
  <2>2. EntriesOK(disk2, tab2)
    BY <1>2, <1>3, <1>4, <1>5, <1>9, <1>15, EntryStays
  <2>3. \A i \in Inode : tab2[i].type = "dir" =>
            /\ tab2[i] = tab2[i]
            /\ \A p \in 0 .. Used(tab2[i]) - 1 :
                  mem'.disk[tab2[i].blocks[p]] = disk2[tab2[i].blocks[p]]
    <3> SUFFICES ASSUME NEW i \in Inode, tab2[i].type = "dir",
                        NEW p \in 0 .. Used(tab2[i]) - 1
                 PROVE  tab2[i].blocks[p] \in Block
      BY <1>10
    <3>1. Agrees(tab2[i], tab2[i])
      BY <1>3, AgreesItself
    <3> QED
      BY <1>3, <3>1, PageOf
  <2> QED
    BY <1>3, <2>2, <2>3, DirectoriesStay
<1>13. InodesOK(icache', tab2)
  BY <1>1, <1>3, <1>4, CacheEntry
<1>14. \A i \in Inode \ inode_bmap' : tab2[i].type = "none"
  BY <1>1, <1>4, <1>6
<1>16. DataInvariant'
  BY <1>1, <1>4, <1>10, <1>11, <1>12, <1>13, <1>14 DEF DataInvariant
<1>17. EntryAdded(d, n, type, finode, disk, mem'.disk, inode_tab, tab2)
  <2> DEFINE after == mem'.disk
  <2>1. \A c \in Block : after[c] = disk2[c]
    BY <1>10
  <2> HIDE DEF after, disk
  <2>2. Entered(disk, after, n, old, finode, block)
    BY <1>6, <1>9, <2>1 DEF Entered
  <2>3. /\ tab2[d].type = "dir" /\ tab2[d].size = inode_tab[d].size + 1
        /\ finode # d /\ tab2[finode].type = type /\ tab2[finode].size = 0
    <3>1. NewInode(type).type = type
      BY DEF NewInode
    <3> QED
      BY <1>2, <3>1 DEF Made
  <2>4. ASSUME NEW i \in Inode \ {d, finode}
        PROVE  tab2[i] = inode_tab[i] /\ Stays(disk, after, inode_tab[i])
    <3>1. tab2[i] = inode_tab[i]
      BY <1>6
    <3>2. ASSUME NEW k \in 0 .. Used(tab2[i]) - 1
          PROVE  after[tab2[i].blocks[k]] = disk[tab2[i].blocks[k]]
      <4>1. tab2[i].blocks[k] \in Block
        BY <1>3, BlockOf
      <4>2. tab2[i].blocks[k] # block
        BY <1>3, <1>6 DEF Apart
      <4> QED
        BY <1>9, <2>1, <4>1, <4>2
    <3> QED
      BY <3>1, <3>2 DEF Stays
  <2>5. ASSUME NEW i \in Inode, tab2[i].type = "dir", NEW k \in 1 .. tab2[i].size
        PROVE  IF i = d /\ k = inode_tab[d].size + 1
               THEN EntryAt(after, tab2, i, k) = <<n, finode>>
               ELSE /\ EntryAt(after, tab2, i, k) = EntryAt(disk, inode_tab, i, k)
                    /\ inode_tab[i].type = "dir" /\ k \in 1 .. inode_tab[i].size
    BY <1>2, <1>3, <1>5, <2>2, <2>5, EntriesAfter
  <2>6. EntryAdded(d, n, type, finode, disk, after, inode_tab, tab2)
    BY <1>6, <1>15, <2>3, <2>4, <2>5 DEF EntryAdded
  <2> QED
    BY <2>6 DEF after
<1>18. finode \in Inode \ inode_bmap
  BY <1>2 DEF Made
<1> QED
  BY <1>1, <1>16, <1>17, <1>18 DEF disk

-----------------------------------------------------------------------------
(* What a lookup finds.                                                    *)

DownFold == INSTANCE FoldProofs WITH op <- Down

LEMMA DownIs ==
  ASSUME NEW base, NEW seq
  PROVE  FoldLeft(Down, base, seq) = DownFold!Folded(base, seq)
BY DEF FoldLeft, MapThenFoldSet, DownFold!Folded, DownFold!Iterates, Max, DownFold!Top

\* Entry k is the one called n, if there is one.
Named(disk, tab, d, n, k) ==
    /\ k \in 0 .. tab[d].size
    /\ k = 0 => \A i \in 1 .. tab[d].size : EntryAt(disk, tab, d, i)[1] # n
    /\ k # 0 => EntryAt(disk, tab, d, k)[1] = n

\* What a directory has for a name, or NULL.
NameIn(disk, tab, d, n) ==
    LET match == {k \in 1 .. tab[d].size : EntryAt(disk, tab, d, k)[1] = n}
    IN  IF tab[d].type # "dir" \/ match = {} THEN NULL
        ELSE EntryAt(disk, tab, d, Max(match))[2]

LEMMA NameInIs ==
  ASSUME NEW disk, NEW tab, TableOK(tab), EntriesOK(disk, tab), NEW d \in Inode,
         tab[d].type = "dir", NEW n, NEW k, Named(disk, tab, d, n, k)
  PROVE  NameIn(disk, tab, d, n) = IF k = 0 THEN NULL ELSE EntryAt(disk, tab, d, k)[2]
<1> DEFINE match == {i \in 1 .. tab[d].size : EntryAt(disk, tab, d, i)[1] = n}
           size == tab[d].size
<1>1. size \in Nat /\ k \in 0 .. size
  BY DEF Named, TableOK, InodeRecord
<1>2. NameIn(disk, tab, d, n) =
         IF match = {} THEN NULL ELSE EntryAt(disk, tab, d, Max(match))[2]
  BY DEF NameIn
<1>3. CASE k = 0
  <2>1. match = {}
    BY <1>3 DEF Named
  <2> QED
    BY <1>2, <1>3, <2>1
<1>4. CASE k # 0
  <2>1. k \in 1 .. size /\ EntryAt(disk, tab, d, k)[1] = n
    BY <1>1, <1>4 DEF Named
  <2>2. \A i \in 1 .. size : EntryAt(disk, tab, d, i)[1] = n => i = k
    BY <1>1, <2>1 DEF EntriesOK
  <2>3. match = {k}
    BY <2>1, <2>2
  <2>4. {k} = {k, k} /\ k \in Int
    BY <1>1, <2>1
  <2>5. Max({k, k}) = k
    BY <2>4, TwoNumbers
  <2>6. Max(match) = k
    BY <2>3, <2>4, <2>5
  <2> HIDE DEF match
  <2>7. match # {}
    BY <2>3
  <2> QED
    BY <1>2, <1>4, <2>6, <2>7
<1> QED
  BY <1>3, <1>4

LEMMA SomeNamed ==
  ASSUME NEW disk, NEW tab, TableOK(tab), NEW d \in Inode, NEW n
  PROVE  \E k : Named(disk, tab, d, n, k)
<1>1. tab[d].size \in Nat
  BY DEF TableOK, InodeRecord
<1>2. CASE \E k \in 1 .. tab[d].size : EntryAt(disk, tab, d, k)[1] = n
  <2>1. PICK k \in 1 .. tab[d].size : EntryAt(disk, tab, d, k)[1] = n
    BY <1>2
  <2>2. Named(disk, tab, d, n, k)
    BY <1>1, <2>1 DEF Named
  <2> QED
    BY <2>2
<1>3. CASE ~\E k \in 1 .. tab[d].size : EntryAt(disk, tab, d, k)[1] = n
  <2>1. Named(disk, tab, d, n, 0)
    BY <1>1, <1>3 DEF Named
  <2> QED
    BY <2>1
<1> QED
  BY <1>2, <1>3

\* What there is to see of the disk and the table.
KindView(tab, imap) == [i \in Inode |-> IF i \in imap THEN tab[i].type ELSE "free"]
ListingView(disk, tab) == [d \in Inode |-> [n \in Name |-> NameIn(disk, tab, d, n)]]
ContentView(disk, tab) ==
    [f \in Inode |-> IF tab[f].type # "file" THEN << >>
                     ELSE Bytes(disk, tab[f], 0, tab[f].size)]

\* The caches show what is below them.
SeesThrough ==
    /\ storeKind = KindView(inode_tab, inode_bmap)
    /\ storeListing = ListingView(mem.disk, inode_tab)
    /\ storeContent = ContentView(mem.disk, inode_tab)

LEMMA StoreIsSeen ==
  FsAllInvariant => SeesThrough
<1> SUFFICES ASSUME FsInvariant, DataInvariant PROVE SeesThrough
  BY DEF FsAllInvariant
<1> DEFINE disk == mem.disk
           tab == inode_tab
<1>1. /\ TableOK(tab) /\ Steady(mem, disk, tab) /\ EntriesOK(disk, tab)
      /\ \A i \in Inode : Agrees(SeenInode(i), tab[i])
      /\ \A i \in Inode \ inode_bmap : tab[i].type = "none"
  BY SeenAgrees DEF FsInvariant, DataInvariant
<1>2. storeKind = KindView(tab, inode_bmap)
  BY <1>1 DEF storeKind, KindView, Agrees
<1>3. \A i \in Inode : /\ storeKind[i] = "dir" <=> tab[i].type = "dir"
                       /\ storeKind[i] = "file" <=> tab[i].type = "file"
  BY <1>1, <1>2 DEF KindView
<1> HIDE DEF disk
<1>4. ASSUME NEW d \in Inode, NEW n \in Name
      PROVE  storeListing[d][n] = NameIn(disk, tab, d, n)
  <2> DEFINE e == EntriesOf(d)
             size == tab[d].size
             match == {k \in DOMAIN e : e[k][1] = n}
             found == {k \in 1 .. size : EntryAt(disk, tab, d, k)[1] = n}
  <2>1. storeListing[d][n] =
           IF storeKind[d] # "dir" \/ match = {} THEN NULL ELSE e[Max(match)][2]
    BY DEF storeListing
  <2>2. NameIn(disk, tab, d, n) =
           IF tab[d].type # "dir" \/ found = {} THEN NULL
           ELSE EntryAt(disk, tab, d, Max(found))[2]
    BY DEF NameIn
  <2>3. CASE tab[d].type # "dir"
    BY <1>3, <2>1, <2>2, <2>3
  <2>4. CASE tab[d].type = "dir"
    <3>1. size \in Nat /\ SeenInode(d).size = size
      BY <1>1 DEF TableOK, InodeRecord, Agrees
    <3>2. DOMAIN e = 1 .. size
      BY <3>1 DEF EntriesOf, Entries
    <3>3. \A k \in 1 .. size : e[k] = EntryAt(disk, tab, d, k)
      BY <1>1, <2>4, <3>1, EntriesAre DEF EntriesOf
    <3> HIDE DEF e, size
    <3>4. match = {k \in 1 .. size : e[k][1] = n}
      BY <3>2
    <3>5. match = found
      BY <3>3, <3>4
    <3>6. match # {} => Max(match) \in 1 .. size
      <4>1. match \subseteq 0 .. size /\ match \subseteq 1 .. size
        BY <3>1, <3>4
      <4> HIDE DEF match
      <4> QED
        BY <3>1, <4>1, Extremes
    <3> HIDE DEF match, found
    <3> QED
      BY <1>3, <2>1, <2>2, <2>4, <3>3, <3>5, <3>6
  <2> QED
    BY <2>3, <2>4
<1>5. storeListing = ListingView(disk, tab)
  <2>1. storeListing = [d \in Inode |-> [n \in Name |-> storeListing[d][n]]]
    BY DEF storeListing
  <2> QED
    BY <1>4, <2>1 DEF ListingView
<1>6. ASSUME NEW f \in Inode, tab[f].type = "file"
      PROVE  storeContent[f] = Bytes(disk, tab[f], 0, tab[f].size)
  <2> DEFINE size == tab[f].size
  <2>1. size \in Nat /\ SeenInode(f).size = size
    BY <1>1 DEF TableOK, InodeRecord, Agrees
  <2>2. storeContent[f] =
           [k \in 1 .. size |->
               bc_data(mem, SeenInode(f).blocks[(k - 1) \div BLOCK_SIZE])
                  [(k - 1) % BLOCK_SIZE]]
    BY <1>3, <1>6, <2>1 DEF storeContent
  <2>3. ASSUME NEW k \in 1 .. size
        PROVE  bc_data(mem, SeenInode(f).blocks[(k - 1) \div BLOCK_SIZE])
                  [(k - 1) % BLOCK_SIZE] = Byte(disk, tab[f], 0 + k)
    <3> DEFINE i == (k - 1) \div BLOCK_SIZE
               c == (k - 1) % BLOCK_SIZE
    <3>1. i \in 0 .. Used(tab[f]) - 1 /\ tab[f].blocks[i] \in Block
      BY <1>1, <1>6, BytePlace
    <3>2. 0 + k = k
      OBVIOUS
    <3>3. Byte(disk, tab[f], k) = disk[tab[f].blocks[i]][c]
      BY DEF Byte
    <3> HIDE DEF i, c
    <3>4. SeenInode(f).blocks[i] = tab[f].blocks[i]
      BY <1>1, <3>1 DEF Agrees
    <3>5. bc_data(mem, SeenInode(f).blocks[i]) = disk[tab[f].blocks[i]]
      BY <1>1, <3>1, <3>4, SteadyBlock
    <3> QED
      BY <3>2, <3>3, <3>5 DEF i, c
  <2> HIDE DEF size
  <2>4. Bytes(disk, tab[f], 0, size) = [k \in 1 .. size |-> Byte(disk, tab[f], 0 + k)]
    BY DEF Bytes
  <2> QED
    BY <2>2, <2>3, <2>4 DEF size
<1>7. storeContent = ContentView(disk, tab)
  <2>1. \A f \in Inode : tab[f].type # "file" => storeContent[f] = << >>
    BY <1>3 DEF storeContent
  <2>2. storeContent = [f \in Inode |-> storeContent[f]]
    BY DEF storeContent
  <2> QED
    BY <1>6, <2>1, <2>2 DEF ContentView
<1> QED
  BY <1>2, <1>5, <1>7 DEF SeesThrough, disk

LEMMA KindIs ==
  ASSUME FsInvariant, DataInvariant, NEW i \in Inode
  PROVE  storeKind[i] = "dir" <=> inode_tab[i].type = "dir"
<1>1. storeKind = KindView(inode_tab, inode_bmap)
  BY StoreIsSeen DEF FsAllInvariant, SeesThrough
<1> QED
  BY <1>1 DEF KindView, DataInvariant

LEMMA ListingIs ==
  ASSUME FsInvariant, DataInvariant, NEW d \in Inode, inode_tab[d].type = "dir",
         NEW n \in Name, NEW k, Named(mem.disk, inode_tab, d, n, k)
  PROVE  storeListing[d][n] =
            IF k = 0 THEN NULL ELSE EntryAt(mem.disk, inode_tab, d, k)[2]
<1>1. storeListing[d][n] = NameIn(mem.disk, inode_tab, d, n)
  BY StoreIsSeen DEF FsAllInvariant, SeesThrough, ListingView
<1>2. TableOK(inode_tab) /\ EntriesOK(mem.disk, inode_tab)
  BY DEF FsInvariant, DataInvariant
<1> QED
  BY <1>1, <1>2, NameInIs

\* Where a lookup has come to, or NULL if it failed.
Leads(acc, x) ==
    /\ acc.ok \in BOOLEAN
    /\ acc.ok => x = acc.at
    /\ ~acc.ok => x = NULL

LEMMA WalkLeads ==
  ASSUME FsInvariant, DataInvariant, NEW acc, WalkOK(acc), NEW x, Leads(acc, x),
         NEW name \in Name
  PROVE  Leads(Walk(acc, name), Down(x, name))
<1> DEFINE ic == ic_get(acc.ic, acc.at)
           idir == Head(ic).data
           k == Position(acc.mem, acc.at, idir, name)
           m == fsi_dir_search(acc.mem, acc.at, idir, name)
           e == Entries(acc.mem, acc.at, idir, idir.size)
           at == IF k = 0 THEN acc.at ELSE e[k][2]
           disk == mem.disk
<1>1. /\ TableOK(inode_tab) /\ EntriesOK(disk, inode_tab) /\ acc.at \in Inode
      /\ Steady(acc.mem, disk, inode_tab) /\ InodesOK(acc.ic, inode_tab)
  BY DEF FsInvariant, DataInvariant, WalkOK
<1>2. Agrees(idir, inode_tab[acc.at])
  BY <1>1, GetFinds
<1>3. Walk(acc, name) =
         IF ~acc.ok THEN acc
         ELSE IF idir.type # "dir" THEN [acc EXCEPT !.ic = ic, !.ok = FALSE]
         ELSE [mem |-> m, ic |-> ic, ok |-> k # 0, at |-> at]
  BY DEF Walk
<1>4. acc.at # NULL
  BY <1>1, NullAssumption
<1> HIDE DEF ic, idir, m, disk
<1>5. CASE ~acc.ok
  <2>1. Walk(acc, name) = acc
    BY <1>3, <1>5
  <2>2. x = NULL /\ Down(x, name) = NULL
    BY <1>5 DEF Leads, Down
  <2> QED
    BY <1>5, <2>1, <2>2 DEF Leads
<1>6. CASE acc.ok /\ idir.type # "dir"
  <2>1. Walk(acc, name) = [acc EXCEPT !.ic = ic, !.ok = FALSE]
    BY <1>3, <1>6
  <2>2. Walk(acc, name).ok = FALSE
    BY <2>1 DEF WalkOK
  <2>3. inode_tab[acc.at].type # "dir"
    BY <1>2, <1>6 DEF Agrees
  <2>4. storeKind[acc.at] # "dir"
    BY <1>1, <2>3, KindIs
  <2>5. Down(x, name) = NULL
    BY <1>4, <1>6, <2>4 DEF Leads, Down
  <2> QED
    BY <2>2, <2>5 DEF Leads
<1>7. CASE acc.ok /\ idir.type = "dir"
  <2>1. Walk(acc, name) = [mem |-> m, ic |-> ic, ok |-> k # 0, at |-> at]
    BY <1>3, <1>7
  <2>2. Walk(acc, name).ok = (k # 0) /\ Walk(acc, name).at = at
    BY <2>1
  <2>3. inode_tab[acc.at].type = "dir" /\ idir.size = inode_tab[acc.at].size
    BY <1>2, <1>7 DEF Agrees
  <2>4. Named(disk, inode_tab, acc.at, name, k)
    <3> HIDE DEF k
    <3>1. k = Position(acc.mem, acc.at, idir, name)
      BY DEF k
    <3> QED
      BY <1>1, <1>2, <2>3, <3>1, PositionIs DEF Named
  <2>5. Down(x, name) = storeListing[acc.at][name]
    <3>1. storeKind[acc.at] = "dir"
      BY <1>1, <2>3, KindIs
    <3> QED
      BY <1>4, <1>7, <3>1 DEF Leads, Down
  <2> HIDE DEF k
  <2>6. Down(x, name) = IF k = 0 THEN NULL ELSE EntryAt(disk, inode_tab, acc.at, k)[2]
    BY <1>1, <2>3, <2>4, <2>5, ListingIs DEF disk
  <2>7. k # 0 => at = EntryAt(disk, inode_tab, acc.at, k)[2]
    <3> SUFFICES ASSUME k # 0 PROVE e[k] = EntryAt(disk, inode_tab, acc.at, k)
      OBVIOUS
    <3>1. idir.size \in Nat /\ idir.size <= inode_tab[acc.at].size
      BY <1>2, <2>3 DEF Agrees, InodeRecord
    <3>2. k \in 1 .. idir.size
      BY <2>3, <2>4, <3>1 DEF Named
    <3> QED
      BY <1>1, <1>2, <2>3, <3>1, <3>2, EntriesAre
  <2> HIDE DEF at
  <2>8. CASE k = 0
    BY <2>2, <2>6, <2>8 DEF Leads
  <2>9. CASE k # 0
    BY <2>2, <2>6, <2>7, <2>9 DEF Leads
  <2> QED
    BY <2>8, <2>9
<1> QED
  BY <1>5, <1>6, <1>7

-----------------------------------------------------------------------------
(* The specification.                                                      *)

LEMMA FsInitially ==
  FsInit => FsInvariant
<1> SUFFICES ASSUME FsInit PROVE FsInvariant
  OBVIOUS
<1>1. \A i \in Inode : /\ inode_tab[i] \in InodeRecord /\ inode_tab[i].size = 0
                       /\ inode_tab \in [Inode -> InodeRecord]
  BY Sizes DEF FsInit, NewInode, InodeRecord, Block
<1>2. Parts(0, DIR_PAGE_ENTRIES) = 0 /\ Parts(0, BLOCK_SIZE) = 0
  BY Sizes, PartsHold, PartsFew
<1>3. \A i \in Inode : Used(inode_tab[i]) = 0
  BY <1>1, <1>2 DEF Used, Pages, OFFSET_TO_BLOCKS
<1>4. inode_tab \in [Inode -> InodeRecord]
  BY Sizes DEF FsInit, NewInode, InodeRecord, Block
<1>5. TableOK(inode_tab)
  BY <1>3, <1>4, Sizes DEF TableOK
<1>6. Apart(inode_tab, blk_bmap)
  <2> SUFFICES ASSUME NEW i \in Inode, NEW j \in Inode,
                      NEW k \in 0 .. Used(inode_tab[i]) - 1,
                      NEW l \in 0 .. Used(inode_tab[j]) - 1
               PROVE  FALSE
    BY DEF Apart
  <2>1. Used(inode_tab[i]) = 0
    BY <1>3
  <2> QED
    BY <2>1
<1>7. Cardinality({0, ROOT}) = 2
  <2> DEFINE S == {0}
  <2>1. IsFiniteSet(S) /\ Cardinality(S) = 1
    BY FS_Singleton
  <2>2. ROOT \notin S /\ S \cup {ROOT} = {0, ROOT}
    BY DEF ROOT
  <2> HIDE DEF S
  <2>3. Cardinality(S \cup {ROOT}) = Cardinality(S) + 1
    BY <2>1, <2>2, FS_AddElement
  <2>4. Cardinality(S \cup {ROOT}) = 2
    BY <2>1, <2>3
  <2> QED
    BY <2>2, <2>4
<1>8. BitmapsOK(inode_tab, inode_bmap, blk_bmap)
  BY <1>1, <1>7, Sizes DEF FsInit, BitmapsOK, Block
<1>9. CacheOK(icache, inode_tab)
  <2>1. icache = << >>
    BY DEF FsInit
  <2> QED
    BY <2>1 DEF CacheOK, IsCache, ToSet
<1> QED
  BY <1>5, <1>6, <1>8, <1>9 DEF FsInvariant

LEMMA DataInitially ==
  FsInit => DataInvariant
<1> SUFFICES ASSUME FsInit PROVE DataInvariant
  OBVIOUS
<1>1. FsInvariant
  BY FsInitially
<1>2. /\ mem = [disk |-> [b \in Block |-> ZeroBlock], bc |-> << >>, dc |-> << >>]
      /\ icache = << >> /\ inode_bmap = {0, ROOT} /\ fault = "no"
      /\ inode_tab = [i \in Inode |-> NewInode(IF i = ROOT THEN "dir" ELSE "none")]
  BY DEF FsInit
<1>3. Parted(mem) /\ DOMAIN mem.disk = Block /\ mem.bc = << >> /\ mem.dc = << >>
      /\ \A b \in Block : DOMAIN mem.disk[b] = Cells
  BY <1>2 DEF Parted, Cells
<1>4. IsCache(<< >>) /\ ToSet(<< >>) = {} /\ Len(<< >>) = 0
  BY DEF IsCache, ToSet
<1>5. InodesOK(icache, inode_tab)
  BY <1>1, <1>2, <1>4, CacheSizes DEF InodesOK, FsInvariant, AllClean
<1>6. Steady(mem, mem.disk, inode_tab)
  BY <1>3, <1>4, CacheSizes DEF Steady, Holds, PagesOK, AllClean
<1>7. \A i \in Inode : inode_tab[i].size = 0
                       /\ (i # ROOT => inode_tab[i].type = "none")
  BY <1>2 DEF NewInode
<1>8. EntriesOK(mem.disk, inode_tab)
  BY <1>7 DEF EntriesOK
<1> QED
  BY <1>2, <1>3, <1>5, <1>6, <1>7, <1>8 DEF DataInvariant

LEMMA FsSteps ==
  FsAllInvariant /\ [FsNext]_fsVars => FsInvariant'
<1> SUFFICES ASSUME FsInvariant, DataInvariant, [FsNext]_fsVars PROVE FsInvariant'
  BY DEF FsAllInvariant
<1>0. TableOK(inode_tab) /\ CacheOK(icache, inode_tab) /\ Settled
  BY DEF FsInvariant, DataInvariant, Settled
<1>1. ASSUME UNCHANGED <<inode_tab, inode_bmap, blk_bmap>>, CacheOK(icache', inode_tab)
      PROVE  FsInvariant'
  BY <1>1 DEF FsInvariant
<1>2. ASSUME NEW i \in Inode, GetAttrs(i) PROVE FsInvariant'
  BY <1>0, <1>1, <1>2, GetKeeps DEF GetAttrs
<1>3. ASSUME NEW path \in Path, LookupPath(path) PROVE FsInvariant'
  BY <1>0, <1>1, <1>3, LookupKeeps, WorkloadAssumption DEF LookupPath, InodesOK
<1>4. ASSUME NEW f \in Inode, NEW o \in Offset, NEW count \in Offset, Read(f, o, count)
      PROVE  FsInvariant'
  BY <1>0, <1>1, <1>4, GetKeeps DEF Read
<1>5. ASSUME NEW d \in Inode, Readdir(d, ITAB_SIZE) PROVE FsInvariant'
  <2>1. InodesOK(icache', inode_tab)
    BY <1>0, <1>5, Sizes, SeenAgrees, ReaddirKeeps DEF Readdir
  <2> QED
    BY <1>1, <1>5, <2>1 DEF Readdir, InodesOK
<1>6. ASSUME NEW f \in Inode, NEW o \in Offset, NEW data \in Data, WriteRefused(f, o, data)
      PROVE  FsInvariant'
  BY <1>0, <1>1, <1>6, GetKeeps DEF WriteRefused
<1>7. ASSUME NEW f \in Inode, NEW o \in Offset, NEW data \in Data, Write(f, o, data)
      PROVE  FsInvariant'
  <2>1. o \in Nat /\ data \in Seq(UNION {ToSet(x) : x \in Data})
    BY WorkloadAssumption
  <2> QED
    BY <1>7, <2>1, WriteKeeps
<1>8. ASSUME NEW d \in Inode, NEW n \in Name, MakeRefused(d, n) PROVE FsInvariant'
  BY <1>0, <1>1, <1>8, GetKeeps DEF MakeRefused
<1>9. ASSUME NEW d \in Inode, NEW n \in Name, NEW type \in {"dir", "file"}, Make(d, n, type)
      PROVE  FsInvariant'
  BY <1>9, MakeKeeps
<1>10. ASSUME UNCHANGED fsVars PROVE FsInvariant'
  BY <1>0, <1>1, <1>10 DEF fsVars
<1> QED
  BY <1>2, <1>3, <1>4, <1>5, <1>6, <1>7, <1>8, <1>9, <1>10 DEF FsNext, Faulty

LEMMA DataSteps ==
  FsAllInvariant /\ [FsNext]_fsVars => FsAllInvariant'
<1> SUFFICES ASSUME FsInvariant, DataInvariant, [FsNext]_fsVars, FsInvariant'
             PROVE  DataInvariant'
  BY FsSteps DEF FsAllInvariant
<1>0. /\ Settled /\ InodesOK(icache, inode_tab) /\ Steady(mem, mem.disk, inode_tab)
      /\ TableOK(inode_tab)
  BY DEF Settled, FsInvariant, DataInvariant
<1>1. ASSUME UNCHANGED <<inode_tab, inode_bmap>>, fault' \in {"no", "readdir"},
             InodesOK(icache', inode_tab), Steady(mem', mem.disk, inode_tab)
      PROVE  DataInvariant'
  <2>1. mem'.disk = mem.disk
    BY <1>1 DEF Steady
  <2> QED
    BY <1>1, <2>1 DEF DataInvariant
<1>2. ASSUME NEW i \in Inode, icache' = ic_get(icache, i)
      PROVE  InodesOK(icache', inode_tab)
  BY <1>0, <1>2, GetFinds
<1>3. \A i \in Inode : Agrees(SeenInode(i), inode_tab[i])
  BY SeenAgrees
<1>4. fault \in {"no", "readdir"}
  BY DEF DataInvariant
<1>5. ASSUME NEW i \in Inode, GetAttrs(i) PROVE DataInvariant'
  BY <1>0, <1>1, <1>2, <1>4, <1>5 DEF GetAttrs
<1>6. ASSUME NEW path \in Path, LookupPath(path) PROVE DataInvariant'
  BY <1>0, <1>1, <1>4, <1>6, LookupKeeps, WorkloadAssumption DEF LookupPath
<1>7. ASSUME NEW f \in Inode, NEW o \in Offset, NEW count \in Offset, Read(f, o, count)
      PROVE  DataInvariant'
  <2>1. o \in Nat /\ count \in Nat
    BY WorkloadAssumption
  <2>2. Steady(mem', mem.disk, inode_tab)
    BY <1>0, <1>3, <1>7, <2>1, ReadReturns DEF Read
  <2> QED
    BY <1>1, <1>2, <1>4, <1>7, <2>2 DEF Read
<1>8. ASSUME NEW d \in Inode, Readdir(d, ITAB_SIZE) PROVE DataInvariant'
  <2>1. ITAB_SIZE \in Nat
    BY Sizes
  <2>2. Steady(mem', mem.disk, inode_tab) /\ InodesOK(icache', inode_tab)
    BY <1>0, <1>3, <1>8, <2>1, ReaddirKeeps DEF Readdir
  <2>3. fault' \in {"no", "readdir"}
    BY <1>8 DEF Readdir
  <2> QED
    BY <1>1, <1>8, <2>2, <2>3 DEF Readdir
<1>9. ASSUME NEW f \in Inode, NEW o \in Offset, NEW data \in Data, WriteRefused(f, o, data)
      PROVE  DataInvariant'
  BY <1>0, <1>1, <1>2, <1>4, <1>9 DEF WriteRefused
<1>10. ASSUME NEW f \in Inode, NEW o \in Offset, NEW data \in Data, Write(f, o, data)
       PROVE  DataInvariant'
  <2>1. o \in Nat /\ data \in Seq(UNION {ToSet(x) : x \in Data})
    BY WorkloadAssumption
  <2> QED
    BY <1>10, <2>1, WriteData
<1>11. ASSUME NEW d \in Inode, NEW n \in Name, MakeRefused(d, n) PROVE DataInvariant'
  <2>1. Agrees(SeenInode(d), inode_tab[d]) /\ inode_tab[d].type = "dir"
    BY <1>3, <1>11 DEF MakeRefused, Agrees
  <2>2. Steady(mem', mem.disk, inode_tab)
    BY <1>0, <1>11, <2>1, SearchKeeps DEF MakeRefused
  <2> QED
    BY <1>1, <1>2, <1>4, <1>11, <2>2 DEF MakeRefused
<1>12. ASSUME NEW d \in Inode, NEW n \in Name, NEW type \in {"dir", "file"},
              Make(d, n, type)
       PROVE  DataInvariant'
  BY <1>12, MakeData
<1>13. ASSUME UNCHANGED fsVars PROVE DataInvariant'
  BY <1>0, <1>1, <1>4, <1>13 DEF fsVars
<1> QED
  BY <1>5, <1>6, <1>7, <1>8, <1>9, <1>10, <1>11, <1>12, <1>13 DEF FsNext, Faulty

LEMMA FsAlways ==
  FsSpec => []FsAllInvariant
<1>1. FsInit => FsAllInvariant
  BY FsInitially, DataInitially DEF FsAllInvariant
<1> QED
  BY <1>1, DataSteps, PTL DEF FsSpec

LEMMA ApartMeansApart ==
  FsInvariant => BlocksApart
<1> SUFFICES ASSUME FsInvariant PROVE BlocksApart
  OBVIOUS
<1>1. \A i : BlocksOf(i) = {<<i, k>> : k \in 0 .. Used(inode_tab[i]) - 1}
  BY DEF BlocksOf, Used
<1>2. ASSUME NEW x \in AllBlocks
      PROVE  \E i \in Inode : \E k \in 0 .. Used(inode_tab[i]) - 1 :
                x = <<i, k>> /\ Number(x) = inode_tab[i].blocks[k]
  BY <1>1 DEF AllBlocks, Number
<1>3. Apart(inode_tab, blk_bmap)
  BY DEF FsInvariant
<1>4. ASSUME NEW x \in AllBlocks, NEW y \in AllBlocks, x # y
      PROVE  Number(x) # Number(y)
  <2>1. PICK i \in Inode : \E k \in 0 .. Used(inode_tab[i]) - 1 :
              x = <<i, k>> /\ Number(x) = inode_tab[i].blocks[k]
    BY <1>2
  <2>2. PICK j \in Inode : \E l \in 0 .. Used(inode_tab[j]) - 1 :
              y = <<j, l>> /\ Number(y) = inode_tab[j].blocks[l]
    BY <1>2
  <2> QED
    BY <1>3, <1>4, <2>1, <2>2 DEF Apart
<1>5. \A x \in AllBlocks : Number(x) \in blk_bmap \ (0 .. RESERVED - 1)
  BY <1>2, <1>3 DEF Apart
<1> QED
  BY <1>4, <1>5 DEF BlocksApart

LEMMA CleanIsOnce ==
  ASSUME NEW c, IsCache(c), AllClean(c)
  PROVE  OnceAndClean(c) /\ \A i \in DOMAIN c : c[i] \in ToSet(c)
BY DEF IsCache, AllClean, OnceAndClean, ToSet

LEMMA AgreementHolds ==
  FsAllInvariant => CachesAgree
<1> SUFFICES ASSUME FsInvariant, DataInvariant PROVE CachesAgree
  BY DEF FsAllInvariant
<1>1. /\ IsCache(mem.bc) /\ AllClean(mem.bc)
      /\ \A x \in ToSet(mem.bc) : x.key \in Block /\ x.data = mem.disk[x.key]
  BY DEF DataInvariant, Steady, Holds, AllClean
<1>2. /\ IsCache(mem.dc) /\ AllClean(mem.dc)
      /\ \A x \in ToSet(mem.dc) : x.data = mem.disk[x.key[2]]
  BY DEF DataInvariant, Steady, PagesOK, AllClean
<1>3. /\ IsCache(icache) /\ AllClean(icache)
      /\ \A x \in ToSet(icache) : x.key \in Inode /\ Agrees(x.data, inode_tab[x.key])
  BY DEF DataInvariant, InodesOK, CacheOK
<1>4. ASSUME NEW i \in DOMAIN icache
      PROVE  /\ icache[i].data.size = inode_tab[icache[i].key].size
             /\ icache[i].data.type = inode_tab[icache[i].key].type
             /\ \A x \in BlocksOf(icache[i].key) : icache[i].data.blocks[x[2]] = Number(x)
  <2> DEFINE id == icache[i].key
             inode == icache[i].data
  <2>1. Agrees(inode, inode_tab[id])
    BY <1>3, CleanIsOnce
  <2> HIDE DEF id, inode
  <2>2. BlocksOf(id) = {<<id, k>> : k \in 0 .. Used(inode_tab[id]) - 1}
    BY DEF BlocksOf, Used
  <2>3. \A x \in BlocksOf(id) : inode.blocks[x[2]] = Number(x)
    BY <2>1, <2>2 DEF Agrees, Number
  <2>4. inode.size = inode_tab[id].size /\ inode.type = inode_tab[id].type
    BY <2>1 DEF Agrees
  <2> QED
    BY <2>3, <2>4 DEF id, inode
<1> QED
  BY <1>1, <1>2, <1>3, <1>4, CleanIsOnce DEF CachesAgree

LEMMA TypesHold ==
  FsAllInvariant => FsTypeOK
<1> SUFFICES ASSUME FsInvariant, DataInvariant PROVE FsTypeOK
  BY DEF FsAllInvariant
<1> DEFINE most == Max({BLOCK_SIZE, DIR_PAGE_ENTRIES})
<1>1. most \in Nat /\ BLOCK_SIZE <= most /\ DIR_PAGE_ENTRIES <= most
  <2>1. BLOCK_SIZE \in Int /\ DIR_PAGE_ENTRIES \in Int
    BY Sizes
  <2>2. most = IF BLOCK_SIZE <= DIR_PAGE_ENTRIES THEN DIR_PAGE_ENTRIES ELSE BLOCK_SIZE
    BY <2>1, TwoNumbers
  <2> QED
    BY <2>2, Sizes
<1> HIDE DEF most
<1>2. ASSUME NEW n \in Nat, NEW length \in Nat \ {0}, length <= most,
             Parts(n, length) <= INODE_NUM_BLKS
      PROVE  n <= INODE_NUM_BLKS * most
  <2> DEFINE q == Parts(n, length)
  <2>1. q \in Nat /\ n <= q * length /\ q <= INODE_NUM_BLKS
    BY <1>2, PartsHold
  <2> HIDE DEF q
  <2>2. q * length <= INODE_NUM_BLKS * length /\ q * length \in Nat
    BY <2>1, Sizes, ProductGrows
  <2>3. length * INODE_NUM_BLKS <= most * INODE_NUM_BLKS
    BY <1>1, <1>2, Sizes, ProductGrows
  <2>4. /\ INODE_NUM_BLKS * length = length * INODE_NUM_BLKS
        /\ INODE_NUM_BLKS * most = most * INODE_NUM_BLKS
        /\ INODE_NUM_BLKS * length \in Nat /\ INODE_NUM_BLKS * most \in Nat
    BY <1>1, Sizes
  <2> QED
    BY <2>1, <2>2, <2>3, <2>4
<1>3. \A i \in Inode : inode_tab[i].size \in 0 .. INODE_NUM_BLKS * most
  <2> SUFFICES ASSUME NEW i \in Inode
               PROVE  inode_tab[i].size \in 0 .. INODE_NUM_BLKS * most
    OBVIOUS
  <2>1. inode_tab[i].size \in Nat /\ Used(inode_tab[i]) <= INODE_NUM_BLKS
    BY DEF FsInvariant, TableOK, InodeRecord
  <2>2. inode_tab[i].size <= INODE_NUM_BLKS * most
    BY <1>1, <1>2, <2>1, Sizes DEF Used, Pages, OFFSET_TO_BLOCKS
  <2>3. INODE_NUM_BLKS * most \in Nat
    BY <1>1, Sizes
  <2> QED
    BY <2>1, <2>2, <2>3
<1>4. inode_tab \in [Inode -> INode]
  <2>1. inode_tab \in [Inode -> InodeRecord]
    BY DEF FsInvariant, TableOK
  <2>2. INode = [type : {"none", "dir", "file"}, size : 0 .. INODE_NUM_BLKS * most,
                 blocks : [0 .. INODE_NUM_BLKS - 1 -> Block]]
    BY DEF INode, most
  <2>3. \A i \in Inode : inode_tab[i] \in INode
    BY <1>3, <2>1, <2>2 DEF InodeRecord
  <2> QED
    BY <2>1, <2>3
<1>5. inode_bmap \subseteq Inode \cup {0} /\ blk_bmap \subseteq Block
  <2>1. ROOT \in Inode
    BY GeometryAssumption DEF ROOT, Inode
  <2> QED
    BY <2>1 DEF FsInvariant, BitmapsOK
<1>6. /\ DOMAIN mem.disk = Block /\ Len(mem.bc) <= BLOCK_CACHE_SIZE
      /\ Len(mem.dc) <= DIR_CACHE_SIZE /\ Len(icache) <= INODE_CACHE_SIZE
      /\ fault \in {"no", "readdir"}
  BY DEF DataInvariant, InodesOK, Steady, Holds, PagesOK
<1> QED
  BY <1>4, <1>5, <1>6 DEF FsTypeOK

\* What lies beyond the part asked for is cut off.
LEMMA SubSeqIs ==
  ASSUME NEW s, NEW o \in Nat, NEW e \in Int, NEW n \in Nat,
         n = IF e <= o THEN 0 ELSE e - o
  PROVE  SubSeq(s, o + 1, e) = Slice(s, o, n)
<1>1. SubSeq(s, o + 1, e) = [i \in 1 .. (1 + e - (o + 1)) |-> s[i + (o + 1) - 1]]
  OBVIOUS
<1>2. 1 .. (1 + e - (o + 1)) = 1 .. n
  OBVIOUS
<1>3. \A i \in 1 .. n : i + (o + 1) - 1 = o + i
  OBVIOUS
<1> QED
  BY <1>1, <1>2, <1>3 DEF Slice

LEMMA ReadsHold ==
  FsAllInvariant => ReadsContent
<1> SUFFICES ASSUME FsInvariant, DataInvariant, NEW f \in Inode,
                    storeKind[f] = "file", NEW o \in Offset, NEW count \in Offset
             PROVE  fs_read(SeenInode(f), o, count).buffer =
                       SubSeq(storeContent[f], o + 1, Min({o + count, SeenInode(f).size}))
  BY DEF FsAllInvariant, ReadsContent
<1> DEFINE ifile == SeenInode(f)
           disk == mem.disk
           content == storeContent[f]
           max == Min({count, ifile.size - o})
           end == Min({o + count, ifile.size})
           n == IF max <= 0 THEN 0 ELSE max
<1>1. o \in Nat /\ count \in Nat
  BY WorkloadAssumption
<1>2. ifile.type = "file"
  BY DEF storeKind
<1>3. Agrees(ifile, inode_tab[f]) /\ Settled /\ TableOK(inode_tab)
  BY SeenAgrees DEF Settled, DataInvariant, FsInvariant
<1>4. /\ ifile.size \in Nat /\ ifile.blocks \in [0 .. INODE_NUM_BLKS - 1 -> Block]
      /\ Used(ifile) <= INODE_NUM_BLKS /\ Used(ifile) = OFFSET_TO_BLOCKS(ifile.size)
  BY <1>2, <1>3 DEF Agrees, InodeRecord, TableOK, Used
<1>5. fs_read(ifile, o, count).buffer = Bytes(disk, ifile, o, n)
  BY <1>1, <1>2, <1>3, ReadReturns
<1>6. \A k \in 1 .. ifile.size : content[k] = Byte(disk, ifile, k)
  <2>1. content = [k \in 1 .. ifile.size |->
                      bc_data(mem, ifile.blocks[(k - 1) \div BLOCK_SIZE])
                         [(k - 1) % BLOCK_SIZE]]
    BY DEF storeContent
  <2> HIDE DEF content, ifile
  <2> SUFFICES ASSUME NEW k \in 1 .. ifile.size PROVE content[k] = Byte(disk, ifile, k)
    OBVIOUS
  <2>2. /\ (k - 1) \div BLOCK_SIZE \in Nat
        /\ (k - 1) \div BLOCK_SIZE < Parts(ifile.size, BLOCK_SIZE)
    <3>1. k - 1 \in Nat /\ k - 1 < ifile.size /\ (k - 1) + 1 = k
      BY <1>4
    <3>2. /\ (k - 1) \div BLOCK_SIZE \in Nat
          /\ Parts(k, BLOCK_SIZE) = (k - 1) \div BLOCK_SIZE + 1
      BY <3>1, Sizes, PartsNext
    <3>3. Parts(k, BLOCK_SIZE) <= Parts(ifile.size, BLOCK_SIZE)
      BY <1>4, <3>1, Sizes, PartsGrow
    <3>4. Parts(ifile.size, BLOCK_SIZE) \in Nat
      BY <1>4, Sizes, PartsHold
    <3> QED
      BY <3>2, <3>3, <3>4
  <2> DEFINE i == (k - 1) \div BLOCK_SIZE
  <2>3. i \in 0 .. INODE_NUM_BLKS - 1
    <3>1. i \in Nat /\ i < Parts(ifile.size, BLOCK_SIZE)
      BY <2>2
    <3>2. Parts(ifile.size, BLOCK_SIZE) <= INODE_NUM_BLKS
      BY <1>4 DEF OFFSET_TO_BLOCKS
    <3>3. Parts(ifile.size, BLOCK_SIZE) \in Nat
      BY <1>4, Sizes, PartsHold
    <3> HIDE DEF i
    <3> QED
      BY <3>1, <3>2, <3>3, Sizes
  <2>4. ifile.blocks[i] \in Block
    <3> HIDE DEF i
    <3> QED
      BY <1>4, <2>3
  <2>5. bc_data(mem, ifile.blocks[i]) = disk[ifile.blocks[i]]
    <3> HIDE DEF i
    <3> QED
      BY <2>4, SteadyBlock DEF DataInvariant
  <2> QED
    BY <2>1, <2>5 DEF Byte
<1>7. n \in Nat /\ n = (IF end <= o THEN 0 ELSE end - o) /\ end \in Int
      /\ \A k \in 1 .. n : o + k \in 1 .. ifile.size
  <2> HIDE DEF ifile
  <2>1. max = IF count <= ifile.size - o THEN count ELSE ifile.size - o
    <3>1. count \in Int /\ ifile.size - o \in Int
      BY <1>1, <1>4
    <3> QED
      BY <3>1, TwoNumbers
  <2>2. end = IF o + count <= ifile.size THEN o + count ELSE ifile.size
    <3>1. o + count \in Int /\ ifile.size \in Int
      BY <1>1, <1>4
    <3> QED
      BY <3>1, TwoNumbers
  <2> HIDE DEF max, end
  <2>3. n \in Nat /\ n = (IF end <= o THEN 0 ELSE end - o) /\ end \in Int
    BY <1>1, <1>4, <2>1, <2>2
  <2>4. n # 0 => o + n <= ifile.size
    BY <1>1, <1>4, <2>1
  <2> HIDE DEF n
  <2>5. \A k \in 1 .. n : o + k \in 1 .. ifile.size
    BY <1>1, <1>4, <2>3, <2>4
  <2> QED
    BY <2>3, <2>5
<1> HIDE DEF content, ifile, disk, n, max, end
<1>8. SubSeq(content, o + 1, end) = Slice(content, o, n)
  BY <1>1, <1>7, SubSeqIs
<1>9. Slice(content, o, n) = Bytes(disk, ifile, o, n)
  BY <1>6, <1>7 DEF Slice, Bytes
<1> QED
  BY <1>5, <1>8, <1>9 DEF content, ifile, end

LEMMA LookupsHold ==
  FsAllInvariant => LookupFinds
<1> SUFFICES ASSUME FsInvariant, DataInvariant, NEW path \in Path
             PROVE  LET found == FoldLeft(Down, ROOT, path)
                    IN  /\ fs_lookup(path).ok = (found # NULL)
                        /\ found # NULL => fs_lookup(path).at = found
  BY DEF FsAllInvariant, LookupFinds
<1> DEFINE base == [mem |-> mem, ic |-> icache, ok |-> TRUE, at |-> ROOT]
           n == Len(path)
           found == FoldLeft(Down, ROOT, path)
<1>0. Settled /\ path \in Seq(Name)
  BY WorkloadAssumption DEF FsInvariant, DataInvariant, Settled
<1>1. n \in Nat /\ DOMAIN path = 1 .. n /\ \A k \in 1 .. n : path[k] \in Name
  BY <1>0, LenProperties
<1>2. ROOT \in Inode
  BY GeometryAssumption DEF ROOT, Inode
<1>3. WalkOK(base) /\ Leads(base, ROOT)
  BY <1>0, <1>2 DEF WalkOK, Leads, Settled
<1>4. fs_lookup(path) = WalkFold!Folded(base, path)
  BY FoldsAre DEF fs_lookup
<1>5. found = DownFold!Folded(ROOT, path)
  BY DownIs
<1> HIDE DEF base, n, found
<1>6. PICK g : WalkFold!Values(g, base, path, n)
  BY <1>1, WalkFold!FoldSteps
<1>7. PICK h : DownFold!Values(h, ROOT, path, n)
  BY <1>1, DownFold!FoldSteps
<1>8. /\ g[0] = base /\ fs_lookup(path) = g[n]
      /\ \A k \in 1 .. n : g[k] = Walk(g[k - 1], path[k])
  BY <1>4, <1>6 DEF WalkFold!Values
<1>9. /\ h[0] = ROOT /\ found = h[n]
      /\ \A k \in 1 .. n : h[k] = Down(h[k - 1], path[k])
  BY <1>5, <1>7 DEF DownFold!Values
<1> DEFINE G == {k \in 0 .. n : WalkOK(g[k]) /\ Leads(g[k], h[k])}
<1>10. 0 \in G
  BY <1>1, <1>3, <1>8, <1>9
<1>11. ASSUME NEW k \in 1 .. n, k - 1 \in G PROVE k \in G
  <2>1. k \in 0 .. n /\ WalkOK(g[k - 1]) /\ Leads(g[k - 1], h[k - 1]) /\ path[k] \in Name
    BY <1>1, <1>11
  <2>2. WalkOK(Walk(g[k - 1], path[k]))
    BY <1>0, <2>1, WalkKeeps
  <2>3. Leads(Walk(g[k - 1], path[k]), Down(h[k - 1], path[k]))
    BY <2>1, WalkLeads
  <2> QED
    BY <1>8, <1>9, <2>1, <2>2, <2>3
<1>12. WalkOK(g[n]) /\ Leads(g[n], h[n])
  <2> HIDE DEF G
  <2>1. n \in G
    BY <1>1, <1>10, <1>11, WalkFold!CountUp
  <2> QED
    BY <2>1 DEF G
<1>13. NULL \notin Inode
  BY NullAssumption
<1>14. fs_lookup(path).ok = (found # NULL)
  BY <1>8, <1>9, <1>12, <1>13 DEF Leads, WalkOK
<1>15. found # NULL => fs_lookup(path).at = found
  BY <1>8, <1>9, <1>12, <1>13 DEF Leads, WalkOK
<1> QED
  BY <1>14, <1>15 DEF found

-----------------------------------------------------------------------------
(* The refinement.                                                         *)

\* What is in c, with data at o.
Rewritten(c, o, data) == SubSeq(c, 1, o) \o data \o SubSeq(c, o + Len(data) + 1, Len(c))

\* A file after a write, as a sequence.
LEMMA ContentAfter ==
  ASSUME NEW tab, TableOK(tab), NEW tab2, TableOK(tab2), NEW f \in Inode, NEW o,
         NEW T, NEW data \in Seq(T), NEW disk, NEW disk2,
         Overwritten(f, o, data, disk, disk2, tab, tab2), NEW c,
         c = Bytes(disk, tab[f], 0, tab[f].size)
  PROVE  Bytes(disk2, tab2[f], 0, tab2[f].size) = Rewritten(c, o, data)
<1> DEFINE size == tab[f].size
           size2 == tab2[f].size
           l == Len(data)
           g == [k \in 1 .. size2 |-> Byte(disk2, tab2[f], k)]
           r == IF size <= o + l THEN 0 ELSE size - (o + l)
<1>1. /\ o \in 0 .. size /\ size2 = Max({o + l, size})
      /\ \A p \in 1 .. size2 : ByteAfter(f, o, data, disk, disk2, tab, tab2, p)
  BY DEF Overwritten
<1>2. size \in Nat /\ l \in Nat
  BY LenProperties DEF TableOK, InodeRecord
<1>3. size2 = (IF o + l <= size THEN size ELSE o + l)
  <2>1. o + l \in Int /\ size \in Int
    BY <1>1, <1>2
  <2> QED
    BY <1>1, <2>1, TwoNumbers
<1>4. /\ size2 = o + l + r /\ r \in Nat /\ o + l \in Nat /\ o \in Nat
      /\ o <= size /\ o <= size2 /\ o + l <= size2
  BY <1>1, <1>2, <1>3
<1>5. Len(c) = size /\ \A k \in 1 .. size : c[k] = Byte(disk, tab[f], k)
  <2>1. c = [k \in 1 .. size |-> Byte(disk, tab[f], 0 + k)]
    BY DEF Bytes
  <2>2. \A k \in 1 .. size : 0 + k = k
    BY <1>2
  <2> HIDE DEF size
  <2> QED
    BY <1>2, <2>1, <2>2
<1>6. \A p \in 1 .. size2 : g[p] = IF p \in o + 1 .. o + l THEN data[p - o]
                                   ELSE Byte(disk, tab[f], p)
  BY <1>1 DEF ByteAfter
<1>7. Bytes(disk2, tab2[f], 0, size2) = Slice(g, 0, size2)
  <2>1. \A k \in 1 .. size2 : g[0 + k] = Byte(disk2, tab2[f], 0 + k)
    BY <1>4
  <2> HIDE DEF g
  <2> QED
    BY <2>1 DEF Bytes, Slice
<1> HIDE DEF g, size, size2, l, r
<1>8. SubSeq(c, 1, o) = Slice(g, 0, o)
  <2>0. o \in Int
    BY <1>4
  <2>1. SubSeq(c, 1, o) = [k \in 1 .. (1 + o - 1) |-> c[k + 1 - 1]]
    BY <2>0
  <2>2. \A k \in 1 .. o : c[k + 1 - 1] = g[0 + k]
    BY <1>2, <1>4, <1>5, <1>6
  <2>3. 1 .. (1 + o - 1) = 1 .. o
    BY <1>4
  <2> QED
    BY <2>1, <2>2, <2>3 DEF Slice
<1>9. data = Slice(g, o, l)
  <2>1. data = [k \in 1 .. l |-> data[k]]
    BY DEF l
  <2>2. ASSUME NEW k \in 1 .. l PROVE g[o + k] = data[k]
    <3>1. o + k \in 1 .. size2 /\ o + k \in o + 1 .. o + l /\ (o + k) - o = k
      BY <1>2, <1>4
    <3> QED
      BY <1>6, <3>1
  <2> QED
    BY <2>1, <2>2 DEF Slice
<1>10. SubSeq(c, o + l + 1, size) = Slice(g, o + l, r)
  <2> DEFINE e == o + l
  <2>1. e \in Nat /\ r = IF size <= e THEN 0 ELSE size - e
    BY <1>4 DEF r
  <2>3. \A k \in 1 .. r : c[e + k] = g[e + k]
    <3> SUFFICES ASSUME NEW k \in 1 .. r PROVE c[e + k] = g[e + k]
      OBVIOUS
    <3>1. e + k \in 1 .. size /\ e + k \in 1 .. size2 /\ e + k \notin o + 1 .. o + l
      BY <1>2, <1>4 DEF r
    <3> HIDE DEF e
    <3> QED
      BY <1>5, <1>6, <3>1
  <2> HIDE DEF e
  <2>2. SubSeq(c, e + 1, size) = Slice(c, e, r)
    <3>1. e \in Nat /\ size \in Int /\ r \in Nat
      BY <1>2, <1>4, <2>1
    <3> QED
      BY <2>1, <3>1, SubSeqIs
  <2> QED
    BY <2>2, <2>3 DEF Slice, e
<1>11. Slice(g, 0, o) \o Slice(g, o, l) = Slice(g, 0, o + l)
  BY <1>2, <1>4, SlicesJoin
<1>12. Slice(g, 0, o + l) \o Slice(g, o + l, r) = Slice(g, 0, size2)
  <2> DEFINE e == o + l
  <2>1. e \in Nat /\ size2 = e + r
    BY <1>4
  <2> HIDE DEF e
  <2>2. Slice(g, 0, e) \o Slice(g, e, r) = Slice(g, 0, size2)
    BY <1>4, <2>1, SlicesJoin
  <2> QED
    BY <2>2 DEF e
<1>13. SubSeq(c, 1, o) \o data \o SubSeq(c, o + l + 1, Len(c)) = Slice(g, 0, size2)
  BY <1>5, <1>8, <1>9, <1>10, <1>11, <1>12
<1>14. Rewritten(c, o, data) = Slice(g, 0, size2)
  BY <1>13 DEF Rewritten, l
<1> QED
  BY <1>7, <1>14 DEF size2

\* A file whose blocks stay stays.
LEMMA ContentStays ==
  ASSUME NEW tab, TableOK(tab), NEW f \in Inode, tab[f].type = "file", NEW disk,
         NEW disk2, Stays(disk, disk2, tab[f])
  PROVE  Bytes(disk2, tab[f], 0, tab[f].size) = Bytes(disk, tab[f], 0, tab[f].size)
<1> DEFINE size == tab[f].size
<1>1. ASSUME NEW k \in 1 .. size
      PROVE  Byte(disk2, tab[f], 0 + k) = Byte(disk, tab[f], 0 + k)
  <2> DEFINE i == (k - 1) \div BLOCK_SIZE
             c == (k - 1) % BLOCK_SIZE
  <2>1. i \in 0 .. Used(tab[f]) - 1
    BY BytePlace
  <2>2. 0 + k = k
    OBVIOUS
  <2>3. /\ Byte(disk2, tab[f], k) = disk2[tab[f].blocks[i]][c]
        /\ Byte(disk, tab[f], k) = disk[tab[f].blocks[i]][c]
    BY DEF Byte
  <2> HIDE DEF i, c
  <2> QED
    BY <2>1, <2>2, <2>3 DEF Stays
<1> HIDE DEF size
<1>2. Bytes(disk2, tab[f], 0, size) = Bytes(disk, tab[f], 0, size)
  BY <1>1 DEF Bytes
<1> QED
  BY <1>2 DEF size

\* So do the names of a directory.
LEMMA NamesStay ==
  ASSUME NEW tab, TableOK(tab), NEW tab2, NEW d \in Inode, tab2[d] = tab[d],
         NEW disk, NEW disk2, Stays(disk, disk2, tab[d]), NEW n
  PROVE  NameIn(disk2, tab2, d, n) = NameIn(disk, tab, d, n)
<1>1. CASE tab[d].type # "dir"
  BY <1>1 DEF NameIn
<1>2. CASE tab[d].type = "dir"
  <2>1. ASSUME NEW k \in 1 .. tab[d].size
        PROVE  EntryAt(disk2, tab2, d, k) = EntryAt(disk, tab, d, k)
    <3> DEFINE p == (k - 1) \div DIR_PAGE_ENTRIES
               j == (k - 1) % DIR_PAGE_ENTRIES
    <3>1. p \in 0 .. Used(tab[d]) - 1
      BY <1>2, EntryPlace
    <3>2. /\ EntryAt(disk2, tab2, d, k) = disk2[tab[d].blocks[p]][j]
          /\ EntryAt(disk, tab, d, k) = disk[tab[d].blocks[p]][j]
      BY DEF EntryAt
    <3> HIDE DEF p, j
    <3> QED
      BY <1>2, <3>1, <3>2 DEF Stays
  <2> DEFINE old == {k \in 1 .. tab[d].size : EntryAt(disk, tab, d, k)[1] = n}
             new == {k \in 1 .. tab[d].size : EntryAt(disk2, tab2, d, k)[1] = n}
  <2>2. new = old
    BY <2>1
  <2>3. old # {} => Max(old) \in 1 .. tab[d].size
    <3>1. tab[d].size \in Nat /\ old \subseteq 1 .. tab[d].size
      BY DEF TableOK, InodeRecord
    <3> HIDE DEF old
    <3>2. old # {} => Max(old) \in old
      <4>1. old \subseteq 0 .. tab[d].size
        BY <3>1
      <4> QED
        BY <3>1, <4>1, Extremes
    <3> QED
      BY <3>1, <3>2
  <2>4. /\ NameIn(disk2, tab2, d, n) =
              IF new = {} THEN NULL ELSE EntryAt(disk2, tab2, d, Max(new))[2]
        /\ NameIn(disk, tab, d, n) =
              IF old = {} THEN NULL ELSE EntryAt(disk, tab, d, Max(old))[2]
    BY <1>2 DEF NameIn
  <2> HIDE DEF old, new
  <2> QED
    BY <2>1, <2>2, <2>3, <2>4
<1> QED
  BY <1>1, <1>2

\* The views before and after a write.
WriteSeen(f, o, data, disk, disk2, tab, tab2, imap) ==
    LET c == ContentView(disk, tab)[f]
    IN  /\ o \in 0 .. Len(c)
        /\ KindView(tab2, imap) = KindView(tab, imap)
        /\ ListingView(disk2, tab2) = ListingView(disk, tab)
        /\ ContentView(disk2, tab2) =
              [ContentView(disk, tab) EXCEPT ![f] = Rewritten(c, o, data)]

LEMMA ViewsAfterWrite ==
  ASSUME NEW tab, TableOK(tab), NEW tab2, TableOK(tab2), NEW f \in Inode, NEW o,
         NEW T, NEW data \in Seq(T), NEW disk, NEW disk2, NEW imap,
         Overwritten(f, o, data, disk, disk2, tab, tab2)
  PROVE  WriteSeen(f, o, data, disk, disk2, tab, tab2, imap)
<1> DEFINE c == Bytes(disk, tab[f], 0, tab[f].size)
           new == Rewritten(c, o, data)
<1>1. /\ tab[f].type = "file" /\ tab2[f].type = "file" /\ o \in 0 .. tab[f].size
      /\ \A i \in Inode \ {f} : tab2[i] = tab[i] /\ Stays(disk, disk2, tab[i])
  BY DEF Overwritten
<1>2. \A i \in Inode : tab2[i].type = tab[i].type
  BY <1>1
<1>3. KindView(tab2, imap) = KindView(tab, imap)
  BY <1>2 DEF KindView
<1>4. \A i \in Inode, n \in Name : NameIn(disk2, tab2, i, n) = NameIn(disk, tab, i, n)
  <2> SUFFICES ASSUME NEW i \in Inode, NEW n \in Name
               PROVE  NameIn(disk2, tab2, i, n) = NameIn(disk, tab, i, n)
    OBVIOUS
  <2>1. CASE i = f
    BY <1>1, <2>1 DEF NameIn
  <2>2. CASE i # f
    BY <1>1, <2>2, NamesStay
  <2> QED
    BY <2>1, <2>2
<1>5. ListingView(disk2, tab2) = ListingView(disk, tab)
  BY <1>4 DEF ListingView
<1>6. Bytes(disk2, tab2[f], 0, tab2[f].size) = new
  <2> HIDE DEF c
  <2>1. c = Bytes(disk, tab[f], 0, tab[f].size)
    BY DEF c
  <2> QED
    BY <2>1, ContentAfter
<1>7. ASSUME NEW i \in Inode \ {f}, tab[i].type = "file"
      PROVE  Bytes(disk2, tab2[i], 0, tab2[i].size) = Bytes(disk, tab[i], 0, tab[i].size)
  BY <1>1, <1>7, ContentStays
<1>8. ContentView(disk, tab)[f] = c
  BY <1>1 DEF ContentView
<1>9. Len(c) = tab[f].size
  BY DEF TableOK, InodeRecord, Bytes
<1> HIDE DEF c, new
<1>10. ContentView(disk2, tab2) = [ContentView(disk, tab) EXCEPT ![f] = new]
  BY <1>1, <1>2, <1>6, <1>7 DEF ContentView
<1> QED
  BY <1>1, <1>3, <1>5, <1>8, <1>9, <1>10 DEF new, WriteSeen

\* The views before and after a new entry.
MakeSeen(d, n, type, g, disk, disk2, tab, tab2, imap) ==
    /\ KindView(tab, imap)[d] = "dir" /\ KindView(tab, imap)[g] = "free"
    /\ ListingView(disk, tab)[d][n] = NULL
    /\ KindView(tab2, imap \cup {g}) = [KindView(tab, imap) EXCEPT ![g] = type]
    /\ ListingView(disk2, tab2) = [ListingView(disk, tab) EXCEPT ![d][n] = g]
    /\ ContentView(disk2, tab2) = ContentView(disk, tab)

LEMMA ViewsAfterMake ==
  ASSUME NEW tab, TableOK(tab), NEW tab2, TableOK(tab2), NEW d \in Inode,
         NEW n \in Name, NEW type \in {"dir", "file"}, NEW imap, d \in imap,
         NEW g \in Inode \ imap, tab[g].type = "none", NEW disk, EntriesOK(disk, tab),
         NEW disk2, EntriesOK(disk2, tab2),
         EntryAdded(d, n, type, g, disk, disk2, tab, tab2)
  PROVE  MakeSeen(d, n, type, g, disk, disk2, tab, tab2, imap)
<1>1. /\ tab[d].type = "dir" /\ tab2[d].type = "dir" /\ tab2[d].size = tab[d].size + 1
      /\ \A k \in 1 .. tab[d].size : EntryAt(disk, tab, d, k)[1] # n
      /\ g # d /\ tab2[g].type = type /\ tab2[g].size = 0
      /\ \A i \in Inode \ {d, g} : tab2[i] = tab[i] /\ Stays(disk, disk2, tab[i])
      /\ \A k \in 1 .. tab2[d].size :
            IF k = tab[d].size + 1 THEN EntryAt(disk2, tab2, d, k) = <<n, g>>
            ELSE EntryAt(disk2, tab2, d, k) = EntryAt(disk, tab, d, k)
  BY DEF EntryAdded
<1>2. KindView(tab, imap)[d] = "dir" /\ KindView(tab, imap)[g] = "free"
  BY <1>1 DEF KindView
<1>3. KindView(tab2, imap \cup {g}) = [KindView(tab, imap) EXCEPT ![g] = type]
  BY <1>1 DEF KindView
<1>4. tab[d].size \in Nat /\ tab2[d].size \in Nat
  BY DEF TableOK, InodeRecord
<1>5. NameIn(disk, tab, d, n) = NULL
  <2>1. Named(disk, tab, d, n, 0)
    BY <1>1, <1>4 DEF Named
  <2> QED
    BY <1>1, <2>1, NameInIs
<1>6. NameIn(disk2, tab2, d, n) = g
  <2> DEFINE k == tab[d].size + 1
  <2>1. k # 0 /\ k \in 1 .. tab2[d].size
    BY <1>1, <1>4
  <2>2. EntryAt(disk2, tab2, d, k) = <<n, g>>
    BY <1>1, <2>1
  <2> HIDE DEF k
  <2>3. Named(disk2, tab2, d, n, k)
    BY <1>4, <2>1, <2>2 DEF Named
  <2> QED
    BY <1>1, <2>1, <2>2, <2>3, NameInIs
<1>7. ASSUME NEW m \in Name, m # n
      PROVE  NameIn(disk2, tab2, d, m) = NameIn(disk, tab, d, m)
  <2>1. PICK k : Named(disk, tab, d, m, k)
    BY SomeNamed
  <2>2. k \in 0 .. tab[d].size
    BY <2>1 DEF Named
  <2>3. k # 0 => EntryAt(disk2, tab2, d, k) = EntryAt(disk, tab, d, k)
    BY <1>1, <1>4, <2>2
  <2>4. Named(disk2, tab2, d, m, k)
    <3>1. ASSUME k = 0, NEW l \in 1 .. tab2[d].size
          PROVE  EntryAt(disk2, tab2, d, l)[1] # m
      <4>1. CASE l = tab[d].size + 1
        BY <1>1, <1>7, <4>1
      <4>2. CASE l # tab[d].size + 1
        <5>1. l \in 1 .. tab[d].size
          BY <1>1, <1>4, <4>2
        <5> QED
          BY <1>1, <2>1, <3>1, <4>2, <5>1 DEF Named
      <4> QED
        BY <4>1, <4>2
    <3>2. k # 0 => EntryAt(disk2, tab2, d, k)[1] = m
      BY <2>1, <2>3 DEF Named
    <3>3. k \in 0 .. tab2[d].size
      BY <1>1, <1>4, <2>2
    <3> QED
      BY <3>1, <3>2, <3>3 DEF Named
  <2>5. /\ NameIn(disk, tab, d, m) = IF k = 0 THEN NULL ELSE EntryAt(disk, tab, d, k)[2]
        /\ NameIn(disk2, tab2, d, m)
              = IF k = 0 THEN NULL ELSE EntryAt(disk2, tab2, d, k)[2]
    BY <1>1, <2>1, <2>4, NameInIs
  <2> QED
    BY <2>3, <2>5
<1>8. ASSUME NEW i \in Inode \ {d}, NEW m \in Name
      PROVE  NameIn(disk2, tab2, i, m) = NameIn(disk, tab, i, m)
  <2>1. CASE i = g
    <3>1. NameIn(disk, tab, g, m) = NULL
      BY DEF NameIn
    <3>2. NameIn(disk2, tab2, g, m) = NULL
      <4>1. 1 .. tab2[g].size = {}
        BY <1>1
      <4> QED
        BY <4>1 DEF NameIn
    <3> QED
      BY <2>1, <3>1, <3>2
  <2>2. CASE i # g
    BY <1>1, <2>2, NamesStay
  <2> QED
    BY <2>1, <2>2
<1>9. ListingView(disk, tab)[d][n] = NULL
  BY <1>5 DEF ListingView
<1>10. ListingView(disk2, tab2) = [ListingView(disk, tab) EXCEPT ![d][n] = g]
  BY <1>6, <1>7, <1>8 DEF ListingView
<1>11. ASSUME NEW i \in Inode
       PROVE  (IF tab2[i].type # "file" THEN << >> ELSE Bytes(disk2, tab2[i], 0, tab2[i].size))
                = (IF tab[i].type # "file" THEN << >> ELSE Bytes(disk, tab[i], 0, tab[i].size))
  <2>1. CASE i = d
    BY <1>1, <2>1
  <2>2. CASE i = g
    <3>1. Bytes(disk2, tab2[g], 0, tab2[g].size) = << >>
      BY <1>1 DEF Bytes
    <3> QED
      BY <2>2, <3>1
  <2>3. CASE i \notin {d, g}
    BY <1>1, <2>3, ContentStays
  <2> QED
    BY <2>1, <2>2, <2>3
<1>12. ContentView(disk2, tab2) = ContentView(disk, tab)
  BY <1>11 DEF ContentView
<1> QED
  BY <1>2, <1>3, <1>9, <1>10, <1>12 DEF MakeSeen

LEMMA StoreInitially ==
  FsInit => Store!StoreInit
<1> SUFFICES ASSUME FsInit PROVE Store!StoreInit
  OBVIOUS
<1>1. SeesThrough
  BY FsInitially, DataInitially, StoreIsSeen DEF FsAllInvariant
<1>2. /\ inode_bmap = {0, ROOT}
      /\ \A i \in Inode : /\ inode_tab[i].type = IF i = ROOT THEN "dir" ELSE "none"
                          /\ inode_tab[i].size = 0
  BY DEF FsInit, NewInode
<1>3. storeKind = [i \in Inode |-> IF i = ROOT THEN "dir" ELSE "free"]
  <2>1. 0 \notin Inode
    BY DEF Inode
  <2> QED
    BY <1>1, <1>2, <2>1 DEF SeesThrough, KindView
<1>4. ASSUME NEW d \in Inode, NEW n \in Name
      PROVE  NameIn(mem.disk, inode_tab, d, n) = NULL
  <2>1. 1 .. inode_tab[d].size = {}
    BY <1>2
  <2> QED
    BY <2>1 DEF NameIn
<1>5. storeListing = [i \in Inode |-> [n \in Name |-> NULL]]
  BY <1>1, <1>4 DEF SeesThrough, ListingView
<1>6. storeContent = [i \in Inode |-> << >>]
  BY <1>1, <1>2 DEF SeesThrough, ContentView
<1> QED
  BY <1>3, <1>5, <1>6 DEF Store!StoreInit

\* A step that leaves the disk, the table and the bitmap of the inodes cannot be seen.
LEMMA StoreUnseen ==
  ASSUME SeesThrough, SeesThrough', mem'.disk = mem.disk,
         UNCHANGED <<inode_tab, inode_bmap>>
  PROVE  UNCHANGED Store!storeVars
<1>1. /\ KindView(inode_tab, inode_bmap)' = KindView(inode_tab, inode_bmap)
      /\ ListingView(mem.disk, inode_tab)' = ListingView(mem.disk, inode_tab)
      /\ ContentView(mem.disk, inode_tab)' = ContentView(mem.disk, inode_tab)
  BY DEF KindView, ListingView, ContentView, NameIn, EntryAt, Bytes, Byte
<1> QED
  BY <1>1 DEF SeesThrough, Store!storeVars

LEMMA StoreSteps ==
  FsAllInvariant /\ [FsNext]_fsVars => [Store!StoreNext]_(Store!storeVars)
<1> SUFFICES ASSUME FsAllInvariant, [FsNext]_fsVars
             PROVE  [Store!StoreNext]_(Store!storeVars)
  OBVIOUS
<1>1. FsAllInvariant'
  BY DataSteps
<1>2. SeesThrough
  BY StoreIsSeen
<1>3. (FsAllInvariant => SeesThrough)'
  BY StoreIsSeen, PTL
<1>4. SeesThrough'
  BY <1>1, <1>3
<1>5. /\ FsInvariant /\ DataInvariant /\ FsInvariant' /\ DataInvariant'
      /\ TableOK(inode_tab) /\ TableOK(inode_tab')
      /\ Settled /\ InodesOK(icache, inode_tab) /\ Steady(mem, mem.disk, inode_tab)
      /\ EntriesOK(mem.disk, inode_tab) /\ EntriesOK(mem'.disk, inode_tab')
      /\ \A i \in Inode \ inode_bmap : inode_tab[i].type = "none"
  BY <1>1 DEF FsAllInvariant, FsInvariant, DataInvariant, Settled
<1>6. \A i \in Inode : Agrees(SeenInode(i), inode_tab[i])
  BY <1>5, SeenAgrees
<1>7. ASSUME UNCHANGED <<inode_tab, inode_bmap>>, Steady(mem', mem.disk, inode_tab)
      PROVE  UNCHANGED Store!storeVars
  <2>1. mem'.disk = mem.disk
    BY <1>7 DEF Steady
  <2> QED
    BY <1>2, <1>4, <1>7, <2>1, StoreUnseen
<1>8. ASSUME NEW i \in Inode, GetAttrs(i) PROVE UNCHANGED Store!storeVars
  BY <1>5, <1>7, <1>8 DEF GetAttrs
<1>9. ASSUME NEW path \in Path, LookupPath(path) PROVE UNCHANGED Store!storeVars
  BY <1>5, <1>7, <1>9, LookupKeeps, WorkloadAssumption DEF LookupPath
<1>10. ASSUME NEW f \in Inode, NEW o \in Offset, NEW count \in Offset, Read(f, o, count)
       PROVE  UNCHANGED Store!storeVars
  <2>1. o \in Nat /\ count \in Nat
    BY WorkloadAssumption
  <2>2. Steady(mem', mem.disk, inode_tab)
    BY <1>5, <1>6, <1>10, <2>1, ReadReturns DEF Read
  <2> QED
    BY <1>7, <1>10, <2>2 DEF Read
<1>11. ASSUME NEW d \in Inode, Readdir(d, ITAB_SIZE) PROVE UNCHANGED Store!storeVars
  <2>1. ITAB_SIZE \in Nat
    BY Sizes
  <2>2. Steady(mem', mem.disk, inode_tab)
    BY <1>5, <1>6, <1>11, <2>1, ReaddirKeeps DEF Readdir
  <2> QED
    BY <1>7, <1>11, <2>2 DEF Readdir
<1>12. ASSUME NEW f \in Inode, NEW o \in Offset, NEW data \in Data, WriteRefused(f, o, data)
       PROVE  UNCHANGED Store!storeVars
  BY <1>5, <1>7, <1>12 DEF WriteRefused
<1>13. ASSUME NEW d \in Inode, NEW n \in Name, MakeRefused(d, n)
       PROVE  UNCHANGED Store!storeVars
  <2>1. Agrees(SeenInode(d), inode_tab[d]) /\ inode_tab[d].type = "dir"
    BY <1>6, <1>13 DEF MakeRefused, Agrees
  <2>2. Steady(mem', mem.disk, inode_tab)
    BY <1>5, <1>13, <2>1, SearchKeeps DEF MakeRefused
  <2> QED
    BY <1>7, <1>13, <2>2 DEF MakeRefused
<1>14. ASSUME NEW f \in Inode, NEW offset \in Offset, NEW data \in Data,
              Write(f, offset, data)
       PROVE  [Store!StoreNext]_(Store!storeVars)
  <2> DEFINE T == UNION {ToSet(x) : x \in Data}
  <2>1. offset \in Nat /\ data \in Seq(T)
    BY WorkloadAssumption
  <2>2. inode_bmap' = inode_bmap
    BY <1>14 DEF Write
  <2>3. \/ mem' = mem /\ inode_tab' = inode_tab
        \/ \E o \in Nat : Overwritten(f, o, data, mem.disk, mem'.disk,
                                     inode_tab, inode_tab')
    <3> HIDE DEF T
    <3> QED
      BY <1>5, <1>14, <2>1, WriteData
  <2>4. CASE mem' = mem /\ inode_tab' = inode_tab
    BY <1>2, <1>4, <2>2, <2>4, StoreUnseen
  <2>5. ASSUME NEW o \in Nat,
               Overwritten(f, o, data, mem.disk, mem'.disk, inode_tab, inode_tab')
        PROVE  Store!StoreNext
    <3> DEFINE c == ContentView(mem.disk, inode_tab)[f]
    <3>1. /\ o \in 0 .. Len(c)
          /\ KindView(inode_tab', inode_bmap) = KindView(inode_tab, inode_bmap)
          /\ ListingView(mem'.disk, inode_tab') = ListingView(mem.disk, inode_tab)
          /\ ContentView(mem'.disk, inode_tab') =
                [ContentView(mem.disk, inode_tab) EXCEPT ![f] = Rewritten(c, o, data)]
      <4> HIDE DEF T
      <4>1. WriteSeen(f, o, data, mem.disk, mem'.disk, inode_tab, inode_tab', inode_bmap)
        BY <1>5, <2>1, <2>5, ViewsAfterWrite
      <4> QED
        BY <4>1 DEF WriteSeen
    <3>2. inode_tab[f].type = "file" /\ f \in inode_bmap
      BY <1>14 , <2>5 DEF Overwritten, Write, CallOn
    <3>3. storeKind[f] = "file"
      BY <1>2, <3>2 DEF SeesThrough, KindView
    <3>4. storeContent[f] = c
      BY <1>2 DEF SeesThrough
    <3>5. storeKind' = storeKind /\ storeListing' = storeListing
      BY <1>2, <1>4, <2>2, <3>1 DEF SeesThrough
    <3>6. storeContent' = [storeContent EXCEPT ![f] = Rewritten(storeContent[f], o, data)]
      BY <1>2, <1>4, <3>1, <3>4 DEF SeesThrough
    <3>7. Store!Overwrite(f, o, data)
      BY <3>3, <3>5, <3>6 DEF Store!Overwrite, Rewritten
    <3>8. o \in 0 .. Len(storeContent[f])
      BY <3>1, <3>4
    <3> QED
      BY <3>7, <3>8 DEF Store!StoreNext
  <2> QED
    BY <2>3, <2>4, <2>5
<1>15. ASSUME NEW d \in Inode, NEW n \in Name, NEW type \in {"dir", "file"},
              Make(d, n, type)
       PROVE  Store!StoreNext
  <2>1. PICK g \in Inode \ inode_bmap :
           /\ inode_bmap' = inode_bmap \cup {g}
           /\ EntryAdded(d, n, type, g, mem.disk, mem'.disk, inode_tab, inode_tab')
    BY <1>5, <1>15, MakeData
  <2>2. d \in inode_bmap /\ inode_tab[g].type = "none"
    BY <1>5, <1>15 DEF Make, CallOn
  <2>3. MakeSeen(d, n, type, g, mem.disk, mem'.disk, inode_tab, inode_tab', inode_bmap)
    BY <1>5, <2>1, <2>2, ViewsAfterMake
  <2>4. Store!Make(d, n, g, type)
    BY <1>2, <1>4, <2>1, <2>3 DEF SeesThrough, MakeSeen, Store!Make
  <2> QED
    BY <2>4 DEF Store!StoreNext
<1>16. ASSUME UNCHANGED fsVars PROVE UNCHANGED Store!storeVars
  BY <1>5, <1>7, <1>16 DEF fsVars
<1> QED
  BY <1>8, <1>9, <1>10, <1>11, <1>12, <1>13, <1>14, <1>15, <1>16 DEF FsNext, Faulty

-----------------------------------------------------------------------------
(* The theorems.                                                           *)

\* The fields keep their types, the caches their sizes, and fs_write never finds
\* its "severe error", a write that ends before all is written (fs.c).
THEOREM FsTypeCorrect ==
  FsSpec => []FsTypeOK
BY FsAlways, TypesHold, PTL

\* No block belongs to two files, or twice to one, and each is marked as used,
\* whatever is written, created and looked up, for every size of the caches
\* (fs_write and fsi_bmap of fs.c).
THEOREM FilesApart ==
  FsSpec => []BlocksApart
<1>1. FsAllInvariant => BlocksApart
  BY ApartMeansApart DEF FsAllInvariant
<1> QED
  BY <1>1, FsAlways, PTL

\* Between calls the three caches hide nothing, whatever their sizes: each entry is
\* clean, is there once, and agrees with what is below it (fsi_store_fsdata of fs.c,
\* and the caches of block.c and fs.c).
THEOREM CachesCorrect ==
  FsSpec => []CachesAgree
BY FsAlways, AgreementHolds, PTL

\* A read returns the bytes of the file that were asked for, as far as the file
\* goes, over any number of blocks and through caches of any size (fs_read of fs.c).
THEOREM ReadsCorrect ==
  FsSpec => []ReadsContent
BY FsAlways, ReadsHold, PTL

\* A lookup finds a path just when each of its names is in the directory that the
\* names before lead to, however long the path and whatever is cached (fs_lookup and
\* fsi_dir_search of fs.c).
THEOREM LookupCorrect ==
  FsSpec => []LookupFinds
BY FsAlways, LookupsHold, PTL

\* Seen through the caches, every call changes one file or one directory as it
\* should and nothing else, and a call that fails changes nothing: a write is all
\* there or not at all, whatever is cached and wherever blocks begin (fs_write,
\* fs_create and fs_mkdir of fs.c; fs.h: "the write operation is atomic").
THEOREM StoreImplemented ==
  FsSpec => ImplementsFileStore
BY StoreInitially, StoreSteps, FsAlways, PTL
   DEF FsSpec, ImplementsFileStore, Store!StoreSpec
=============================================================================
