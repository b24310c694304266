----------------------------- MODULE MyFsProofs -----------------------------
(***************************************************************************)
(* The client's file interface with the one server that snfs_init          *)
(* registers, for any number of clients, files and calls, and for all      *)
(* sizes.  The argument: a client has at most one message under way, its   *)
(* request or the answer to that; stores only grow; so what a client knows *)
(* of a file when it asks still holds when it is answered.  The last part  *)
(* is about names: what is listed stays listed, so a path keeps leading    *)
(* where it led, and a plain path is a directory, a slash and a last name. *)
(***************************************************************************)
EXTENDS RemoteCallProofs, NaturalsInduction, WellFoundedInduction

-----------------------------------------------------------------------------
(* Paths.                                                                  *)

Text == Seq(STRING)

TakeFold == INSTANCE FoldProofs WITH op <- Take
CopyFold == INSTANCE FoldProofs WITH op <- CopyOver
DownFold == INSTANCE FoldProofs WITH op <- Down

LEMMA PathFoldsAre ==
  ASSUME NEW base, NEW seq
  PROVE  /\ FoldLeft(Take, base, seq) = TakeFold!Folded(base, seq)
         /\ FoldLeft(CopyOver, base, seq) = CopyFold!Folded(base, seq)
         /\ FoldLeft(Down, base, seq) = DownFold!Folded(base, seq)
<1>1. FoldLeft(Take, base, seq) = TakeFold!Folded(base, seq)
  BY DEF FoldLeft, MapThenFoldSet, TakeFold!Folded, TakeFold!Iterates, Max, TakeFold!Top
<1>2. FoldLeft(CopyOver, base, seq) = CopyFold!Folded(base, seq)
  BY DEF FoldLeft, MapThenFoldSet, CopyFold!Folded, CopyFold!Iterates, Max, CopyFold!Top
<1>3. FoldLeft(Down, base, seq) = DownFold!Folded(base, seq)
  BY DEF FoldLeft, MapThenFoldSet, DownFold!Folded, DownFold!Iterates, Max, DownFold!Top
<1> QED
  BY <1>1, <1>2, <1>3

\* The names found so far in a text.
TakeOK(acc) == /\ DOMAIN acc = {"names", "inside"}
               /\ acc.names \in Seq(Text)
               /\ acc.inside => acc.names # << >>

LEMMA TakeKeeps ==
  ASSUME NEW acc, TakeOK(acc), NEW ch \in STRING
  PROVE  /\ TakeOK(Take(acc, ch))
         /\ Len(Take(acc, ch).names) = IF ch # "/" /\ ~acc.inside THEN Len(acc.names) + 1
                                       ELSE Len(acc.names)
<1> USE DEF TakeOK, Text
<1>1. CASE ch = "/"
  BY <1>1 DEF Take
<1>2. CASE ch # "/" /\ acc.inside
  <2> DEFINE l == Len(acc.names)
             more == [acc.names EXCEPT ![l] = Append(@, ch)]
  <2>1. l \in Nat /\ l # 0 /\ l \in DOMAIN acc.names
    BY <1>2
  <2>2. acc.names[l] \in Seq(STRING)
    BY <2>1
  <2>3. Append(acc.names[l], ch) \in Seq(STRING)
    BY <2>2
  <2>4. more \in Seq(Text) /\ Len(more) = l
    BY <2>1, <2>3
  <2>5. /\ DOMAIN Take(acc, ch) = DOMAIN acc /\ Take(acc, ch).names = more
        /\ Take(acc, ch).inside = acc.inside
    BY <1>2 DEF Take
  <2> HIDE DEF more
  <2>6. more # << >>
    BY <2>1, <2>4
  <2> QED
    BY <1>2, <2>4, <2>5, <2>6
<1>3. CASE ch # "/" /\ ~acc.inside
  <2>1. <<ch>> \in Seq(STRING)
    OBVIOUS
  <2>2. Take(acc, ch) = [names |-> Append(acc.names, <<ch>>), inside |-> TRUE]
    BY <1>3 DEF Take
  <2>3. /\ Append(acc.names, <<ch>>) \in Seq(Text)
        /\ Len(Append(acc.names, <<ch>>)) = Len(acc.names) + 1
        /\ Append(acc.names, <<ch>>) # << >>
    BY <2>1
  <2> QED
    BY <1>3, <2>2, <2>3
<1> QED
  BY <1>1, <1>2, <1>3

LEMMA ComponentsAre ==
  ASSUME NEW text \in Text
  PROVE  Components(text) \in Seq(Text)
<1> DEFINE base == [names |-> << >>, inside |-> FALSE]
           n == Len(text)
<1>1. n \in Nat /\ DOMAIN text = 1 .. n
  BY DEF Text
<1>0. TakeOK(base)
  BY DEF TakeOK, Text
<1> HIDE DEF n, base
<1>2. PICK g : TakeFold!Values(g, base, text, n)
  BY <1>1, TakeFold!FoldSteps
<1>3. /\ g[0] = base /\ FoldLeft(Take, base, text) = g[n]
      /\ \A k \in 1 .. n : g[k] = Take(g[k - 1], text[k])
  BY <1>2, PathFoldsAre DEF TakeFold!Values
<1> DEFINE G == {k \in 0 .. n : TakeOK(g[k])}
<1>4. 0 \in G
  <2>1. 0 \in 0 .. n
    BY <1>1
  <2> QED
    BY <1>0, <1>3, <2>1
<1>5. \A k \in 1 .. n : k - 1 \in G => k \in G
  <2> SUFFICES ASSUME NEW k \in 1 .. n, TakeOK(g[k - 1]) PROVE TakeOK(g[k])
    OBVIOUS
  <2>1. text[k] \in STRING
    BY <1>1 DEF Text
  <2> QED
    BY <1>3, <2>1, TakeKeeps
<1> HIDE DEF G
<1>6. n \in G
  BY <1>1, <1>4, <1>5, TakeFold!CountUp
<1> QED
  BY <1>3, <1>6 DEF G, TakeOK, Components, base

LEMMA SmallerIs ==
  ASSUME NEW a \in Int, NEW b \in Int
  PROVE  Min({a, b}) = IF a <= b THEN a ELSE b
<1>1. CASE a <= b
  <2>1. a \in {a, b} /\ \A y \in {a, b} : a <= y
    BY <1>1
  <2>2. Min({a, b}) \in {a, b} /\ \A y \in {a, b} : Min({a, b}) <= y
    BY <2>1 DEF Min
  <2> QED
    BY <1>1, <2>2
<1>2. CASE ~(a <= b)
  <2>1. b \in {a, b} /\ \A y \in {a, b} : b <= y
    BY <1>2
  <2>2. Min({a, b}) \in {a, b} /\ \A y \in {a, b} : Min({a, b}) <= y
    BY <2>1 DEF Min
  <2> QED
    BY <1>2, <2>2
<1> QED
  BY <1>1, <1>2

LEMMA ElementsIn ==
  ASSUME NEW T, NEW U, NEW s \in Seq(T), \A k \in 1 .. Len(s) : s[k] \in U
  PROVE  s \in Seq(U)
OBVIOUS

\* Min of FiniteSetsExt.
LEMMA LeastIs ==
  ASSUME NEW S \in SUBSET Nat, S # {}
  PROVE  Min(S) \in S /\ \A k \in S : Min(S) <= k
<1> DEFINE R == OpToRel(<, Nat)
<1>1. IsWellFoundedOn(R, Nat)
  BY NatLessThanWellFounded
<1>2. \A x, y \in Nat : <<x, y>> \in R <=> x < y
  BY DEF OpToRel
<1> HIDE DEF R
<1>3. PICK m \in S : \A k \in S : ~(<<k, m>> \in R)
  BY <1>1, WFMin
<1>4. ASSUME NEW k \in S PROVE m <= k
  <2>1. k \in Nat /\ m \in Nat
    OBVIOUS
  <2>2. ~(k < m)
    BY <1>2, <1>3, <2>1, Zenon
  <2> QED
    BY <2>1, <2>2
<1> QED
  BY <1>4 DEF Min

LEMMA TimesGrows ==
  ASSUME NEW n \in Nat, NEW a \in Nat, NEW b \in Nat, a <= b
  PROVE  n * a <= n * b
<1>1. b - a \in Nat /\ b = a + (b - a)
  OBVIOUS
<1>2. n * b = n * a + n * (b - a)
  BY <1>1
<1>3. n * (b - a) \in Nat /\ n * a \in Nat
  BY <1>1
<1> QED
  BY <1>2, <1>3

\* The elements o + 1 to e of a sequence.
Slice(s, o, e) == SubSeq(s, o + 1, e)

IsSlice(a, T, s, o, e) ==
  a \in Seq(T) /\ Len(a) = e - o /\ \A k \in 1 .. e - o : a[k] = s[o + k]

LEMMA SliceIs ==
  ASSUME NEW T, NEW s \in Seq(T), NEW o \in Nat, NEW e \in Nat,
         o <= e, e <= Len(s)
  PROVE  IsSlice(Slice(s, o, e), T, s, o, e)
<1> DEFINE a == Slice(s, o, e)
<1>1. DOMAIN s = 1 .. Len(s) /\ Len(s) \in Nat
  OBVIOUS
<1>2. a = [k \in 1 .. e - o |-> s[o + k]]
  BY DEF Slice
<1>3. \A k \in 1 .. e - o : s[o + k] \in T
  <2>1. \A k \in 1 .. e - o : o + k \in 1 .. Len(s)
    BY <1>1
  <2> QED
    BY <2>1
<1> HIDE DEF a
<1>4. a \in Seq(T) /\ Len(a) = e - o /\ \A k \in 1 .. e - o : a[k] = s[o + k]
  BY <1>2, <1>3, e - o \in Nat
<1> QED
  BY <1>4 DEF a, IsSlice

LEMMA CutIs ==
  ASSUME NEW text \in Text, NEW n \in Int
  PROVE  /\ Cut(text, n) \in Text
         /\ n >= Len(text) => Cut(text, n) = text
<1> DEFINE m == Min({n, Len(text)})
<1>1. m \in Int /\ m <= Len(text) /\ (n >= Len(text) => m = Len(text))
  BY SmallerIs DEF Text
<1>2. Cut(text, n) = SubSeq(text, 1, m)
  BY DEF Cut
<1> HIDE DEF m
<1> QED
  BY <1>1, <1>2 DEF Text

LEMMA DirNameIs ==
  ASSUME NEW path \in Text
  PROVE  newdirname(path) \in Text
<1> DEFINE names == Components(path)
           n == Len(names)
           left == FoldLeft(CopyOver, << >>, names)
<1>1. names \in Seq(Text) /\ n \in Nat /\ DOMAIN names = 1 .. n
  BY ComponentsAre
<1> HIDE DEF n, names
<1>2. PICK g : CopyFold!Values(g, << >>, names, n)
  BY <1>1, CopyFold!FoldSteps
<1>3. /\ g[0] = << >> /\ left = g[n]
      /\ \A k \in 1 .. n : g[k] = CopyOver(g[k - 1], names[k])
  BY <1>2, PathFoldsAre DEF CopyFold!Values
<1> DEFINE G == {k \in 0 .. n : g[k] \in Text}
<1>4. 0 \in G
  <2>1. 0 \in 0 .. n /\ << >> \in Text
    BY <1>1 DEF Text
  <2> QED
    BY <1>3, <2>1
<1>5. \A k \in 1 .. n : k - 1 \in G => k \in G
  <2> SUFFICES ASSUME NEW k \in 1 .. n, g[k - 1] \in Text PROVE g[k] \in Text
    OBVIOUS
  <2>1. names[k] \in Text
    BY <1>1
  <2>2. CopyOver(g[k - 1], names[k]) \in Text
    BY <2>1 DEF CopyOver, Text
  <2> QED
    BY <1>3, <2>2
<1> HIDE DEF G
<1>6. n \in G
  BY <1>1, <1>4, <1>5, CopyFold!CountUp
<1>7. left \in Text
  BY <1>3, <1>6 DEF G
<1> HIDE DEF left
<1>8. CASE n > 1
  <2>1. newfilename(path) = left
    BY <1>8 DEF newfilename, left, n, names
  <2>2. Len(path) - (Len(left) + 1) \in Int
    BY <1>7 DEF Text
  <2> QED
    BY <1>8, <2>1, <2>2, CutIs DEF newdirname, n, names
<1>9. CASE ~(n > 1)
  BY <1>9 DEF newdirname, n, names
<1> QED
  BY <1>8, <1>9

-----------------------------------------------------------------------------
(* What a server stores.                                                   *)

\* The inodes that are in use.
Used(st) == {i \in Inode : st.kind[i] # "free"}

StoreOK(st) ==
    /\ st \in Store
    /\ st.kind[ROOT] = "dir"
    /\ \A d \in Inode : /\ IsFiniteSet(Listed(st, d))
                         /\ \A n \in Listed(st, d) : st.listing[d][n] \in Used(st)
    /\ \A f \in Inode : InOrder(st.content[f], 0)

\* What a store keeps, whatever is done.
Grown(old, new) ==
    /\ \A i \in Used(old) : /\ new.kind[i] = old.kind[i]
                            /\ SizeOf(old, i) <= SizeOf(new, i)
    /\ \A d \in Inode : Listed(old, d) \subseteq Listed(new, d)

LEMMA StoreTyped ==
  ASSUME NEW st, StoreOK(st)
  PROVE  /\ DOMAIN st = {"kind", "listing", "content"}
         /\ st.kind \in [Inode -> {"free", "dir", "file"}]
         /\ st.listing \in [Inode -> [Name -> Inode \cup {NULL}]]
         /\ st.content \in [Inode -> Seq(1 .. MAX_FILE_SIZE)]
         /\ ROOT \in Used(st) /\ 0 \notin Inode
BY HandlersAssumption DEF StoreOK, Store, Used, ROOT, Inode

LEMMA SizesAre ==
  ASSUME NEW st, StoreOK(st), NEW i \in Inode
  PROVE  /\ SizeOf(st, i) \in Nat
         /\ st.kind[i] # "dir" => SizeOf(st, i) = Len(st.content[i])
<1>1. Cardinality(Listed(st, i)) \in Nat
  BY FS_CardinalityType DEF StoreOK
<1>2. DENTRY_SIZE * Cardinality(Listed(st, i)) \in Nat
  BY <1>1, HandlersAssumption
<1>3. Len(st.content[i]) \in Nat
  <2>1. st.content[i] \in Seq(1 .. MAX_FILE_SIZE)
    BY StoreTyped
  <2> QED
    BY <2>1
<1> QED
  BY <1>2, <1>3 DEF SizeOf

LEMMA GrownSame ==
  ASSUME NEW st, StoreOK(st)
  PROVE  Grown(st, st)
BY SizesAre DEF Grown, Used

LEMMA NewStoreOK == StoreOK(NewStore)
<1>1. NewStore \in Store
  <2>1. << >> \in Seq(1 .. MAX_FILE_SIZE)
    OBVIOUS
  <2> QED
    BY <2>1 DEF NewStore, Store
<1>2. ROOT \in Inode
  BY HandlersAssumption DEF ROOT, Inode
<1>3. \A d \in Inode : Listed(NewStore, d) = {}
  BY DEF Listed, NewStore
<1>4. \A f \in Inode : NewStore.content[f] = << >>
  BY DEF NewStore
<1>5. \A f \in Inode : InOrder(NewStore.content[f], 0)
  BY <1>4 DEF InOrder
<1>6. NewStore.kind[ROOT] = "dir"
  BY <1>2 DEF NewStore
<1> QED
  BY <1>1, <1>3, <1>5, <1>6, FS_EmptySet DEF StoreOK

LEMMA ResolveIs ==
  ASSUME NEW st, StoreOK(st), NEW path \in Text
  PROVE  Resolve(st, path) \in {0} \cup Used(st)
<1> DEFINE base == [st |-> st, at |-> ROOT]
           names == Components(path)
           n == Len(names)
           At(acc) == acc.st = st /\ acc.at \in {0} \cup Used(st)
                      /\ DOMAIN acc = {"st", "at"}
<1>1. n \in Nat /\ DOMAIN names = 1 .. n
  BY ComponentsAre
<1>2. At(base)
  BY StoreTyped
<1>3. ASSUME NEW acc, At(acc), NEW name PROVE At(Down(acc, name))
  <2>1. ASSUME acc.at \in Inode, name \in Listed(st, acc.at)
        PROVE  st.listing[acc.at][name] \in Used(st)
    BY <2>1 DEF StoreOK
  <2> QED
    BY <1>3, <2>1 DEF Down, IsKind
<1> HIDE DEF n, names, base, At
<1>4. PICK g : DownFold!Values(g, base, names, n)
  BY <1>1, DownFold!FoldSteps
<1>5. /\ g[0] = base /\ FoldLeft(Down, base, names) = g[n]
      /\ \A k \in 1 .. n : g[k] = Down(g[k - 1], names[k])
  BY <1>4, PathFoldsAre DEF DownFold!Values
<1> DEFINE G == {k \in 0 .. n : At(g[k])}
<1>6. 0 \in G
  <2>1. 0 \in 0 .. n
    BY <1>1
  <2> QED
    BY <1>2, <1>5, <2>1
<1>7. \A k \in 1 .. n : k - 1 \in G => k \in G
  <2> SUFFICES ASSUME NEW k \in 1 .. n, At(g[k - 1]) PROVE At(g[k])
    OBVIOUS
  <2> QED
    BY <1>3, <1>5
<1> HIDE DEF G
<1>8. n \in G
  BY <1>1, <1>6, <1>7, DownFold!CountUp
<1>9. At(g[n])
  BY <1>8 DEF G
<1> QED
  BY <1>5, <1>9 DEF At, Resolve, base, names

-----------------------------------------------------------------------------
(* Requests and answers.                                                   *)

\* What clients ask for.
RequestOK(req, st) ==
    \/ /\ req.type = "lookup"
       /\ req.path \in Text
    \/ /\ req.type = "read"
       /\ req.file \in Used(st)
       /\ req.offset \in Nat /\ req.offset <= SizeOf(st, req.file)
       /\ req.count \in Nat
    \/ /\ req.type = "write"
       /\ req.file \in Used(st)
       /\ req.offset \in Nat /\ req.offset <= SizeOf(st, req.file)
       /\ req.data \in Seq(Nat) /\ InOrder(req.data, req.offset)
    \/ /\ req.type = "make"
       /\ Cut(req.name, MAX_FILE_NAME_SIZE - 1) \in Name
       /\ req.kind \in {"dir", "file"}
    \/ req.type = "readdir"

\* What they are told, when all goes well.
AnswerOK(req, a, st) ==
    /\ a.size \in Nat
    /\ a.ok /\ req.type \in {"lookup", "make"} => a.file \in Used(st)
    /\ a.ok /\ req.type = "lookup" => a.size <= SizeOf(st, a.file)
    /\ ~a.ok => a.size = 0
    /\ a.ok /\ req.type = "read" =>
          /\ a.data \in Seq(Nat) /\ Len(a.data) <= req.count
          /\ InOrder(a.data, req.offset)
          /\ req.offset + Len(a.data) <= SizeOf(st, req.file)
    /\ a.ok /\ req.type = "write" =>
          /\ req.offset + Len(req.data) <= a.size
          /\ a.size <= SizeOf(st, req.file)

Served(st, req, served) ==
    /\ StoreOK(served.store)
    /\ Grown(st, served.store)
    /\ AnswerOK(req, served.answer, served.store)
    /\ req.type = "write" /\ served.answer.ok =>
          served.answer.size = SizeOf(served.store, req.file)
    /\ req.type \in {"lookup", "read", "readdir"} => served.store = st

LEMMA AnswersAre ==
  /\ ~RES_ERROR.ok /\ RES_ERROR.size = 0
  /\ RES_OK.ok /\ RES_OK.size = 0
  /\ DOMAIN RES_OK = {"ok", "file", "size", "data", "names"}
BY DEF RES_ERROR, RES_OK

LEMMA FailedServes ==
  ASSUME NEW st, StoreOK(st), NEW req
  PROVE  Served(st, req, Failed(st))
BY AnswersAre, GrownSame DEF Failed, Served, AnswerOK

LEMMA LookupServes ==
  ASSUME NEW st, StoreOK(st), NEW req, req.type = "lookup", req.path \in Text
  PROVE  Served(st, req, snfs_lookup(st, req))
<1> DEFINE i == Resolve(st, req.path)
           a == [RES_OK EXCEPT !.file = i, !.size = SizeOf(st, i)]
<1>1. i \in {0} \cup Used(st)
  BY ResolveIs
<1>2. CASE i = 0
  BY <1>2, FailedServes DEF snfs_lookup
<1>3. CASE i # 0
  <2>1. snfs_lookup(st, req) = [store |-> st, answer |-> a]
    BY <1>3 DEF snfs_lookup
  <2>2. a.ok /\ a.file = i /\ a.size = SizeOf(st, i)
    BY AnswersAre
  <2>3. i \in Used(st) /\ SizeOf(st, i) \in Nat
    BY <1>1, <1>3, SizesAre DEF Used
  <2> HIDE DEF a, i
  <2>4. AnswerOK(req, a, st)
    BY <2>2, <2>3 DEF AnswerOK
  <2> QED
    BY <2>1, <2>4, GrownSame DEF Served
<1> QED
  BY <1>2, <1>3

LEMMA ReadServes ==
  ASSUME NEW st, StoreOK(st), NEW req, req.type = "read", RequestOK(req, st)
  PROVE  Served(st, req, snfs_read(st, req))
<1>1. /\ req.file \in Used(st) /\ req.file \in Inode
      /\ req.offset \in Nat /\ req.offset <= SizeOf(st, req.file)
      /\ req.count \in Nat
  BY DEF RequestOK, Used
<1>2. CASE req.count > MAX_READ_DATA \/ ~IsKind(st, req.file, "file")
  BY <1>2, FailedServes DEF snfs_read
<1>3. CASE ~(req.count > MAX_READ_DATA \/ ~IsKind(st, req.file, "file"))
  <2> DEFINE bytes == st.content[req.file]
             end == Min({req.offset + req.count, Len(bytes)})
             o == req.offset
             data == SubSeq(bytes, o + 1, end)
             a == [RES_OK EXCEPT !.data = data]
  <2>1. snfs_read(st, req) = [store |-> st, answer |-> a]
    BY <1>3 DEF snfs_read
  <2>2. a.data = data /\ a.size = 0
    BY AnswersAre
  <2>3. /\ bytes \in Seq(Nat) /\ Len(bytes) \in Nat
        /\ InOrder(bytes, 0) /\ SizeOf(st, req.file) = Len(bytes)
    <3>1. bytes \in Seq(1 .. MAX_FILE_SIZE) /\ MAX_FILE_SIZE \in Nat
      BY <1>1, StoreTyped, HandlersAssumption
    <3>2. st.kind[req.file] # "dir" /\ InOrder(bytes, 0)
      BY <1>1, <1>3 DEF IsKind, StoreOK
    <3> QED
      BY <1>1, <3>1, <3>2, SizesAre
  <2>4. end = IF o + req.count <= Len(bytes) THEN o + req.count ELSE Len(bytes)
    <3>1. o + req.count \in Int /\ Len(bytes) \in Int
      BY <1>1, <2>3
    <3> QED
      BY <3>1, SmallerIs
  <2> HIDE DEF bytes, end, a
  <2>5. end \in Nat /\ o <= end /\ end <= Len(bytes) /\ end - o <= req.count
    BY <1>1, <2>3, <2>4
  <2>6. /\ data \in Seq(Nat) /\ Len(data) = end - o
        /\ \A k \in 1 .. end - o : data[k] = bytes[o + k]
    <3>1. data = Slice(bytes, o, end)
      BY DEF Slice
    <3>2. /\ bytes \in Seq(Nat) /\ o \in Nat /\ end \in Nat
          /\ o <= end /\ end <= Len(bytes)
      BY <1>1, <2>3, <2>5
    <3>3. /\ Slice(bytes, o, end) \in Seq(Nat)
          /\ Len(Slice(bytes, o, end)) = end - o
          /\ \A k \in 1 .. end - o : Slice(bytes, o, end)[k] = bytes[o + k]
      <4>1. IsSlice(Slice(bytes, o, end), Nat, bytes, o, end)
        BY <3>2, SliceIs
      <4> QED
        BY <4>1 DEF IsSlice
    <3> HIDE DEF data
    <3> QED
      BY <3>1, <3>3
  <2> HIDE DEF data
  <2>7. InOrder(data, o)
    <3>1. DOMAIN data = 1 .. end - o
      BY <2>6
    <3>2. ASSUME NEW k \in 1 .. end - o PROVE bytes[o + k] = o + k
      <4>1. o + k \in DOMAIN bytes
        BY <1>1, <2>3, <2>5
      <4> QED
        BY <1>1, <2>3, <4>1 DEF InOrder
    <3> QED
      BY <2>6, <3>1, <3>2 DEF InOrder
  <2>8. AnswerOK(req, a, st)
    BY <1>1, <2>2, <2>3, <2>5, <2>6, <2>7 DEF AnswerOK
  <2> QED
    BY <2>1, <2>8, GrownSame DEF Served
<1> QED
  BY <1>2, <1>3

LEMMA ReaddirServes ==
  ASSUME NEW st, StoreOK(st), NEW req, req.type = "readdir"
  PROVE  Served(st, req, snfs_readdir(st, req))
<1> DEFINE a == [RES_OK EXCEPT !.names = Listed(st, req.dir)]
<1>1. a.size = 0
  BY AnswersAre
<1>2. \/ snfs_readdir(st, req) = Failed(st)
      \/ snfs_readdir(st, req) = [store |-> st, answer |-> a]
  BY DEF snfs_readdir
<1> HIDE DEF a
<1> QED
  BY <1>1, <1>2, FailedServes, GrownSame DEF Served, AnswerOK

\* A sequence with data written over it from place o on.
Spliced(s, o, data) ==
    SubSeq(s, 1, o) \o data \o SubSeq(s, o + Len(data) + 1, Len(s))

LEMMA SplicedIs ==
  ASSUME NEW T, NEW s \in Seq(T), NEW data \in Seq(T), NEW o \in Nat, o <= Len(s)
  PROVE  /\ Spliced(s, o, data) \in Seq(T)
         /\ Len(Spliced(s, o, data))
               = IF o + Len(data) > Len(s) THEN o + Len(data) ELSE Len(s)
         /\ \A k \in DOMAIN Spliced(s, o, data) :
               Spliced(s, o, data)[k]
                  = IF o < k /\ k <= o + Len(data) THEN data[k - o] ELSE s[k]
<1> DEFINE new == Spliced(s, o, data)
           n == Len(data)
           l == Len(s)
           before == Slice(s, 0, o)
           rest == SubSeq(s, o + n + 1, l)
           m == IF o + n > l THEN 0 ELSE l - (o + n)
<1>1. n \in Nat /\ l \in Nat /\ DOMAIN data = 1 .. n /\ DOMAIN s = 1 .. l
  OBVIOUS
<1>2. new = (before \o data) \o rest
  BY DEF Spliced, Slice
<1>3. /\ before \in Seq(T) /\ Len(before) = o
      /\ \A k \in 1 .. o : before[k] = s[k]
  <2>1. 0 \in Nat /\ 0 <= o /\ o \in Nat /\ o <= Len(s)
    OBVIOUS
  <2>2. /\ before \in Seq(T) /\ Len(before) = o - 0
        /\ \A k \in 1 .. o - 0 : before[k] = s[0 + k]
    <3>1. IsSlice(before, T, s, 0, o)
      BY <2>1, SliceIs
    <3> QED
      BY <3>1 DEF IsSlice
  <2> HIDE DEF before
  <2> QED
    BY <2>2
<1>4. /\ rest \in Seq(T) /\ Len(rest) = m
      /\ \A k \in 1 .. m : rest[k] = s[o + n + k]
  <2>1. CASE o + n > l
    <3>1. rest = << >>
      BY <1>1, <2>1
    <3> QED
      BY <2>1, <3>1
  <2>2. CASE ~(o + n > l)
    <3>1. o + n \in Nat /\ l \in Nat /\ o + n <= l /\ l <= Len(s)
      BY <1>1, <2>2
    <3>2. rest = Slice(s, o + n, l)
      BY DEF Slice
    <3>3. /\ Slice(s, o + n, l) \in Seq(T) /\ Len(Slice(s, o + n, l)) = l - (o + n)
          /\ \A k \in 1 .. l - (o + n) : Slice(s, o + n, l)[k] = s[(o + n) + k]
      <4>1. IsSlice(Slice(s, o + n, l), T, s, o + n, l)
        BY <3>1, SliceIs
      <4> QED
        BY <4>1 DEF IsSlice
    <3> HIDE DEF rest
    <3> QED
      BY <2>2, <3>2, <3>3
  <2> QED
    BY <2>1, <2>2
<1> HIDE DEF before, rest, new, n, l
<1>5. m \in Nat /\ o + n + m = IF o + n > l THEN o + n ELSE l
  BY <1>1
<1> HIDE DEF m
<1> DEFINE start == before \o data
<1>6. /\ start \in Seq(T) /\ Len(start) = o + n
      /\ \A k \in 1 .. o + n : start[k] = IF k <= o THEN s[k] ELSE data[k - o]
  BY <1>1, <1>3 DEF n
<1> HIDE DEF start
<1>7. /\ new \in Seq(T) /\ Len(new) = o + n + m /\ DOMAIN new = 1 .. o + n + m
      /\ \A k \in 1 .. o + n + m :
            new[k] = IF k <= o + n THEN start[k] ELSE rest[k - (o + n)]
  <2>1. new = start \o rest
    BY <1>2 DEF start
  <2>2. /\ start \in Seq(T) /\ rest \in Seq(T) /\ o + n \in Nat /\ m \in Nat
        /\ Len(start) = o + n /\ Len(rest) = m
    BY <1>1, <1>4, <1>5, <1>6
  <2>3. new \in Seq(T) /\ Len(new) = Len(start) + Len(rest)
    <3>1. start \in Seq(T) /\ rest \in Seq(T)
      BY <2>2
    <3>2. start \o rest \in Seq(T) /\ Len(start \o rest) = Len(start) + Len(rest)
      BY <3>1
    <3> QED
      BY <2>1, <3>2
  <2>4. \A k \in 1 .. Len(start) + Len(rest) :
           new[k] = IF k <= Len(start) THEN start[k] ELSE rest[k - Len(start)]
    BY <2>1, <2>2
  <2> QED
    BY <2>2, <2>3, <2>4
<1>8. \A k \in 1 .. o + n + m :
         new[k] = IF o < k /\ k <= o + n THEN data[k - o] ELSE s[k]
  <2> SUFFICES ASSUME NEW k \in 1 .. o + n + m
               PROVE  new[k] = IF o < k /\ k <= o + n THEN data[k - o] ELSE s[k]
    OBVIOUS
  <2>0. o \in Nat /\ n \in Nat /\ m \in Nat
    BY <1>1, <1>5
  <2>1. CASE k <= o + n
    <3>1. k \in 1 .. o + n
      BY <2>0, <2>1
    <3> QED
      BY <1>1, <1>6, <1>7, <2>1, <3>1
  <2>2. CASE ~(k <= o + n)
    <3>1. k - (o + n) \in 1 .. m /\ o + n + (k - (o + n)) = k
      BY <2>0, <2>2
    <3>2. new[k] = rest[k - (o + n)]
      BY <1>7, <2>2
    <3>3. rest[k - (o + n)] = s[k]
      BY <1>4, <3>1
    <3> QED
      BY <2>2, <3>2, <3>3
  <2> QED
    BY <2>1, <2>2
<1> QED
  BY <1>5, <1>7, <1>8 DEF new, n, l

LEMMA WriteServes ==
  ASSUME NEW st, StoreOK(st), NEW req, req.type = "write", RequestOK(req, st)
  PROVE  Served(st, req, snfs_write(st, req))
<1> DEFINE f == req.file
           o == req.offset
           n == Len(req.data)
           bytes == st.content[f]
           at == Min({req.offset, Len(bytes)})
           new == SubSeq(bytes, 1, at) \o req.data
                  \o SubSeq(bytes, at + Len(req.data) + 1, Len(bytes))
           after == [st EXCEPT !.content[f] = new]
           a == [RES_OK EXCEPT !.size = Len(new)]
<1>1. /\ f \in Used(st) /\ f \in Inode /\ o \in Nat /\ o <= SizeOf(st, f)
      /\ req.data \in Seq(Nat) /\ n \in Nat /\ DOMAIN req.data = 1 .. n
      /\ InOrder(req.data, o)
  BY DEF RequestOK, Used
<1>2. \/ snfs_write(st, req) = Failed(st)
      \/ /\ IsKind(st, f, "file") /\ ~(at + n > MAX_FILE_SIZE)
         /\ snfs_write(st, req) = [store |-> after, answer |-> a]
  <2>1. snfs_write(st, req) =
           IF Len(req.data) > MAX_WRITE_DATA \/ ~IsKind(st, f, "file") THEN Failed(st)
           ELSE IF at + n > MAX_FILE_SIZE THEN Failed(st)
           ELSE [store |-> after, answer |-> a]
    BY DEF snfs_write
  <2> HIDE DEF after, a, at
  <2> QED
    BY <2>1
<1>3. CASE snfs_write(st, req) = Failed(st)
  BY <1>3, FailedServes
<1>4. CASE /\ IsKind(st, f, "file") /\ ~(at + n > MAX_FILE_SIZE)
           /\ snfs_write(st, req) = [store |-> after, answer |-> a]
  <2>0. a.ok /\ a.size = Len(new)
    BY AnswersAre
  <2>1. /\ bytes \in Seq(1 .. MAX_FILE_SIZE) /\ MAX_FILE_SIZE \in Nat
        /\ Len(bytes) \in Nat /\ DOMAIN bytes = 1 .. Len(bytes)
    BY <1>1, StoreTyped, HandlersAssumption
  <2>2. InOrder(bytes, 0) /\ SizeOf(st, f) = Len(bytes) /\ st.kind[f] = "file"
    BY <1>1, <1>4, SizesAre DEF IsKind, StoreOK
  <2> HIDE DEF bytes
  <2>3. at = o
    <3>1. o \in Int /\ Len(bytes) \in Int /\ o <= Len(bytes)
      BY <1>1, <2>1, <2>2
    <3> QED
      BY <3>1, SmallerIs
  <2> HIDE DEF at
  <2>4. new = Spliced(bytes, o, req.data)
    BY <2>3 DEF Spliced
  <2>5. o + n <= MAX_FILE_SIZE
    BY <1>1, <1>4, <2>1, <2>3
  <2> HIDE DEF new
  <2>6. req.data \in Seq(1 .. MAX_FILE_SIZE)
    <3>1. \A k \in 1 .. n : req.data[k] = o + k
      BY <1>1 DEF InOrder
    <3>2. \A k \in 1 .. n : o + k \in 1 .. MAX_FILE_SIZE
      <4> HIDE DEF o, n
      <4> QED
        BY <1>1, <2>1, <2>5
    <3>3. \A k \in 1 .. n : req.data[k] \in 1 .. MAX_FILE_SIZE
      BY <3>1, <3>2
    <3> QED
      BY <1>1, <3>3, ElementsIn
  <2>7. /\ new \in Seq(1 .. MAX_FILE_SIZE)
        /\ Len(new) = IF o + n > Len(bytes) THEN o + n ELSE Len(bytes)
        /\ \A k \in DOMAIN new :
              new[k] = IF o < k /\ k <= o + n THEN req.data[k - o] ELSE bytes[k]
    <3>1. o \in Nat /\ o <= Len(bytes)
      BY <1>1, <2>2
    <3> HIDE DEF o
    <3>2. /\ Spliced(bytes, o, req.data) \in Seq(1 .. MAX_FILE_SIZE)
          /\ Len(Spliced(bytes, o, req.data))
                = IF o + n > Len(bytes) THEN o + n ELSE Len(bytes)
          /\ \A k \in DOMAIN Spliced(bytes, o, req.data) :
                Spliced(bytes, o, req.data)[k]
                   = IF o < k /\ k <= o + n THEN req.data[k - o] ELSE bytes[k]
      BY <2>1, <2>6, <3>1, SplicedIs
    <3> QED
      BY <2>4, <3>2
  <2>8. DOMAIN new = 1 .. Len(new) /\ Len(new) \in Nat
    BY <2>7
  <2>9. InOrder(new, 0)
    <3> SUFFICES ASSUME NEW k \in DOMAIN new PROVE new[k] = 0 + k
      BY DEF InOrder
    <3>1. CASE o < k /\ k <= o + n
      <4>1. k - o \in DOMAIN req.data /\ o + (k - o) = k /\ 0 + k = k
        BY <1>1, <2>8, <3>1
      <4> QED
        <5>1. req.data[k - o] = o + (k - o)
          BY <1>1, <4>1 DEF InOrder
        <5> QED
          BY <2>7, <3>1, <4>1, <5>1
    <3>2. CASE ~(o < k /\ k <= o + n)
      <4>1. k \in DOMAIN bytes
        <5>1. /\ k \in 1 .. Len(new) /\ o \in Nat /\ n \in Nat /\ Len(bytes) \in Nat
              /\ o <= Len(bytes)
              /\ Len(new) = IF o + n > Len(bytes) THEN o + n ELSE Len(bytes)
          BY <1>1, <2>1, <2>2, <2>7, <2>8
        <5> HIDE DEF o, n
        <5>2. k \in 1 .. Len(bytes)
          BY <3>2, <5>1
        <5> QED
          BY <2>1, <5>2
      <4> QED
        BY <2>2, <2>7, <3>2, <4>1 DEF InOrder
    <3> QED
      BY <3>1, <3>2
  <2>10. /\ after.kind = st.kind /\ after.listing = st.listing
         /\ after.content = [st.content EXCEPT ![f] = new]
         /\ after = [st EXCEPT !.content = after.content]
    BY StoreTyped
  <2>11. after \in Store
    <3>1. after.content \in [Inode -> Seq(1 .. MAX_FILE_SIZE)]
      BY <1>1, <2>7, <2>10, StoreTyped
    <3> HIDE DEF after
    <3>2. [st EXCEPT !.content = after.content] \in Store
      BY <3>1 DEF StoreOK, Store
    <3> QED
      BY <2>10, <3>2
  <2>12. /\ after.content[f] = new
         /\ \A i \in Inode : i # f => after.content[i] = st.content[i]
    BY <1>1, <2>10, StoreTyped
  <2> HIDE DEF after, a
  <2>13. Used(after) = Used(st) /\ \A d \in Inode : Listed(after, d) = Listed(st, d)
    BY <2>10 DEF Used, Listed
  <2>14. StoreOK(after)
    <3>1. \A i \in Inode : InOrder(after.content[i], 0)
      BY <2>9, <2>12 DEF StoreOK
    <3> QED
      BY <2>10, <2>11, <2>13, <3>1 DEF StoreOK
  <2>15. SizeOf(after, f) = Len(new)
    BY <1>1, <2>2, <2>10, <2>12 DEF SizeOf
  <2>16. Grown(st, after)
    <3>1. \A i \in Inode : i # f => SizeOf(after, i) = SizeOf(st, i)
      BY <2>10, <2>12, <2>13 DEF SizeOf
    <3>2. SizeOf(st, f) <= SizeOf(after, f)
      BY <1>1, <2>1, <2>2, <2>7, <2>15
    <3>3. \A i \in Used(st) : SizeOf(st, i) <= SizeOf(after, i)
      BY <3>1, <3>2, SizesAre DEF Used
    <3> QED
      BY <2>10, <2>13, <3>3 DEF Grown
  <2>17. AnswerOK(req, a, after)
    BY <1>1, <2>0, <2>1, <2>7, <2>8, <2>15 DEF AnswerOK
  <2> QED
    BY <1>4, <2>0, <2>14, <2>15, <2>16, <2>17 DEF Served
<1> QED
  BY <1>2, <1>3, <1>4

\* The name a request gives, and a store with one more file or directory.
MadeName(req) == Cut(req.name, MAX_FILE_NAME_SIZE - 1)

WithMade(st, d, n, i, k) == [st EXCEPT !.kind[i] = k, !.listing[d][n] = i]

LEMMA MakeServes ==
  ASSUME NEW st, StoreOK(st), NEW req, req.type = "make", RequestOK(req, st)
  PROVE  /\ Served(st, req, snfs_make(st, req))
         /\ \/ snfs_make(st, req).store = st
            \/ /\ IsKind(st, req.dir, "dir") /\ MadeName(req) \notin Listed(st, req.dir)
               /\ \E i \in FreeInodes(st) :
                     snfs_make(st, req).store =
                        WithMade(st, req.dir, MadeName(req), i, req.kind)
<1> DEFINE n == Cut(req.name, MAX_FILE_NAME_SIZE - 1)
           d == req.dir
           i == Min(FreeInodes(st))
           after == [st EXCEPT !.kind[i] = req.kind, !.listing[d][n] = i]
           a == [RES_OK EXCEPT !.file = i]
<1>1. n \in Name /\ req.kind \in {"dir", "file"}
  BY DEF RequestOK
<1>2. \/ snfs_make(st, req) = Failed(st)
      \/ /\ IsKind(st, d, "dir") /\ n \notin Listed(st, d) /\ FreeInodes(st) # {}
         /\ snfs_make(st, req) = [store |-> after, answer |-> a]
  BY DEF snfs_make, Taken
<1>3. CASE snfs_make(st, req) = Failed(st)
  BY <1>3, FailedServes DEF Failed
<1>4. CASE /\ IsKind(st, d, "dir") /\ n \notin Listed(st, d) /\ FreeInodes(st) # {}
           /\ snfs_make(st, req) = [store |-> after, answer |-> a]
  <2>0. a.ok /\ a.size = 0 /\ a.file = i
    BY AnswersAre
  <2>1. i \in FreeInodes(st) /\ i \in Inode /\ st.kind[i] = "free"
    <3>1. FreeInodes(st) \in SUBSET Nat
      BY DEF FreeInodes, Inode
    <3>2. i \in FreeInodes(st)
      BY <1>4, <3>1, LeastIs
    <3> QED
      BY <3>2 DEF FreeInodes
  <2> HIDE DEF i
  <2>2. d \in Inode /\ st.kind[d] = "dir" /\ i # d
    BY <1>4, <2>1 DEF IsKind
  <2>3. /\ after.content = st.content
        /\ after.kind = [st.kind EXCEPT ![i] = req.kind]
        /\ after.listing = [st.listing EXCEPT ![d][n] = i]
        /\ after = [st EXCEPT !.kind = after.kind, !.listing = after.listing]
    BY StoreTyped
  <2>4. after \in Store
    <3>1. after.kind \in [Inode -> {"free", "dir", "file"}]
      BY <1>1, <2>1, <2>3, StoreTyped
    <3>2. after.listing \in [Inode -> [Name -> Inode \cup {NULL}]]
      BY <1>1, <2>1, <2>2, <2>3, StoreTyped
    <3> HIDE DEF after
    <3>3. [st EXCEPT !.kind = after.kind, !.listing = after.listing] \in Store
      BY <3>1, <3>2 DEF StoreOK, Store
    <3> QED
      BY <2>3, <3>3
  <2>5. /\ after.kind[i] = req.kind
        /\ \A j \in Inode : j # i => after.kind[j] = st.kind[j]
        /\ after.listing[d][n] = i
        /\ \A m \in Name : m # n => after.listing[d][m] = st.listing[d][m]
        /\ \A e \in Inode : e # d => after.listing[e] = st.listing[e]
    BY <1>1, <2>1, <2>2, <2>3, StoreTyped
  <2> HIDE DEF after, a, n
  <2>6. Used(st) \subseteq Used(after) /\ i \in Used(after)
    BY <1>1, <2>1, <2>5 DEF Used
  <2>7. /\ \A e \in Inode : e # d => Listed(after, e) = Listed(st, e)
        /\ Listed(st, d) \subseteq Listed(after, d)
        /\ Listed(after, d) \subseteq Listed(st, d) \cup {n}
    BY <1>4, <2>5 DEF Listed
  <2>8. IsFiniteSet(Listed(st, d)) /\ IsFiniteSet(Listed(after, d))
    <3>1. IsFiniteSet(Listed(st, d) \cup {n})
      BY <2>2, FS_AddElement DEF StoreOK
    <3> QED
      BY <2>2, <2>7, <3>1, FS_Subset DEF StoreOK
  <2>9. StoreOK(after)
    <3>1. ASSUME NEW e \in Inode
          PROVE  /\ IsFiniteSet(Listed(after, e))
                 /\ \A m \in Listed(after, e) : after.listing[e][m] \in Used(after)
      <4>1. CASE e = d
        <5>1. ASSUME NEW m \in Listed(after, d) PROVE after.listing[d][m] \in Used(after)
          <6>1. CASE m = n
            BY <2>5, <2>6, <6>1
          <6>2. CASE m # n
            <7>1. m \in Name /\ m \in Listed(st, d)
              BY <2>7, <5>1, <6>2 DEF Listed
            <7> QED
              BY <2>2, <2>5, <2>6, <6>2, <7>1 DEF StoreOK
          <6> QED
            BY <6>1, <6>2
        <5> QED
          BY <2>8, <4>1, <5>1
      <4>2. CASE e # d
        BY <2>5, <2>6, <2>7, <4>2 DEF StoreOK
      <4> QED
        BY <4>1, <4>2
    <3>2. after.kind[ROOT] = "dir"
      <4>1. ROOT \in Inode /\ st.kind[ROOT] = "dir"
        BY StoreTyped DEF StoreOK, Used
      <4> QED
        BY <2>1, <2>5, <4>1
    <3> QED
      BY <2>3, <2>4, <3>1, <3>2 DEF StoreOK
  <2>10. Grown(st, after)
    <3>1. ASSUME NEW j \in Used(st)
          PROVE  after.kind[j] = st.kind[j] /\ SizeOf(st, j) <= SizeOf(after, j)
      <4>1. j \in Inode /\ j # i /\ after.kind[j] = st.kind[j]
        BY <2>1, <2>5, <3>1 DEF Used
      <4>2. CASE st.kind[j] # "dir" \/ j # d
        <5>1. SizeOf(after, j) = SizeOf(st, j)
          BY <2>3, <2>7, <4>1, <4>2 DEF SizeOf
        <5> QED
          BY <4>1, <5>1, SizesAre
      <4>3. CASE j = d
        <5> DEFINE A == Cardinality(Listed(st, d))
                   B == Cardinality(Listed(after, d))
        <5>1. A <= B /\ A \in Nat /\ B \in Nat
          BY <2>7, <2>8, FS_Subset, FS_CardinalityType
        <5>2. SizeOf(st, d) = DENTRY_SIZE * A /\ SizeOf(after, d) = DENTRY_SIZE * B
          BY <2>2, <4>1, <4>3 DEF SizeOf
        <5> HIDE DEF A, B
        <5>3. DENTRY_SIZE * A <= DENTRY_SIZE * B
          BY <5>1, HandlersAssumption, TimesGrows
        <5> QED
          BY <4>1, <4>3, <5>2, <5>3
      <4> QED
        BY <4>2, <4>3
    <3>2. \A e \in Inode : Listed(st, e) \subseteq Listed(after, e)
      BY <2>7
    <3> QED
      BY <3>1, <3>2 DEF Grown
  <2>11. AnswerOK(req, a, after)
    BY <2>0, <2>6 DEF AnswerOK
  <2>12. Served(st, req, snfs_make(st, req)) /\ snfs_make(st, req).store = after
    BY <1>4, <2>9, <2>10, <2>11 DEF Served
  <2> QED
    BY <1>4, <2>1, <2>12 DEF after, n, MadeName, WithMade
<1> QED
  BY <1>2, <1>3, <1>4

LEMMA ServeIs ==
  ASSUME NEW st, StoreOK(st), NEW req, RequestOK(req, st)
  PROVE  Served(st, req, Serve(st, req))
<1>1. CASE req.type = "lookup"
  <2>1. req.path \in Text
    BY <1>1 DEF RequestOK
  <2> QED
    BY <1>1, <2>1, LookupServes DEF Serve
<1>2. CASE req.type = "read"
  BY <1>2, ReadServes DEF Serve
<1>3. CASE req.type = "write"
  BY <1>3, WriteServes DEF Serve
<1>4. CASE req.type = "make"
  BY <1>4, MakeServes DEF Serve
<1>5. CASE req.type = "readdir"
  BY <1>5, ReaddirServes DEF Serve
<1> QED
  BY <1>1, <1>2, <1>3, <1>4, <1>5 DEF RequestOK

\* What is asked for and answered stays right while the store grows.
LEMMA StaysOK ==
  ASSUME NEW old, NEW new, StoreOK(old), StoreOK(new), Grown(old, new)
  PROVE  /\ Used(old) \subseteq Used(new)
         /\ \A req : RequestOK(req, old) => RequestOK(req, new)
         /\ \A req, a : RequestOK(req, old) /\ AnswerOK(req, a, old)
                           => AnswerOK(req, a, new)
<1>1. Used(old) \subseteq Used(new)
  BY DEF Grown, Used
<1>2. \A i \in Used(old) : /\ SizeOf(old, i) \in Nat /\ SizeOf(new, i) \in Nat
                           /\ SizeOf(old, i) <= SizeOf(new, i)
  BY SizesAre DEF Grown, Used
<1>3. ASSUME NEW req, RequestOK(req, old) PROVE RequestOK(req, new)
  <2>1. CASE req.type = "lookup" /\ req.path \in Text
    BY <2>1 DEF RequestOK
  <2>2. CASE /\ req.type \in {"read", "write"} /\ req.file \in Used(old)
             /\ req.offset \in Nat /\ req.offset <= SizeOf(old, req.file)
    <3>1. req.file \in Used(new) /\ req.offset <= SizeOf(new, req.file)
      BY <1>1, <1>2, <2>2
    <3> QED
      BY <1>3, <2>2, <3>1 DEF RequestOK
  <2>3. CASE req.type \in {"make", "readdir"}
    BY <1>3, <2>3 DEF RequestOK
  <2> QED
    BY <1>3, <2>1, <2>2, <2>3 DEF RequestOK
<1>4. ASSUME NEW req, NEW a, RequestOK(req, old), AnswerOK(req, a, old)
      PROVE  AnswerOK(req, a, new)
  <2>1. req.type \in {"read", "write"} => req.file \in Used(old) /\ req.offset \in Nat
    BY <1>4 DEF RequestOK
  <2>2. a.ok /\ req.type = "read" =>
           req.offset + Len(a.data) <= SizeOf(new, req.file)
    <3>1. a.ok /\ req.type = "read" =>
             a.data \in Seq(Nat) /\ req.offset + Len(a.data) <= SizeOf(old, req.file)
      BY <1>4 DEF AnswerOK
    <3> QED
      BY <1>2, <2>1, <3>1
  <2>3. a.ok /\ req.type = "write" => a.size <= SizeOf(new, req.file)
    <3>1. a.size \in Nat
          /\ (a.ok /\ req.type = "write" => a.size <= SizeOf(old, req.file))
      BY <1>4 DEF AnswerOK
    <3> QED
      BY <1>2, <2>1, <3>1
  <2>4. a.ok /\ req.type = "lookup" => a.size <= SizeOf(new, a.file)
    <3>1. /\ a.size \in Nat
          /\ a.ok /\ req.type = "lookup" =>
                a.file \in Used(old) /\ a.size <= SizeOf(old, a.file)
      BY <1>4 DEF AnswerOK
    <3> QED
      BY <1>2, <3>1
  <2> QED
    BY <1>1, <1>4, <2>2, <2>3, <2>4 DEF AnswerOK
<1> QED
  BY <1>1, <1>3, <1>4

-----------------------------------------------------------------------------
(* Files in the root.                                                      *)

\* What is left of a path without the slash at its beginning.
RootName(path) == Tail(path)

LEMMA ParsedIs ==
  ASSUME NEW path, myparse(path)
  PROVE  /\ path[1] = "/"
         /\ \A i \in 1 .. Len(path) - 1 : ~(path[i] = "/" /\ path[i + 1] = "/")
         /\ \A i \in DOMAIN Components(path) : Len(Components(path)[i]) < MAX_FILE_NAME_SIZE
BY DEF myparse, ToSet

Single(x) == <<x>>

\* A part of a text with the letter that follows it.
LEMMA SliceExtends ==
  ASSUME NEW s \in Text, NEW o \in Nat, NEW e \in Nat, o <= e, e + 1 <= Len(s)
  PROVE  Append(Slice(s, o, e), s[e + 1]) = Slice(s, o, e + 1)
<1> DEFINE a == Slice(s, o, e)
           b == Slice(s, o, e + 1)
           l == e - o
<1>0. /\ e + 1 \in Nat /\ o <= e + 1 /\ e <= Len(s) /\ s \in Seq(STRING)
      /\ l \in Nat /\ (e + 1) - o = l + 1 /\ o + (l + 1) = e + 1
  <2>1. Len(s) \in Nat /\ s \in Seq(STRING)
    BY DEF Text
  <2> QED
    BY <2>1
<1>1. /\ a \in Text /\ Len(a) = l /\ \A k \in 1 .. l : a[k] = s[o + k]
      /\ b \in Text /\ Len(b) = l + 1 /\ \A k \in 1 .. l + 1 : b[k] = s[o + k]
  <2>1. IsSlice(a, STRING, s, o, e)
    BY <1>0, SliceIs
  <2>2. IsSlice(b, STRING, s, o, e + 1)
    BY <1>0, SliceIs
  <2> HIDE DEF a, b
  <2> QED
    BY <1>0, <2>1, <2>2 DEF IsSlice, Text
<1>2. s[e + 1] \in STRING
  BY DEF Text
<1> HIDE DEF a, b, l
<1> DEFINE new == Append(a, s[e + 1])
<1>3. /\ new \in Seq(STRING) /\ Len(new) = l + 1 /\ new[l + 1] = s[e + 1]
      /\ \A k \in 1 .. l : new[k] = a[k]
  BY <1>0, <1>1, <1>2 DEF Text
<1> HIDE DEF new
<1>4. ASSUME NEW k \in 1 .. l + 1 PROVE new[k] = b[k]
  <2>1. CASE k = l + 1
    BY <1>0, <1>1, <1>3, <2>1
  <2>2. CASE k # l + 1
    <3>1. k \in 1 .. l
      BY <1>0, <2>2
    <3> QED
      BY <1>1, <1>3, <3>1
  <2> QED
    BY <2>1, <2>2
<1>5. new = b
  BY <1>0, <1>1, <1>3, <1>4 DEF Text
<1> QED
  BY <1>5 DEF new, a, b

\* One step of the loop over a path, after its first letter.
OneName(acc, path, k) == acc.inside /\ acc.names = Single(Slice(path, 1, k))

LEMMA TakesOn ==
  ASSUME NEW path \in Text, NEW k \in Nat, 2 <= k, k + 1 <= Len(path),
         NEW acc, TakeOK(acc), OneName(acc, path, k), path[k + 1] # "/"
  PROVE  OneName(Take(acc, path[k + 1]), path, k + 1)
<1> DEFINE ch == path[k + 1]
           a == Slice(path, 1, k)
<1>0. 1 \in Nat /\ 1 <= k
  OBVIOUS
<1>1. acc.names = Single(a) /\ acc.inside /\ DOMAIN acc = {"names", "inside"}
  BY DEF OneName, TakeOK
<1>2. Append(a, ch) = Slice(path, 1, k + 1)
  BY <1>0, SliceExtends
<1> HIDE DEF a
<1>3. /\ Take(acc, ch) = [acc EXCEPT !.names[Len(acc.names)] = Append(@, ch)]
  BY <1>1 DEF Take
<1>4. [Single(a) EXCEPT ![1] = Append(@, ch)] = Single(Append(a, ch)) /\ Len(Single(a)) = 1
  BY DEF Single
<1> QED
  BY <1>1, <1>2, <1>3, <1>4 DEF OneName

LEMMA TakeStarts ==
  ASSUME NEW path \in Text, 2 <= Len(path), path[1] = "/", path[2] # "/"
  PROVE  LET base == [names |-> << >>, inside |-> FALSE]
         IN  OneName(Take(Take(base, path[1]), path[2]), path, 2)
<1> DEFINE base == [names |-> << >>, inside |-> FALSE]
           ch == path[2]
<1>1. Take(base, path[1]) = base
  BY DEF Take
<1>2. Take(base, ch) = [names |-> Append(<< >>, <<ch>>), inside |-> TRUE]
  BY DEF Take
<1>3. Append(<< >>, <<ch>>) = Single(<<ch>>)
  BY DEF Single
<1>4. Slice(path, 1, 2) = <<ch>>
  <2>1. /\ 1 \in Nat /\ 2 \in Nat /\ 1 <= 2 /\ path \in Seq(STRING)
    BY DEF Text
  <2> DEFINE a == Slice(path, 1, 2)
  <2>2. a \in Text /\ Len(a) = 2 - 1 /\ \A k \in 1 .. 2 - 1 : a[k] = path[1 + k]
    <3>1. IsSlice(a, STRING, path, 1, 2)
      BY <2>1, SliceIs
    <3> HIDE DEF a
    <3> QED
      BY <3>1 DEF IsSlice, Text
  <2> HIDE DEF a
  <2>3. a \in Seq(STRING) /\ Len(a) = 1 /\ a[1] = ch
    BY <2>2 DEF Text
  <2>4. a = <<ch>>
    BY <2>3
  <2> QED
    BY <2>4 DEF a
<1> QED
  BY <1>1, <1>2, <1>3, <1>4 DEF OneName

\* A path in the root that was accepted has one name, all that follows its first slash.
LEMMA RootPathIs ==
  ASSUME NEW path \in Text, myparse(path), InRoot(path)
  PROVE  /\ Components(path) = Single(RootName(path))
         /\ RootName(path) \in Text
         /\ Len(RootName(path)) < MAX_FILE_NAME_SIZE
         /\ Len(RootName(path)) = Len(path) - 1
<1> DEFINE base == [names |-> << >>, inside |-> FALSE]
           n == Len(path)
<1>1. /\ n \in Nat /\ DOMAIN path = 1 .. n /\ \A k \in 1 .. n : path[k] \in STRING
      /\ path[1] = "/" /\ path[n] # "/"
      /\ \A i \in 1 .. n - 1 : ~(path[i] = "/" /\ path[i + 1] = "/")
      /\ Len(Components(path)) = 1 /\ n \in 1 .. MAX_PATH_NAME_SIZE - 1
  <2>1. n \in Nat /\ DOMAIN path = 1 .. n /\ \A k \in 1 .. n : path[k] \in STRING
    BY DEF Text
  <2>2. n \in 1 .. MAX_PATH_NAME_SIZE - 1
    BY DEF myparse
  <2> QED
    BY <2>1, <2>2, ParsedIs DEF InRoot
<1>2. 2 <= n /\ path[2] # "/"
  <2>1. n # 1 /\ n >= 1
    BY <1>1
  <2>2. 1 \in 1 .. n - 1 /\ 1 + 1 = 2
    BY <1>1, <2>1
  <2> QED
    BY <1>1, <2>1, <2>2
<1>0. TakeOK(base)
  BY DEF TakeOK, Text
<1>3. OneName(Take(Take(base, path[1]), path[2]), path, 2)
  BY <1>1, <1>2, TakeStarts
<1>4. PICK g : TakeFold!Values(g, base, path, n)
  <2> HIDE DEF base, n
  <2> QED
    BY <1>1, TakeFold!FoldSteps
<1>5. /\ g[0] = base /\ Components(path) = g[n].names
      /\ \A k \in 1 .. n : g[k] = Take(g[k - 1], path[k])
  BY <1>4, PathFoldsAre DEF TakeFold!Values, Components
<1> HIDE DEF base, n
<1>6. OneName(g[2], path, 2)
  <2>1. 1 \in 1 .. n /\ 2 \in 1 .. n /\ 1 - 1 = 0 /\ 2 - 1 = 1
    BY <1>1, <1>2
  <2> QED
    BY <1>3, <1>5, <2>1
<1> DEFINE Ended(k) == path[k] = "/" /\ ~g[k].inside /\ Len(g[k].names) = 1
           Run(k) == OneName(g[k], path, k) \/ Ended(k) \/ Len(g[k].names) >= 2
           G == {k \in 0 .. n : TakeOK(g[k]) /\ (k >= 2 => Run(k))}
<1>7. 0 \in G
  <2>1. 0 \in 0 .. n /\ ~(0 >= 2)
    BY <1>1
  <2>2. TakeOK(g[0])
    BY <1>0, <1>5
  <2> QED
    BY <2>1, <2>2
<1>8. \A k \in 1 .. n : k - 1 \in G => k \in G
  <2> SUFFICES ASSUME NEW k \in 1 .. n, k - 1 \in G PROVE k \in G
    OBVIOUS
  <2> DEFINE acc == g[k - 1]
             ch == path[k]
  <2>1. TakeOK(acc) /\ (k - 1 >= 2 => Run(k - 1)) /\ ch \in STRING /\ g[k] = Take(acc, ch)
        /\ k \in 0 .. n /\ k \in Nat
    BY <1>1, <1>5
  <2>2. /\ TakeOK(g[k])
        /\ Len(g[k].names) = IF ch # "/" /\ ~acc.inside THEN Len(acc.names) + 1
                             ELSE Len(acc.names)
        /\ Len(acc.names) \in Nat /\ Len(g[k].names) \in Nat
    <3>1. TakeOK(g[k]) /\ Len(g[k].names) = IF ch # "/" /\ ~acc.inside
                             THEN Len(acc.names) + 1 ELSE Len(acc.names)
      BY <2>1, TakeKeeps
    <3> QED
      BY <2>1, <3>1 DEF TakeOK
  <2>3. ASSUME k >= 2 PROVE Run(k)
    <3>1. CASE k = 2
      BY <1>6, <3>1
    <3>2. CASE k - 1 >= 2 /\ OneName(acc, path, k - 1) /\ ch # "/"
      <4>1. k - 1 \in Nat /\ (k - 1) + 1 = k /\ (k - 1) + 1 <= n
        BY <1>1, <2>1, <3>2
      <4>2. OneName(g[k], path, k)
        BY <2>1, <3>2, <4>1, TakesOn DEF n
      <4> QED
        BY <4>2
    <3>3. CASE k - 1 >= 2 /\ OneName(acc, path, k - 1) /\ ch = "/"
      <4>1. Len(acc.names) = 1
        BY <3>3 DEF OneName, Single
      <4>2. ~g[k].inside
        BY <2>1, <3>3 DEF Take, TakeOK
      <4> QED
        BY <2>2, <3>3, <4>1, <4>2
    <3>4. CASE k - 1 >= 2 /\ Ended(k - 1)
      <4>1. k - 1 \in 1 .. n - 1 /\ (k - 1) + 1 = k
        BY <1>1, <2>1, <3>4
      <4>2. ch # "/"
        BY <1>1, <3>4, <4>1
      <4> QED
        BY <2>2, <3>4, <4>2
    <3>5. CASE k - 1 >= 2 /\ Len(acc.names) >= 2
      BY <2>2, <3>5
    <3>6. k = 2 \/ k - 1 >= 2
      BY <2>1, <2>3
    <3> QED
      BY <2>1, <3>1, <3>2, <3>3, <3>4, <3>5, <3>6
  <2> QED
    BY <2>1, <2>2, <2>3
<1> HIDE DEF G
<1>9. n \in G
  BY <1>1, <1>7, <1>8, TakeFold!CountUp
<1>10. OneName(g[n], path, n)
  <2>1. n >= 2 => Run(n)
    BY <1>9 DEF G
  <2>2. ~Ended(n)
    BY <1>1 DEF n
  <2>3. Len(g[n].names) = 1 /\ n >= 2
    BY <1>1, <1>2, <1>5
  <2> QED
    BY <2>1, <2>2, <2>3
<1>11. Components(path) = Single(Slice(path, 1, n))
  BY <1>5, <1>10 DEF OneName
<1>12. RootName(path) = Slice(path, 1, n)
  BY <1>1, <1>2 DEF RootName, Slice, Text, n
<1>13. /\ Slice(path, 1, n) \in Text /\ Len(Slice(path, 1, n)) = n - 1
  <2>1. 1 \in Nat /\ n \in Nat /\ 1 <= n /\ n <= Len(path) /\ path \in Seq(STRING)
    BY <1>1, <1>2 DEF Text, n
  <2>2. IsSlice(Slice(path, 1, n), STRING, path, 1, n)
    BY <2>1, SliceIs
  <2> QED
    BY <2>2 DEF IsSlice, Text
<1>14. Len(RootName(path)) < MAX_FILE_NAME_SIZE
  <2>1. 1 \in DOMAIN Components(path) /\ Components(path)[1] = RootName(path)
    BY <1>11, <1>12 DEF Single
  <2> QED
    BY <2>1, ParsedIs
<1> QED
  BY <1>11, <1>12, <1>13, <1>14 DEF n

LEMMA CopyIsAll ==
  ASSUME NEW a \in Text
  PROVE  CopyOver(<< >>, a) = a /\ CopyOver(a, a) = a
<1> DEFINE l == Len(a)
<1>1. l \in Nat /\ a \in Seq(STRING)
  BY DEF Text
<1>2. SubSeq(a, l + 1, l) = << >>
  BY <1>1
<1>3. SubSeq(<< >>, l + 1, 0) = << >>
  BY <1>1
<1>4. a \o << >> = a
  BY <1>1
<1> HIDE DEF l
<1>5. CopyOver(<< >>, a) = a
  <2>1. CopyOver(<< >>, a) = a \o SubSeq(<< >>, l + 1, Len(<< >>))
    BY DEF CopyOver, l
  <2>2. Len(<< >>) = 0
    OBVIOUS
  <2> QED
    BY <1>3, <1>4, <2>1, <2>2
<1>6. CopyOver(a, a) = a
  BY <1>2, <1>4 DEF CopyOver, l
<1> QED
  BY <1>5, <1>6

\* What the client makes of such a path.
LEMMA RootNames ==
  ASSUME NEW path \in Text, myparse(path), InRoot(path)
  PROVE  /\ pname(path) = path
         /\ newdirname(path) = path /\ newfilename(path) = RootName(path)
         /\ Cut(newfilename(path), MAX_FILE_NAME_SIZE - 1) = RootName(path)
<1> DEFINE t == RootName(path)
           n == Len(path)
           left == FoldLeft(CopyOver, << >>, Single(t))
<1>1. /\ Components(path) = Single(t) /\ t \in Text
      /\ Len(t) < MAX_FILE_NAME_SIZE /\ Len(t) = n - 1
      /\ n \in Nat /\ Len(t) \in Nat /\ MAX_FILE_NAME_SIZE \in Nat
  <2>1. n \in Nat /\ MAX_FILE_NAME_SIZE \in Nat
    BY PathAssumption DEF Text
  <2>2. t \in Text
    BY RootPathIs
  <2>3. Len(t) \in Nat
    BY <2>2 DEF Text
  <2> QED
    BY <2>1, <2>2, <2>3, RootPathIs
<1> HIDE DEF t
<1>2. MAX_FILE_NAME_SIZE \in Int /\ MAX_FILE_NAME_SIZE >= n
      /\ MAX_FILE_NAME_SIZE - 1 \in Int /\ MAX_FILE_NAME_SIZE - 1 >= Len(t)
  BY <1>1
<1>3. pname(path) = path /\ Cut(t, MAX_FILE_NAME_SIZE - 1) = t
  BY <1>1, <1>2, CutIs DEF pname
<1>4. Len(Single(t)) = 1 /\ DOMAIN Single(t) = 1 .. 1 /\ Single(t)[1] = t
  BY DEF Single
<1>5. newdirname(path) = path
  BY <1>1, <1>4 DEF newdirname
<1>6. left = t
  <2>1. PICK g : CopyFold!Values(g, << >>, Single(t), 1)
    BY <1>4, CopyFold!FoldSteps, 1 \in Nat
  <2>2. /\ g[0] = << >> /\ left = g[1]
        /\ \A k \in 1 .. 1 : g[k] = CopyOver(g[k - 1], Single(t)[k])
    BY <2>1, PathFoldsAre DEF CopyFold!Values
  <2>3. 1 \in 1 .. 1 /\ 1 - 1 = 0
    OBVIOUS
  <2>4. g[1] = CopyOver(<< >>, t)
    BY <1>4, <2>2, <2>3
  <2> QED
    BY <1>1, <2>2, <2>4, CopyIsAll
<1>7. newfilename(path) = t
  <2>1. newfilename(path) = CopyOver(left, RootName(path))
    BY <1>1, <1>4 DEF newfilename, RootName
  <2> QED
    BY <1>1, <1>6, <2>1, CopyIsAll DEF t
<1> QED
  BY <1>3, <1>5, <1>7 DEF t

\* What the server makes of it.
LEMMA RootResolves ==
  ASSUME NEW st, NEW path \in Text, myparse(path), InRoot(path), Resolve(st, path) # 0
  PROVE  RootName(path) \in Listed(st, ROOT)
<1> DEFINE t == RootName(path)
           base == [st |-> st, at |-> ROOT]
<1>1. Components(path) = Single(t)
  BY RootPathIs
<1>2. Len(Single(t)) = 1 /\ DOMAIN Single(t) = 1 .. 1 /\ Single(t)[1] = t
  BY DEF Single
<1> HIDE DEF t, base
<1>3. PICK g : DownFold!Values(g, base, Single(t), 1)
  BY <1>2, DownFold!FoldSteps, 1 \in Nat
<1>4. /\ g[0] = base /\ FoldLeft(Down, base, Single(t)) = g[1]
      /\ \A k \in 1 .. 1 : g[k] = Down(g[k - 1], Single(t)[k])
  BY <1>3, PathFoldsAre DEF DownFold!Values
<1>5. 1 \in 1 .. 1 /\ 1 - 1 = 0
  OBVIOUS
<1>6. g[1] = Down(base, t)
  BY <1>2, <1>4, <1>5
<1>7. Resolve(st, path) = Down(base, t).at
  BY <1>1, <1>4, <1>6 DEF Resolve, base
<1>8. base.st = st /\ base.at = ROOT /\ DOMAIN base = {"st", "at"}
  BY DEF base
<1> QED
  BY <1>7, <1>8 DEF Down, t

LEMMA RootLookup ==
  ASSUME NEW st, NEW path \in Text, myparse(path), InRoot(path),
         snfs_lookup(st, LookupRequest(path)).answer.ok
  PROVE  RootName(path) \in Listed(st, ROOT)
<1>1. LookupRequest(path).path = path
  BY RootNames DEF LookupRequest, Lookup
<1>2. Resolve(st, path) # 0
  BY <1>1, AnswersAre DEF snfs_lookup, Failed
<1> QED
  BY <1>2, RootResolves

\* A file is not made with a name that is there.
LEMMA RootCreate ==
  ASSUME NEW st, NEW path \in Text, myparse(path), InRoot(path),
         RootName(path) \in Listed(st, ROOT)
  PROVE  ~snfs_make(st, CreateRequest(path, ROOT)).answer.ok
<1> DEFINE req == CreateRequest(path, ROOT)
<1>1. /\ req.name = newfilename(path) /\ req.dir = ROOT
      /\ Cut(newfilename(path), MAX_FILE_NAME_SIZE - 1) = RootName(path)
  BY RootNames DEF CreateRequest, Make
<1> HIDE DEF req
<1>2. snfs_make(st, req) = Failed(st)
  BY <1>1 DEF snfs_make, Taken
<1> QED
  BY <1>2, AnswersAre DEF Failed, req

-----------------------------------------------------------------------------
(* The files that a client has open.                                       *)

FileFields == {"fileId", "size", "read_offset", "write_offset", "path", "new"}

FileOK(fd, st) ==
    /\ DOMAIN fd = FileFields
    /\ fd.fileId \in Used(st)
    /\ fd.size \in Nat /\ fd.read_offset \in Nat /\ fd.write_offset \in Nat
    /\ fd.read_offset <= fd.size /\ fd.write_offset <= fd.size
    /\ fd.read_offset <= SizeOf(st, fd.fileId)
    /\ fd.write_offset <= SizeOf(st, fd.fileId)
    /\ fd.size <= SizeOf(st, fd.fileId) \/ NotYetWritten(fd)

FilesOK(fds, st) ==
    /\ IsSeq(fds)
    /\ Len(fds) <= MAX_OPEN_FILES
    /\ \A i \in DOMAIN fds : FileOK(fds[i], st)

\* The descriptor that my_read and my_write use for a file.
FileOf(fds, id) == fds[queue_node_get(fds, id)]

\* That descriptor becomes fd, or leaves the list.
Reset(fds, id, fd) == [fds EXCEPT ![queue_node_get(fds, id)] = fd]

LEMMA FirstIs ==
  ASSUME NEW fds, IsSeq(fds), NEW id, queue_node_search(fds, id)
  PROVE  /\ queue_node_get(fds, id) \in DOMAIN fds
         /\ FileOf(fds, id).fileId = id
<1>1. Positions(fds, id) \in SUBSET Nat /\ Positions(fds, id) # {}
  <2>1. DOMAIN fds \subseteq Nat
    BY DEF IsSeq
  <2> QED
    BY <2>1 DEF Positions, queue_node_search
<1>2. queue_node_get(fds, id) \in Positions(fds, id)
  BY <1>1, LeastIs DEF queue_node_get
<1> QED
  BY <1>2 DEF Positions, FileOf

LEMMA ResetIs ==
  ASSUME NEW st, NEW fds, FilesOK(fds, st), NEW id, queue_node_search(fds, id),
         NEW fd, FileOK(fd, st), fd.fileId = id
  PROVE  /\ FilesOK(Reset(fds, id, fd), st)
         /\ queue_node_search(Reset(fds, id, fd), id)
         /\ FileOf(Reset(fds, id, fd), id) = fd
         /\ Len(Reset(fds, id, fd)) = Len(fds)
<1> DEFINE p == queue_node_get(fds, id)
           new == Reset(fds, id, fd)
           T == ToSet(fds) \cup {fd}
<1>1. p \in DOMAIN fds /\ fds[p].fileId = id /\ fds \in Seq(T) /\ fd \in T
  BY FirstIs DEF FilesOK, FileOf, IsSeq
<1> HIDE DEF p, T
<1>2. new = [fds EXCEPT ![p] = fd]
  BY DEF Reset, p
<1>3. /\ new \in Seq(T) /\ Len(new) = Len(fds) /\ DOMAIN new = DOMAIN fds
      /\ new[p] = fd /\ \A i \in DOMAIN fds : i # p => new[i] = fds[i]
  BY <1>1, <1>2
<1> HIDE DEF new
<1>4. IsSeq(new)
  <2>1. DOMAIN new = 1 .. Len(new)
    BY <1>3
  <2>2. \A i \in 1 .. Len(new) : new[i] \in ToSet(new)
    BY <2>1 DEF ToSet
  <2> QED
    BY <1>3, <2>2, ElementsIn DEF IsSeq
<1>5. FilesOK(new, st)
  BY <1>3, <1>4 DEF FilesOK
<1>6. Positions(new, id) = Positions(fds, id)
  BY <1>1, <1>3 DEF Positions
<1>7. queue_node_get(new, id) = p /\ queue_node_search(new, id)
  BY <1>6 DEF queue_node_get, queue_node_search, p
<1> QED
  BY <1>3, <1>5, <1>7 DEF FileOf, new

LEMMA AppendIs ==
  ASSUME NEW st, NEW fds, FilesOK(fds, st), Len(fds) < MAX_OPEN_FILES,
         NEW fd, FileOK(fd, st)
  PROVE  FilesOK(Append(fds, fd), st) /\ Len(Append(fds, fd)) = Len(fds) + 1
<1> DEFINE new == Append(fds, fd)
<1>1. /\ IsSeq(new) /\ Len(new) = Len(fds) + 1 /\ Len(fds) \in Nat
      /\ DOMAIN fds = 1 .. Len(fds) /\ DOMAIN new = 1 .. Len(fds) + 1
      /\ \A i \in 1 .. Len(fds) : new[i] = fds[i]
      /\ new[Len(fds) + 1] = fd
  BY AppendIsSeq DEF FilesOK
<1> HIDE DEF new
<1>2. \A i \in DOMAIN new : FileOK(new[i], st)
  BY <1>1 DEF FilesOK
<1>3. Len(new) <= MAX_OPEN_FILES
  BY <1>1, MyFsAssumption
<1> QED
  BY <1>1, <1>2, <1>3 DEF FilesOK, new

LEMMA RemoveIs ==
  ASSUME NEW st, NEW fds, FilesOK(fds, st), NEW id, queue_node_search(fds, id)
  PROVE  /\ FilesOK(queue_node_remove(fds, id), st)
         /\ Len(queue_node_remove(fds, id)) = Len(fds) - 1
         /\ \A k \in DOMAIN queue_node_remove(fds, id) :
               \E i \in DOMAIN fds : queue_node_remove(fds, id)[k] = fds[i]
<1> DEFINE p == queue_node_get(fds, id)
           new == queue_node_remove(fds, id)
           T == ToSet(fds)
           n == Len(fds)
<1>1. p \in 1 .. n /\ fds \in Seq(T) /\ n \in Nat /\ DOMAIN fds = 1 .. n
  BY FirstIs DEF FilesOK, IsSeq
<1>2. new = Slice(fds, 0, p - 1) \o Slice(fds, p, n)
  BY DEF queue_node_remove, RemoveAt, Slice
<1> HIDE DEF p, T, new
<1>3. /\ Slice(fds, 0, p - 1) \in Seq(T) /\ Len(Slice(fds, 0, p - 1)) = (p - 1) - 0
      /\ \A k \in 1 .. (p - 1) - 0 : Slice(fds, 0, p - 1)[k] = fds[0 + k]
  <2>1. 0 \in Nat /\ p - 1 \in Nat /\ 0 <= p - 1 /\ p - 1 <= Len(fds)
    BY <1>1
  <2>2. IsSlice(Slice(fds, 0, p - 1), T, fds, 0, p - 1)
    BY <1>1, <2>1, SliceIs
  <2> QED
    BY <2>2 DEF IsSlice
<1>4. /\ Slice(fds, p, n) \in Seq(T) /\ Len(Slice(fds, p, n)) = n - p
      /\ \A k \in 1 .. n - p : Slice(fds, p, n)[k] = fds[p + k]
  <2>1. p \in Nat /\ n \in Nat /\ p <= n /\ n <= Len(fds)
    BY <1>1
  <2>2. IsSlice(Slice(fds, p, n), T, fds, p, n)
    BY <1>1, <2>1, SliceIs
  <2> QED
    BY <2>2 DEF IsSlice
<1> DEFINE a == Slice(fds, 0, p - 1)
           b == Slice(fds, p, n)
<1>5. /\ a \in Seq(T) /\ Len(a) = p - 1 /\ \A k \in 1 .. p - 1 : a[k] = fds[k]
      /\ b \in Seq(T) /\ Len(b) = n - p /\ \A k \in 1 .. n - p : b[k] = fds[p + k]
      /\ new = a \o b
  BY <1>1, <1>2, <1>3, <1>4
<1> HIDE DEF a, b, n
<1>6. /\ new \in Seq(T) /\ Len(new) = n - 1
      /\ \A k \in 1 .. n - 1 : new[k] = IF k <= p - 1 THEN a[k] ELSE b[k - (p - 1)]
  <2>0. a \in Seq(T) /\ b \in Seq(T)
    BY <1>5
  <2>1. a \o b \in Seq(T) /\ Len(a \o b) = Len(a) + Len(b)
    BY <2>0
  <2>2. \A k \in 1 .. Len(a) + Len(b) :
           (a \o b)[k] = IF k <= Len(a) THEN a[k] ELSE b[k - Len(a)]
    BY <2>0
  <2>3. Len(a) + Len(b) = n - 1
    BY <1>1, <1>5
  <2> QED
    BY <1>5, <2>1, <2>2, <2>3
<1>7. DOMAIN new = 1 .. n - 1
  BY <1>6
<1>8. \A k \in 1 .. n - 1 : \E i \in 1 .. n : new[k] = fds[i]
  <2> SUFFICES ASSUME NEW k \in 1 .. n - 1 PROVE \E i \in 1 .. n : new[k] = fds[i]
    OBVIOUS
  <2>1. CASE k <= p - 1
    <3>1. k \in 1 .. p - 1 /\ k \in 1 .. n
      BY <1>1, <2>1
    <3> QED
      BY <1>5, <1>6, <2>1, <3>1
  <2>2. CASE ~(k <= p - 1)
    <3>1. k - (p - 1) \in 1 .. n - p /\ p + (k - (p - 1)) \in 1 .. n
      BY <1>1, <2>2
    <3> QED
      BY <1>5, <1>6, <2>2, <3>1
  <2> QED
    BY <2>1, <2>2
<1>9. IsSeq(new)
  <2>1. \A k \in 1 .. Len(new) : new[k] \in ToSet(new)
    BY <1>6, <1>7 DEF ToSet
  <2> QED
    BY <1>6, <2>1, ElementsIn DEF IsSeq
<1>10. \A k \in DOMAIN new : FileOK(new[k], st)
  BY <1>1, <1>7, <1>8 DEF FilesOK
<1>11. Len(new) <= MAX_OPEN_FILES
  BY <1>1, <1>6, MyFsAssumption DEF FilesOK, n
<1>12. \A k \in DOMAIN new : \E i \in DOMAIN fds : new[k] = fds[i]
  BY <1>1, <1>7, <1>8
<1> QED
  BY <1>6, <1>9, <1>10, <1>11, <1>12 DEF FilesOK, new, n

LEMMA FilesStayOK ==
  ASSUME NEW old, NEW new, StoreOK(old), StoreOK(new), Grown(old, new),
         NEW fds, FilesOK(fds, old)
  PROVE  FilesOK(fds, new)
<1>1. Used(old) \subseteq Used(new)
  BY StaysOK
<1>2. \A i \in Used(old) : /\ SizeOf(old, i) \in Nat /\ SizeOf(new, i) \in Nat
                           /\ SizeOf(old, i) <= SizeOf(new, i)
  BY SizesAre DEF Grown, Used
<1>3. ASSUME NEW fd, FileOK(fd, old) PROVE FileOK(fd, new)
  <2>1. /\ fd.fileId \in Used(old) /\ fd.read_offset \in Nat /\ fd.write_offset \in Nat
        /\ fd.read_offset <= SizeOf(old, fd.fileId)
        /\ fd.write_offset <= SizeOf(old, fd.fileId)
    BY <1>3 DEF FileOK
  <2>2. /\ fd.read_offset <= SizeOf(new, fd.fileId)
        /\ fd.write_offset <= SizeOf(new, fd.fileId)
    BY <1>2, <2>1
  <2>3. fd.size <= SizeOf(new, fd.fileId) \/ NotYetWritten(fd)
    <3>1. fd.size \in Nat /\ (fd.size <= SizeOf(old, fd.fileId) \/ NotYetWritten(fd))
      BY <1>3 DEF FileOK
    <3> QED
      BY <1>2, <2>1, <3>1
  <2> QED
    BY <1>1, <1>3, <2>2, <2>3 DEF FileOK
<1> QED
  BY <1>3 DEF FilesOK

-----------------------------------------------------------------------------
(* The invariant, for the one server that snfs_init registers.             *)

Opening == {"open", "open_dir", "open_create"}
Making == {"mkdir", "mkdir_dir", "mkdir_make"}
Searching == {"open", "open_dir", "list", "mkdir", "mkdir_dir"}

\* The type of the request that a client waits for at each label.
RequestType(at) == CASE at \in Searching -> "lookup"
                     [] at \in {"open_create", "mkdir_make"} -> "make"
                     [] at = "list_dir" -> "readdir"
                     [] OTHER -> at

\* What is still to be read is what the client knows to be in the file, and what
\* was read comes from before the offset.
ReadingOK(o, fds, req) ==
    /\ queue_node_search(fds, o.file)
    /\ req = ReadRequest(FileOf(fds, o.file), o.left)
    /\ FileOf(fds, o.file).read_offset + o.left <= FileOf(fds, o.file).size
    /\ o.from + Len(o.buffer) = FileOf(fds, o.file).read_offset

WritingOK(o, fds, req) ==
    /\ queue_node_search(fds, o.file)
    /\ req = WriteRequest(FileOf(fds, o.file), o.left)

\* my_open creates files in the root with size 0: if the second lookup of the path
\* found a file, the request to create it will fail.
OpeningOK(o, req, st) ==
    /\ myparse(o.path)
    /\ InRoot(o.path) =>
          /\ o.at = "open_dir" => req = LookupRequest(o.path)
          /\ o.at = "open_create" =>
                /\ req = CreateRequest(o.path, ROOT)
                /\ o.fsize = 0 \/ RootName(o.path) \in Listed(st, ROOT)

\* What an answer says of that.
CreatedOK(o, a, st) ==
    InRoot(o.path) /\ a.ok =>
        /\ o.at = "open_dir" => RootName(o.path) \in Listed(st, ROOT)
        /\ o.at = "open_create" => o.fsize = 0

\* The locals of a client, its files and its request.
OpOK(o, fds, req, st) ==
    /\ o.at \in Label
    /\ o.left \in Nat
    /\ o.at \in Resting <=> req = NoRequest
    /\ o.at \notin Resting => req.type = RequestType(o.at)
    /\ o.at \in Opening =>
          /\ o.path \in OpenPath /\ o.fsize \in Nat /\ Len(fds) < MAX_OPEN_FILES
          /\ OpeningOK(o, req, st)
    /\ o.at \in Making => o.path \in DirPath
    /\ o.from \in Nat /\ o.buffer \in Seq(Nat) /\ InOrder(o.buffer, o.from)
    /\ o.at = "read" => ReadingOK(o, fds, req)
    /\ o.at = "write" => WritingOK(o, fds, req)

\* What is under way for c is its request, or the answer to that, and nothing if it
\* does not wait.
LinkOK(c) ==
    /\ call[c].got = << >>
    /\ call[c].req # NoRequest => RequestOK(call[c].req, store[0])
    /\ \A m \in srv_box[0] : m.from = c =>
          /\ Waiting(c) /\ cli_box[c] = << >>
          /\ m.sn = call[c].sn /\ m.req = call[c].req
    /\ cli_box[c] # << >> =>
          /\ Waiting(c) /\ Len(cli_box[c]) = 1
          /\ cli_box[c][1].sn = call[c].sn
          /\ AnswerOK(call[c].req, cli_box[c][1].answer, store[0])

\* A write never makes a file smaller than what its writer has read of it.
WrittenOK(c, a) ==
    op[c].at = "write" /\ a.ok =>
        FileOf(Open_files_list[c], op[c].file).read_offset <= a.size

ClientOK(c) ==
    /\ LinkOK(c)
    /\ FilesOK(Open_files_list[c], store[0])
    /\ Open_files[c] = Len(Open_files_list[c])
    /\ OpOK(op[c], Open_files_list[c], call[c].req, store[0])
    /\ cli_box[c] # << >> =>
          /\ WrittenOK(c, cli_box[c][1].answer)
          /\ CreatedOK(op[c], cli_box[c][1].answer, store[0])

OneInv ==
    /\ NetTypeOK /\ OpsOK
    /\ Num_servers = 1
    /\ store \in [Server -> Store] /\ StoreOK(store[0])
    /\ DOMAIN Open_files_list = Client /\ DOMAIN Open_files = Client
    /\ \A c \in Client : ClientOK(c)

LEMMA ServerIs ==
  ASSUME Num_servers = 1
  PROVE  Server = {0}
BY DEF Server

LEMMA OneInvInit == Registered = {1} /\ MyFsInit => OneInv
<1> SUFFICES ASSUME Registered = {1}, MyFsInit PROVE OneInv
  OBVIOUS
<1>1. NetTypeOK /\ OpsOK
  BY NetInvInit, OpsOKInit DEF NetInv
<1>2. Num_servers = 1 /\ Server = {0}
  BY ServerIs DEF MyFsInit, RemoteInit
<1>3. store \in [Server -> Store] /\ store[0] = NewStore
  BY <1>2, NewStoreOK DEF MyFsInit, RemoteInit, StoreOK
<1>4. ASSUME NEW c \in Client PROVE ClientOK(c)
  <2>1. /\ call[c] = NoCall /\ cli_box[c] = << >> /\ srv_box[0] = {}
        /\ Open_files_list[c] = << >> /\ Open_files[c] = 0 /\ op[c] = Idle
    BY <1>2 DEF MyFsInit, RemoteInit
  <2>2. LinkOK(c)
    BY <2>1 DEF LinkOK, NoCall
  <2>3. FilesOK(<< >>, store[0])
    BY MyFsAssumption DEF FilesOK, IsSeq
  <2>4. OpOK(Idle, << >>, NoRequest, store[0])
    BY DEF OpOK, Idle, Resting, Label, Opening, Making, InOrder
  <2> QED
    BY <2>1, <2>2, <2>3, <2>4 DEF ClientOK, NoCall
<1> QED
  BY <1>1, <1>2, <1>3, <1>4, NewStoreOK DEF OneInv, MyFsInit

LEMMA OpStaysOK ==
  ASSUME NEW old, NEW new, Grown(old, new), NEW o
  PROVE  /\ \A fds, req : OpOK(o, fds, req, old) => OpOK(o, fds, req, new)
         /\ \A a : CreatedOK(o, a, old) => CreatedOK(o, a, new)
<1>1. Listed(old, ROOT) \subseteq Listed(new, ROOT)
  BY HandlersAssumption DEF Grown, ROOT, Inode
<1>2. \A req : OpeningOK(o, req, old) => OpeningOK(o, req, new)
  BY <1>1 DEF OpeningOK
<1>3. \A fds, req : OpOK(o, fds, req, old) => OpOK(o, fds, req, new)
  BY <1>2 DEF OpOK
<1>4. \A a : CreatedOK(o, a, old) => CreatedOK(o, a, new)
  BY <1>1 DEF CreatedOK
<1> QED
  BY <1>3, <1>4

\* A step that is not about client d.
LEMMA ClientKept ==
  ASSUME NEW d \in Client, ClientOK(d),
         StoreOK(store[0]), StoreOK(store'[0]), Grown(store[0], store'[0]),
         call'[d] = call[d], cli_box'[d] = cli_box[d], op'[d] = op[d],
         Open_files_list'[d] = Open_files_list[d], Open_files'[d] = Open_files[d],
         \A m \in srv_box'[0] : m.from = d => m \in srv_box[0]
  PROVE  ClientOK(d)'
<1>1. Waiting(d)' = Waiting(d)
  BY DEF Waiting
<1>2. /\ call'[d].req # NoRequest => RequestOK(call'[d].req, store'[0])
      /\ \A a : call[d].req # NoRequest /\ AnswerOK(call[d].req, a, store[0])
                   => AnswerOK(call[d].req, a, store'[0])
  BY StaysOK DEF ClientOK, LinkOK
<1>3. Waiting(d) => call[d].req # NoRequest
  BY DEF Waiting
<1>4. LinkOK(d)'
  <2>1. \A m \in srv_box'[0] : m.from = d =>
           /\ Waiting(d) /\ cli_box[d] = << >>
           /\ m.sn = call[d].sn /\ m.req = call[d].req
    BY DEF ClientOK, LinkOK
  <2>2. cli_box[d] # << >> =>
          /\ Waiting(d) /\ Len(cli_box[d]) = 1
          /\ cli_box[d][1].sn = call[d].sn
          /\ AnswerOK(call[d].req, cli_box[d][1].answer, store'[0])
    BY <1>2, <1>3 DEF ClientOK, LinkOK
  <2>3. call'[d].got = << >>
    BY DEF ClientOK, LinkOK
  <2> QED
    BY <1>1, <1>2, <2>1, <2>2, <2>3 DEF LinkOK
<1>5. FilesOK(Open_files_list'[d], store'[0])
  BY FilesStayOK DEF ClientOK
<1>6. /\ OpOK(op'[d], Open_files_list'[d], call'[d].req, store'[0])
      /\ Open_files'[d] = Len(Open_files_list'[d])
  BY OpStaysOK DEF ClientOK
<1>7. cli_box'[d] # << >> =>
          /\ WrittenOK(d, cli_box[d][1].answer)'
          /\ CreatedOK(op'[d], cli_box'[d][1].answer, store'[0])
  <2>1. cli_box'[d] # << >> =>
          /\ WrittenOK(d, cli_box[d][1].answer)
          /\ CreatedOK(op'[d], cli_box'[d][1].answer, store'[0])
    BY OpStaysOK DEF ClientOK
  <2> QED
    BY <2>1 DEF WrittenOK
<1> QED
  BY <1>4, <1>5, <1>6, <1>7 DEF ClientOK

\* Requests that do not depend on the files.
LEMMA SearchesOK ==
  /\ \A path \in Text : \A st : RequestOK(LookupRequest(path), st)
  /\ \A dir, st : RequestOK(ListRequest(dir), st)
  /\ \A path \in OpenPath : \A dir, st : RequestOK(CreateRequest(path, dir), st)
  /\ \A path \in DirPath : \A dir, st : RequestOK(MkdirRequest(path, dir), st)
  /\ \A path : LookupRequest(path).type = "lookup"
  /\ \A dir : ListRequest(dir).type = "readdir"
  /\ \A path, dir : /\ CreateRequest(path, dir).type = "make"
                    /\ MkdirRequest(path, dir).type = "make"
<1>1. ASSUME NEW path \in Text PROVE pname(path) \in Text
  <2>1. MAX_FILE_NAME_SIZE \in Int
    BY PathAssumption
  <2> QED
    BY <2>1, CutIs DEF pname
<1>2. \A path \in Text : \A st : RequestOK(LookupRequest(path), st)
  BY <1>1 DEF RequestOK, LookupRequest, Lookup
<1>3. \A dir, st : RequestOK(ListRequest(dir), st)
  BY DEF RequestOK, ListRequest, Readdir
<1>4. \A path \in OpenPath \cup DirPath :
         Cut(newfilename(path), MAX_FILE_NAME_SIZE - 1) \in Name
  BY MyFsAssumption
<1>5. \A path \in OpenPath : \A dir, st : RequestOK(CreateRequest(path, dir), st)
  BY <1>4 DEF RequestOK, CreateRequest, Make
<1>6. \A path \in DirPath : \A dir, st : RequestOK(MkdirRequest(path, dir), st)
  BY <1>4 DEF RequestOK, MkdirRequest, Make
<1>7. /\ \A path : LookupRequest(path).type = "lookup"
      /\ \A dir : ListRequest(dir).type = "readdir"
      /\ \A path, dir : /\ CreateRequest(path, dir).type = "make"
                        /\ MkdirRequest(path, dir).type = "make"
  BY DEF LookupRequest, Lookup, ListRequest, Readdir, CreateRequest, MkdirRequest, Make
<1> QED
  BY <1>2, <1>3, <1>5, <1>6, <1>7

LEMMA PathsAreTexts ==
  /\ \A path \in OpenPath \cup DirPath \cup ListPath : path \in Text
  /\ \A path \in OpenPath \cup DirPath : newdirname(path) \in Text
<1>1. \A path \in OpenPath \cup DirPath \cup ListPath : path \in Text
  BY MyFsAssumption DEF Text
<1> QED
  BY <1>1, DirNameIs

-----------------------------------------------------------------------------
(* What a call returns.                                                    *)

LEMMA ResultIs ==
  ASSUME OneInv, NEW c \in Client, Returns(c), TakeLast(c)
  PROVE  /\ RequestOK(call[c].req, store[0])
         /\ AnswerOK(call[c].req, Result(c), store[0])
         /\ WrittenOK(c, Result(c)) /\ CreatedOK(op[c], Result(c), store[0])
         /\ ~Diverged(c)
         /\ cli_box'[c] = << >>
         /\ \A m \in srv_box[0] : m.from # c
         /\ BoxTaken(c) /\ UNCHANGED <<Num_servers, up, store>>
<1>1. LinkOK(c) /\ call[c].req # NoRequest /\ NetTypeOK
  BY DEF OneInv, ClientOK, Returns
<1>2. RequestOK(call[c].req, store[0])
  BY <1>1 DEF LinkOK
<1>3. BoxTaken(c) /\ UNCHANGED <<Num_servers, up, store>>
  BY ReturnTakes DEF TakeLast
<1>4. CASE ~call[c].sent
  <2>1. ~Waiting(c)
    BY <1>4 DEF Waiting
  <2>2. cli_box[c] = << >> /\ \A m \in srv_box[0] : m.from # c
    BY <1>1, <2>1 DEF LinkOK
  <2>3. cli_box' = cli_box
    BY <1>4 DEF TakeLast
  <2>4. Result(c) = RES_ERROR /\ ~Diverged(c)
    BY <1>4 DEF Result, Diverged
  <2>5. /\ AnswerOK(call[c].req, Result(c), store[0]) /\ WrittenOK(c, Result(c))
        /\ CreatedOK(op[c], Result(c), store[0])
    BY <2>4, AnswersAre DEF AnswerOK, WrittenOK, CreatedOK
  <2> QED
    BY <1>2, <1>3, <2>2, <2>3, <2>4, <2>5
<1>5. CASE call[c].sent
  <2> DEFINE box == cli_box[c]
             a == box[1].answer
  <2>1. IsLast(c) /\ Waiting(c) /\ box # << >>
    BY <1>5 DEF Returns, IsLast, Arrived
  <2>2. /\ Len(box) = 1 /\ AnswerOK(call[c].req, a, store[0])
        /\ \A m \in srv_box[0] : m.from # c
    BY <1>1, <2>1 DEF LinkOK
  <2>3. cli_box'[c] = Tail(box) /\ IsSeq(box) /\ Head(box) = box[1]
    BY <1>1, <1>5, <2>1, TailIsSeq DEF TakeLast, NetTypeOK
  <2>4. Tail(box) = << >>
    <3>1. IsSeq(Tail(box)) /\ DOMAIN Tail(box) = 1 .. Len(box) - 1
      BY <2>1, <2>3, TailIsSeq
    <3> DEFINE rest == Tail(box)
    <3> HIDE DEF rest
    <3>2. rest \in Seq(ToSet(rest)) /\ DOMAIN rest = {}
      BY <2>2, <3>1 DEF IsSeq, rest
    <3>3. rest = << >>
      BY <3>2
    <3> QED
      BY <3>3 DEF rest
  <2>5. Answers(c) = Append(<< >>, a)
    BY <1>1, <2>3 DEF LinkOK, Answers
  <2> HIDE DEF a
  <2>6. DOMAIN Answers(c) = {1} /\ Answers(c)[1] = a
    BY <2>5
  <2>7. Result(c) = a /\ ~Diverged(c)
    BY <1>5, <2>6 DEF Result, Diverged
  <2>8. WrittenOK(c, a) /\ CreatedOK(op[c], a, store[0])
    BY <2>1 DEF OneInv, ClientOK, a
  <2> QED
    BY <1>2, <1>3, <2>2, <2>3, <2>4, <2>7, <2>8
<1> QED
  BY <1>4, <1>5

-----------------------------------------------------------------------------
(* Steps of the servers.                                                   *)

LEMMA ServeCreates ==
  ASSUME NEW st, NEW o, NEW fds, NEW req, OpOK(o, fds, req, st)
  PROVE  CreatedOK(o, Serve(st, req).answer, st)
<1> DEFINE a == Serve(st, req).answer
<1> SUFFICES ASSUME InRoot(o.path), a.ok, o.at \in {"open_dir", "open_create"}
             PROVE  /\ o.at = "open_dir" => RootName(o.path) \in Listed(st, ROOT)
                    /\ o.at = "open_create" => o.fsize = 0
  BY DEF CreatedOK
<1>1. /\ OpeningOK(o, req, st) /\ o.path \in Text /\ myparse(o.path)
  BY PathsAreTexts DEF OpOK, OpeningOK, Opening
<1>2. CASE o.at = "open_dir"
  <2>1. req = LookupRequest(o.path) /\ req.type = "lookup"
    BY <1>1, <1>2, SearchesOK DEF OpeningOK
  <2>2. Serve(st, req) = snfs_lookup(st, req)
    BY <2>1 DEF Serve
  <2> QED
    BY <1>1, <1>2, <2>1, <2>2, RootLookup
<1>3. CASE o.at = "open_create"
  <2>1. req = CreateRequest(o.path, ROOT) /\ req.type = "make"
        /\ (o.fsize = 0 \/ RootName(o.path) \in Listed(st, ROOT))
    BY <1>1, <1>3, SearchesOK DEF OpeningOK
  <2>2. Serve(st, req) = snfs_make(st, req)
    BY <2>1 DEF Serve
  <2> QED
    BY <1>1, <1>3, <2>1, <2>2, RootCreate
<1> QED
  BY <1>2, <1>3

LEMMA OneHandle ==
  ASSUME OneInv, NEW s \in Server, NEW msg \in srv_box[s],
         Handle(s, msg), UNCHANGED myVars
  PROVE  OneInv'
<1> DEFINE c == msg.from
           st == store[0]
           served == Serve(st, msg.req)
           rep == Reply(msg, served.answer)
<1>1. NetTypeOK /\ Server = {0} /\ s = 0 /\ Num_servers = 1
  BY ServerIs DEF OneInv
<1>2. /\ store' = [store EXCEPT ![0] = served.store]
      /\ srv_box' = [srv_box EXCEPT ![0] = @ \ {msg}]
      /\ cli_box' = [cli_box EXCEPT ![c] = Append(@, rep)]
      /\ UNCHANGED <<Num_servers, up, next_sn, rr_index, call>>
  BY <1>1 DEF Handle
<1>3. /\ IsMessage(msg) /\ c \in Client /\ ClientOK(c)
      /\ Waiting(c) /\ cli_box[c] = << >>
      /\ msg.sn = call[c].sn /\ msg.req = call[c].req
      /\ RequestOK(msg.req, st)
  BY <1>1 DEF OneInv, ClientOK, LinkOK, NetTypeOK, IsMessage, Waiting
<1>4. Served(st, msg.req, served)
  BY <1>3, ServeIs DEF OneInv
<1>5. rep.sn = msg.sn /\ rep.answer = served.answer
  BY DEF Reply
<1> HIDE DEF rep, served, st
<1>6. /\ Server' = Server
      /\ DOMAIN store = {0} /\ store'[0] = served.store
      /\ srv_box'[0] = srv_box[0] \ {msg} /\ DOMAIN srv_box' = Server
      /\ DOMAIN cli_box' = Client
      /\ cli_box'[c] = Append(<< >>, rep)
      /\ \A d \in Client : d # c => cli_box'[d] = cli_box[d]
  BY <1>1, <1>2, <1>3 DEF Server, OneInv, NetTypeOK
<1>7. /\ IsSeq(cli_box'[c]) /\ Len(cli_box'[c]) = 1 /\ cli_box'[c][1] = rep
      /\ cli_box'[c] # << >>
  BY <1>6 DEF IsSeq, ToSet
<1>8. NetTypeOK'
  BY <1>1, <1>2, <1>6, <1>7 DEF NetTypeOK, IsMessage
<1>9. OpsOK'
  BY <1>2 DEF OneInv, OpsOK, myVars
<1>10. /\ StoreOK(store[0]) /\ StoreOK(store'[0]) /\ Grown(store[0], store'[0])
       /\ store' \in [Server -> Store]
  BY <1>1, <1>2, <1>4, <1>6 DEF OneInv, Served, st, StoreOK
<1>11. ASSUME NEW d \in Client, d # c PROVE ClientOK(d)'
  BY <1>2, <1>6, <1>10, <1>11, ClientKept DEF OneInv, myVars
<1>12. ClientOK(c)'
  <2>1. /\ call' = call /\ op' = op /\ Open_files_list' = Open_files_list
        /\ Open_files' = Open_files
    BY <1>2 DEF myVars
  <2>2. FilesOK(Open_files_list'[c], store'[0])
    BY <1>3, <1>10, <2>1, FilesStayOK DEF ClientOK
  <2>3. LinkOK(c)'
    <3>1. Waiting(c)' = Waiting(c)
      BY <2>1 DEF Waiting
    <3>2. \A m \in srv_box'[0] : m.from # c
      BY <1>1, <1>3, <1>6 DEF ClientOK, LinkOK, NetTypeOK, IsMessage
    <3>3. RequestOK(call'[c].req, store'[0])
      BY <1>3, <1>10, <2>1, StaysOK DEF st
    <3>4. AnswerOK(call'[c].req, cli_box'[c][1].answer, store'[0])
      BY <1>3, <1>4, <1>5, <1>6, <1>7, <2>1 DEF Served
    <3>5. call'[c].got = << >>
      BY <1>3, <2>1 DEF ClientOK, LinkOK
    <3> QED
      BY <1>3, <1>5, <1>7, <2>1, <3>1, <3>2, <3>3, <3>4, <3>5 DEF LinkOK
  <2>4. WrittenOK(c, cli_box[c][1].answer)'
    <3> DEFINE fd == FileOf(Open_files_list[c], op[c].file)
    <3> SUFFICES ASSUME op[c].at = "write", served.answer.ok
                 PROVE  fd.read_offset <= served.answer.size
      BY <1>5, <1>7, <2>1 DEF WrittenOK
    <3>1. WritingOK(op[c], Open_files_list[c], msg.req)
      BY <1>3 DEF ClientOK, OpOK
    <3>2. FileOK(fd, st) /\ msg.req.file = fd.fileId /\ msg.req.type = "write"
      <4>1. queue_node_get(Open_files_list[c], op[c].file) \in DOMAIN Open_files_list[c]
        BY <1>3, <3>1, FirstIs DEF WritingOK, ClientOK, FilesOK
      <4>2. FileOK(fd, st)
        BY <1>3, <4>1 DEF ClientOK, FilesOK, FileOf, st
      <4>3. msg.req = WriteRequest(fd, op[c].left)
        BY <3>1 DEF WritingOK
      <4> QED
        BY <4>2, <4>3 DEF WriteRequest, Write
    <3> HIDE DEF fd
    <3>3. /\ served.answer.size = SizeOf(served.store, msg.req.file)
          /\ fd.read_offset \in Nat /\ fd.read_offset <= SizeOf(st, fd.fileId)
          /\ fd.fileId \in Used(st)
      BY <1>4, <3>2 DEF Served, FileOK
    <3>4. /\ SizeOf(st, fd.fileId) \in Nat /\ SizeOf(served.store, fd.fileId) \in Nat
          /\ SizeOf(st, fd.fileId) <= SizeOf(served.store, fd.fileId)
      BY <1>4, <1>6, <1>10, <3>3, SizesAre DEF Grown, Served, Used, st
    <3> QED
      BY <3>2, <3>3, <3>4
  <2>5. OpOK(op'[c], Open_files_list'[c], call'[c].req, store'[0])
        /\ Open_files'[c] = Len(Open_files_list'[c])
    BY <1>3, <1>10, <2>1, OpStaysOK DEF ClientOK
  <2>6. CreatedOK(op'[c], cli_box'[c][1].answer, store'[0])
    <3>1. served = Serve(st, msg.req) /\ OpOK(op[c], Open_files_list[c], msg.req, st)
      BY <1>3 DEF ClientOK, served, st
    <3>2. CreatedOK(op[c], served.answer, st)
      BY <3>1, ServeCreates
    <3> QED
      BY <1>5, <1>7, <1>10, <2>1, <3>2, OpStaysOK DEF st
  <2> QED
    BY <2>2, <2>3, <2>4, <2>5, <2>6 DEF ClientOK
<1>13. /\ DOMAIN Open_files_list' = Client /\ DOMAIN Open_files' = Client
  BY DEF OneInv, myVars
<1> QED
  BY <1>1, <1>2, <1>6, <1>8, <1>9, <1>10, <1>11, <1>12, <1>13 DEF OneInv

LEMMA OneStop ==
  ASSUME OneInv, NEW s \in Server, Stop(s), UNCHANGED myVars
  PROVE  OneInv'
<1>1. NetTypeOK /\ Server = {0} /\ s = 0
  BY ServerIs DEF OneInv
<1>2. /\ s \in up /\ up' = up \ {s}
      /\ srv_box' = [srv_box EXCEPT ![s] = {}]
      /\ UNCHANGED <<Num_servers, store, cli_box, next_sn, rr_index, call>>
      /\ op' = op /\ Open_files_list' = Open_files_list /\ Open_files' = Open_files
  BY DEF Stop, myVars
<1>3. Server' = Server
  BY <1>2 DEF Server
<1>4. srv_box'[0] = {} /\ DOMAIN srv_box' = Server
  BY <1>1, <1>2 DEF NetTypeOK
<1>5. NetTypeOK'
  BY <1>1, <1>2, <1>3, <1>4 DEF NetTypeOK, IsMessage
<1>6. OpsOK'
  BY <1>2 DEF OneInv, OpsOK
<1>7. ASSUME NEW d \in Client PROVE ClientOK(d)'
  BY <1>2, <1>4, ClientKept, GrownSame DEF OneInv
<1> QED
  BY <1>2, <1>3, <1>5, <1>6, <1>7 DEF OneInv

\* The first answer is the last one.
LEMMA OneRecv ==
  ASSUME OneInv, NEW c \in Client, Recv(c)
  PROVE  FALSE
<1>1. Arrived(c) /\ ~IsLast(c) /\ LinkOK(c) /\ Num_servers = 1
  BY DEF Recv, OneInv, ClientOK
<1>2. Needed(c) = 1
  BY <1>1 DEF Needed
<1>3. IsAnswer(c, Head(cli_box[c])) /\ Len(call[c].got) = 0
  BY <1>1 DEF LinkOK, Arrived, IsAnswer
<1> QED
  BY <1>1, <1>2, <1>3 DEF IsLast

-----------------------------------------------------------------------------
(* Steps of a client.                                                      *)

FilesBecome(c, fds) ==
    /\ DOMAIN Open_files_list' = Client /\ DOMAIN Open_files' = Client
    /\ Open_files_list'[c] = fds /\ Open_files'[c] = Len(fds)
    /\ \A d \in Client : d # c => /\ Open_files_list'[d] = Open_files_list[d]
                                  /\ Open_files'[d] = Open_files[d]

\* Client c has got what was under way for it, and goes on with locals o and files
\* fds.
GoesTo(c, o, fds) ==
    /\ BoxTaken(c) /\ cli_box'[c] = << >> /\ \A m \in srv_box[0] : m.from # c
    /\ UNCHANGED <<Num_servers, up, store>>
    /\ OpGoes(c, o) /\ FilesBecome(c, fds)
    /\ FilesOK(fds, store[0])

LEMMA OneSends ==
  ASSUME OneInv, NEW c \in Client, NEW o, NEW fds, GoesTo(c, o, fds),
         NEW req, NEW all \in BOOLEAN, Issue(c, req, all),
         req # NoRequest, RequestOK(req, store[0]), OpOK(o, fds, req, store[0])
  PROVE  OneInv'
<1> DEFINE to == ToSet(Targets(c, all))
           n == next_sn[c]
           msg == Message(c, req)
<1>1. /\ NetTypeOK /\ OpsOK /\ Server = {0} /\ Num_servers = 1 /\ StoreOK(store[0])
      /\ store' = store /\ up' = up /\ Num_servers' = Num_servers
  BY ServerIs DEF OneInv, GoesTo
<1>2. NetTypeOK'
  BY <1>1, IssueTyped DEF GoesTo
<1>3. /\ srv_box' = [s \in Server |->
                       srv_box[s] \cup IF s \in Reached(c, all) THEN {msg} ELSE {}]
      /\ call' = [call EXCEPT ![c] = [req |-> req, sn |-> n, all |-> all,
                                      sent |-> to \subseteq up, got |-> << >>]]
  BY DEF Issue
<1>4. 0 \in Reached(c, all) => to \subseteq up
  BY <1>1, TargetsCounted, AllReached
<1>5. msg.from = c /\ msg.sn = n /\ msg.req = req
  BY DEF Message
<1> HIDE DEF msg, to
<1>6. \A m \in srv_box'[0] : m \in srv_box[0] \/ (m = msg /\ to \subseteq up)
  BY <1>1, <1>3, <1>4
<1>7. /\ call'[c].req = req /\ call'[c].sn = n /\ call'[c].sent = (to \subseteq up)
      /\ call'[c].got = << >> /\ \A d \in Client : d # c => call'[d] = call[d]
  BY <1>1, <1>3 DEF NetTypeOK
<1>8. /\ op'[c] = o /\ DOMAIN op' = Client /\ DOMAIN o = OpFields
      /\ \A d \in Client : d # c => op'[d] = op[d]
  BY <1>1 DEF GoesTo, OpGoes, OpsOK
<1>9. OpsOK'
  <2>1. o.at \in Resting => req = NoRequest
    BY DEF OpOK
  <2> QED
    BY <1>1, <1>7, <1>8, <2>1 DEF OpsOK
<1>10. ASSUME NEW d \in Client, d # c PROVE ClientOK(d)'
  <2>1. cli_box'[d] = cli_box[d]
    BY <1>1, <1>10, BoxTakenFrom DEF GoesTo
  <2>2. \A m \in srv_box'[0] : m.from = d => m \in srv_box[0]
    BY <1>5, <1>6, <1>10
  <2>3. ClientOK(d) /\ Open_files_list'[d] = Open_files_list[d]
        /\ Open_files'[d] = Open_files[d]
    BY <1>10 DEF OneInv, GoesTo, FilesBecome
  <2> QED
    BY <1>1, <1>7, <1>8, <1>10, <2>1, <2>2, <2>3, ClientKept, GrownSame
<1>11. ClientOK(c)'
  <2>1. LinkOK(c)'
    <3>1. \A m \in srv_box'[0] : m.from = c => m = msg /\ to \subseteq up
      BY <1>6 DEF GoesTo
    <3>2. to \subseteq up => Waiting(c)'
      BY <1>7 DEF Waiting
    <3> QED
      BY <1>1, <1>5, <1>7, <3>1, <3>2 DEF LinkOK, GoesTo
  <2> QED
    BY <1>1, <1>7, <1>8, <2>1 DEF ClientOK, GoesTo, FilesBecome
<1>12. store' \in [Server' -> Store] /\ StoreOK(store'[0]) /\ Num_servers' = 1
  BY <1>1 DEF OneInv, Server
<1> QED
  BY <1>2, <1>9, <1>10, <1>11, <1>12 DEF OneInv, GoesTo, FilesBecome

LEMMA OneEnds ==
  ASSUME OneInv, NEW c \in Client, NEW o, NEW fds, GoesTo(c, o, fds),
         call' = [call EXCEPT ![c] = NoCall] \/ (call' = call /\ call[c].req = NoRequest),
         UNCHANGED <<srv_box, next_sn, rr_index>>,
         OpOK(o, fds, NoRequest, store[0])
  PROVE  OneInv'
<1>1. /\ NetTypeOK /\ OpsOK /\ Server = {0} /\ Num_servers = 1 /\ StoreOK(store[0])
      /\ store' = store /\ up' = up /\ Num_servers' = Num_servers
  BY ServerIs DEF OneInv, GoesTo
<1>2. Server' = Server
  BY <1>1 DEF Server
<1>3. /\ DOMAIN call' = Client /\ \A d \in Client : d # c => call'[d] = call[d]
      /\ call'[c] = call[c] \/ call'[c] = NoCall
      /\ call'[c].req = NoRequest /\ call'[c].got = << >>
  <2>1. call[c].got = << >>
    BY DEF OneInv, ClientOK, LinkOK
  <2>2. NoCall.req = NoRequest /\ NoCall.got = << >>
    BY DEF NoCall
  <2> QED
    BY <1>1, <2>1, <2>2 DEF NetTypeOK
<1>4. /\ DOMAIN NoCall = {"req", "sn", "all", "sent", "got"}
      /\ NoCall.all \in BOOLEAN /\ IsSeq(NoCall.got)
  BY DEF NoCall, IsSeq, ToSet
<1>5. /\ DOMAIN cli_box' = Client
      /\ \A d \in Client : IsSeq(cli_box'[d]) /\ (d # c => cli_box'[d] = cli_box[d])
  BY <1>1, BoxTakenFrom DEF GoesTo
<1>6. NetTypeOK'
  <2>1. \A d \in Client : /\ DOMAIN call'[d] = {"req", "sn", "all", "sent", "got"}
                          /\ call'[d].all \in BOOLEAN
                          /\ IsSeq(call'[d].got)
    BY <1>1, <1>3, <1>4 DEF NetTypeOK
  <2> QED
    BY <1>1, <1>2, <1>3, <1>5, <2>1 DEF NetTypeOK, IsMessage
<1>7. /\ op'[c] = o /\ DOMAIN op' = Client /\ DOMAIN o = OpFields
      /\ \A d \in Client : d # c => op'[d] = op[d]
  BY <1>1 DEF GoesTo, OpGoes, OpsOK
<1>8. OpsOK'
  BY <1>1, <1>3, <1>7 DEF OpsOK
<1>9. ASSUME NEW d \in Client, d # c PROVE ClientOK(d)'
  <2>1. /\ ClientOK(d) /\ Open_files_list'[d] = Open_files_list[d]
        /\ Open_files'[d] = Open_files[d]
    BY <1>9 DEF OneInv, GoesTo, FilesBecome
  <2> QED
    BY <1>1, <1>3, <1>5, <1>7, <1>9, <2>1, ClientKept, GrownSame
<1>10. ClientOK(c)'
  <2>1. LinkOK(c)'
    BY <1>3 DEF LinkOK, GoesTo
  <2> QED
    BY <1>1, <1>3, <1>7, <2>1 DEF ClientOK, GoesTo, FilesBecome
<1>11. store' \in [Server' -> Store] /\ StoreOK(store'[0]) /\ Num_servers' = 1
  BY <1>1, <1>2 DEF OneInv
<1> QED
  BY <1>6, <1>8, <1>9, <1>10, <1>11 DEF OneInv, GoesTo, FilesBecome

\* A client that is in no function has nothing under way, and a call that returns
\* leaves nothing.
LEMMA IdleGoesTo ==
  ASSUME OneInv, NEW c \in Client, op[c].at = "idle", cli_box' = cli_box,
         UNCHANGED <<Num_servers, up, store>>, NEW o, OpGoes(c, o),
         NEW fds, FilesBecome(c, fds), FilesOK(fds, store[0])
  PROVE  GoesTo(c, o, fds) /\ call[c].req = NoRequest
<1>1. call[c].req = NoRequest
  BY DEF OneInv, OpsOK, Resting
<1>2. ~Waiting(c) /\ LinkOK(c)
  BY <1>1 DEF Waiting, OneInv, ClientOK
<1>3. cli_box[c] = << >> /\ \A m \in srv_box[0] : m.from # c
  BY <1>2 DEF LinkOK
<1> QED
  BY <1>1, <1>3 DEF GoesTo, BoxTaken

LEMMA ReturnGoesTo ==
  ASSUME OneInv, NEW c \in Client, Returns(c), TakeLast(c), NEW o, OpGoes(c, o),
         NEW fds, FilesBecome(c, fds), FilesOK(fds, store[0])
  PROVE  GoesTo(c, o, fds)
BY ResultIs DEF GoesTo

LEMMA SameFilesAre ==
  ASSUME OneInv, NEW c \in Client, SameFiles
  PROVE  /\ FilesBecome(c, Open_files_list[c])
         /\ FilesOK(Open_files_list[c], store[0])
BY DEF OneInv, ClientOK, SameFiles, FilesBecome

LEMMA RestingOK ==
  ASSUME NEW o, o.at \in Resting, o.left \in Nat,
         o.from \in Nat, o.buffer \in Seq(Nat), InOrder(o.buffer, o.from), NEW fds
  PROVE  OpOK(o, fds, NoRequest, store[0])
BY DEF OpOK, Resting, Label, Opening, Making

LEMMA OneReturns ==
  ASSUME OneInv, NEW c \in Client, Returns(c), TakeLast(c), EndCall(c),
         NEW o, OpGoes(c, o), NEW fds, FilesBecome(c, fds), FilesOK(fds, store[0]),
         OpOK(o, fds, NoRequest, store[0])
  PROVE  OneInv'
<1>1. GoesTo(c, o, fds)
  BY ReturnGoesTo
<1> QED
  BY <1>1, OneEnds DEF EndCall

LEMMA OneBack ==
  ASSUME OneInv, NEW c \in Client, NEW label, Back(c, label), Return(c),
         NEW fds, FilesBecome(c, fds), FilesOK(fds, store[0])
  PROVE  OneInv'
<1> DEFINE o == [op[c] EXCEPT !.at = "idle"]
<1>1. OpOK(op[c], Open_files_list[c], call[c].req, store[0]) /\ DOMAIN op[c] = OpFields
  BY DEF OneInv, ClientOK, OpsOK
<1>2. /\ o.at = "idle" /\ o.left = op[c].left /\ o.from = op[c].from
      /\ o.buffer = op[c].buffer /\ DOMAIN o = OpFields
  BY <1>1 DEF OpFields
<1>3. op' = [op EXCEPT ![c] = o] /\ EndCall(c) /\ Returns(c) /\ TakeLast(c)
  BY DEF Return, Goto, Back
<1> HIDE DEF o
<1>4. OpOK(o, fds, NoRequest, store[0])
  BY <1>1, <1>2, RestingOK DEF OpOK, Resting
<1>5. OpGoes(c, o)
  BY <1>2, <1>3 DEF OpGoes
<1> QED
  BY <1>3, <1>4, <1>5, OneReturns

LEMMA OneStarts ==
  ASSUME OneInv, NEW c \in Client, NEW o, NEW req, NEW all \in BOOLEAN,
         Begin(c, o, req, all), SameFiles, DOMAIN o = OpFields,
         req # NoRequest, RequestOK(req, store[0]), OpOK(o, Open_files_list[c], req, store[0])
  PROVE  OneInv'
<1>1. /\ op[c].at = "idle" /\ cli_box' = cli_box /\ UNCHANGED <<Num_servers, up, store>>
      /\ OpGoes(c, o) /\ Issue(c, req, all)
  BY DEF Begin, Goto, OpGoes
<1>2. GoesTo(c, o, Open_files_list[c])
  BY <1>1, SameFilesAre, IdleGoesTo
<1> QED
  BY <1>1, <1>2, OneSends

LEMMA OneGoesOn ==
  ASSUME OneInv, NEW c \in Client, NEW label, Back(c, label),
         NEW o, NEW req, NEW all \in BOOLEAN, Next_call(c, o, req, all),
         NEW fds, FilesBecome(c, fds), FilesOK(fds, store[0]), DOMAIN o = OpFields,
         req # NoRequest, RequestOK(req, store[0]), OpOK(o, fds, req, store[0])
  PROVE  OneInv'
<1>1. Returns(c) /\ TakeLast(c) /\ OpGoes(c, o) /\ Issue(c, req, all)
  BY DEF Back, Next_call, Goto, OpGoes
<1>2. GoesTo(c, o, fds)
  BY <1>1, ReturnGoesTo
<1> QED
  BY <1>1, <1>2, OneSends

\* Labels, but for those of my_read and my_write, and what a client waits for there.
Remote == Label \ {"idle", "exited", "read", "write"}

LEMMA LabelsAre ==
  ASSUME NEW o, o.at \in Remote,
         o.left \in Nat, o.from \in Nat, o.buffer \in Seq(Nat), InOrder(o.buffer, o.from),
         NEW fds, NEW req, req.type = RequestType(o.at), req # NoRequest,
         o.at \in Opening =>
            /\ o.path \in OpenPath /\ o.fsize \in Nat /\ Len(fds) < MAX_OPEN_FILES
            /\ OpeningOK(o, req, store[0]),
         o.at \in Making => o.path \in DirPath
  PROVE  OpOK(o, fds, req, store[0])
BY DEF OpOK, Resting, Remote

LEMMA IdleIs ==
  /\ DOMAIN Idle = OpFields
  /\ Idle.left = 0 /\ Idle.fsize = 0 /\ Idle.from = 0 /\ Idle.buffer = << >>
  /\ InOrder(<< >>, 0) /\ << >> \in Seq(Nat)
BY DEF Idle, OpFields, InOrder

-----------------------------------------------------------------------------
(* A function is called.                                                   *)

LEMMA OneOpen ==
  ASSUME OneInv, NEW c \in Client, NEW p \in OpenPath, NEW create, my_open(c, p, create)
  PROVE  OneInv'
<1> DEFINE o == [Idle EXCEPT !.at = "open", !.path = p, !.create = create]
<1>1. /\ Begin(c, o, LookupRequest(p), FALSE) /\ SameFiles /\ ~TooManyOpen(c)
      /\ myparse(p)
  BY DEF my_open
<1>2. /\ DOMAIN o = OpFields /\ o.at = "open" /\ o.path = p
      /\ o.fsize = 0 /\ o.left = 0 /\ o.from = 0 /\ o.buffer = << >>
  BY IdleIs DEF OpFields
<1> HIDE DEF o
<1>3. Len(Open_files_list[c]) < MAX_OPEN_FILES
  <2>1. Open_files[c] = Len(Open_files_list[c]) /\ IsSeq(Open_files_list[c])
    BY DEF OneInv, ClientOK, FilesOK
  <2>2. Len(Open_files_list[c]) \in Nat
    BY <2>1 DEF IsSeq
  <2> QED
    BY <1>1, <2>1, <2>2, MyFsAssumption DEF TooManyOpen
<1>4. LookupRequest(p).type = RequestType("open")
  BY SearchesOK DEF RequestType, Searching
<1>5. LookupRequest(p) # NoRequest /\ RequestOK(LookupRequest(p), store[0])
  BY SearchesOK, PathsAreTexts, RequestsAreSome
<1>6. OpOK(o, Open_files_list[c], LookupRequest(p), store[0])
  <2>1. o.at \in Remote /\ o.at \notin Making /\ o.left \in Nat /\ o.from \in Nat
        /\ o.fsize \in Nat
    BY <1>2 DEF Remote, Label, Making
  <2>2. o.buffer \in Seq(Nat) /\ InOrder(o.buffer, o.from)
    BY <1>2, IdleIs
  <2>3. OpeningOK(o, LookupRequest(p), store[0])
    BY <1>1, <1>2 DEF OpeningOK
  <2> QED
    BY <1>2, <1>3, <1>4, <1>5, <2>1, <2>2, <2>3, LabelsAre
<1> QED
  BY <1>1, <1>2, <1>5, <1>6, OneStarts

LEMMA OneMkdir ==
  ASSUME OneInv, NEW c \in Client, NEW p \in DirPath, my_mkdir(c, p)
  PROVE  OneInv'
<1> DEFINE o == [Idle EXCEPT !.at = "mkdir", !.path = p]
<1>1. Begin(c, o, LookupRequest(p), FALSE) /\ SameFiles
  BY DEF my_mkdir
<1>2. /\ DOMAIN o = OpFields /\ o.at = "mkdir" /\ o.path = p
      /\ o.left = 0 /\ o.from = 0 /\ o.buffer = << >>
  BY IdleIs DEF OpFields
<1> HIDE DEF o
<1>3. LookupRequest(p).type = RequestType("mkdir")
  BY SearchesOK DEF RequestType, Searching
<1>4. LookupRequest(p) # NoRequest /\ RequestOK(LookupRequest(p), store[0])
  BY SearchesOK, PathsAreTexts, RequestsAreSome
<1>5. OpOK(o, Open_files_list[c], LookupRequest(p), store[0])
  <2>1. o.at \in Remote /\ o.at \notin Opening /\ o.left \in Nat /\ o.from \in Nat
    BY <1>2 DEF Remote, Label, Opening
  <2>2. o.buffer \in Seq(Nat) /\ InOrder(o.buffer, o.from)
    BY <1>2, IdleIs
  <2> QED
    BY <1>2, <1>3, <1>4, <2>1, <2>2, LabelsAre
<1> QED
  BY <1>1, <1>2, <1>4, <1>5, OneStarts

LEMMA OneListdir ==
  ASSUME OneInv, NEW c \in Client, NEW p \in ListPath, my_listdir(c, p)
  PROVE  OneInv'
<1> DEFINE o == [Idle EXCEPT !.path = p]
           root == [o EXCEPT !.at = "list_dir"]
           other == [o EXCEPT !.at = "list"]
<1>1. /\ SameFiles
      /\ \/ Begin(c, root, ListRequest(ROOT), FALSE)
         \/ Begin(c, other, LookupRequest(p), FALSE)
  BY DEF my_listdir
<1>2. /\ DOMAIN root = OpFields /\ root.at = "list_dir"
      /\ root.left = 0 /\ root.from = 0 /\ root.buffer = << >>
      /\ DOMAIN other = OpFields /\ other.at = "list"
      /\ other.left = 0 /\ other.from = 0 /\ other.buffer = << >>
  BY IdleIs DEF OpFields
<1> HIDE DEF root, other
<1>3. /\ ListRequest(ROOT).type = RequestType("list_dir")
      /\ LookupRequest(p).type = RequestType("list")
  BY SearchesOK DEF RequestType, Searching
<1>4. /\ ListRequest(ROOT) # NoRequest /\ RequestOK(ListRequest(ROOT), store[0])
      /\ LookupRequest(p) # NoRequest /\ RequestOK(LookupRequest(p), store[0])
  BY SearchesOK, PathsAreTexts, RequestsAreSome
<1>5. /\ OpOK(root, Open_files_list[c], ListRequest(ROOT), store[0])
      /\ OpOK(other, Open_files_list[c], LookupRequest(p), store[0])
  <2>1. ASSUME NEW local, local \in {root, other}
        PROVE  /\ local.at \in Remote /\ local.at \notin Opening /\ local.at \notin Making
               /\ local.left \in Nat /\ local.from \in Nat
               /\ local.buffer \in Seq(Nat) /\ InOrder(local.buffer, local.from)
    <3>1. local.at \in {"list_dir", "list"} /\ local.left = 0 /\ local.from = 0
          /\ local.buffer = << >>
      BY <1>2, <2>1
    <3> QED
      BY <3>1, IdleIs DEF Remote, Label, Opening, Making
  <2>2. OpOK(root, Open_files_list[c], ListRequest(ROOT), store[0])
    BY <1>2, <1>3, <1>4, <2>1, LabelsAre
  <2>3. OpOK(other, Open_files_list[c], LookupRequest(p), store[0])
    BY <1>2, <1>3, <1>4, <2>1, LabelsAre
  <2> QED
    BY <2>2, <2>3
<1> QED
  BY <1>1, <1>2, <1>4, <1>5, OneStarts

LEMMA OneClose ==
  ASSUME OneInv, NEW c \in Client, NEW id, my_close(c, id)
  PROVE  OneInv'
<1> DEFINE fds == queue_node_remove(Open_files_list[c], id)
<1>1. /\ op[c].at = "idle" /\ queue_node_search(Open_files_list[c], id)
      /\ Open_files_list' = [Open_files_list EXCEPT ![c] = fds]
      /\ Open_files' = [Open_files EXCEPT ![c] = @ - 1]
      /\ op' = [op EXCEPT ![c] = Idle]
      /\ UNCHANGED <<Num_servers, up, store, srv_box, cli_box, next_sn, rr_index, call>>
  BY DEF my_close, Goto, rcVars
<1>2. /\ DOMAIN Open_files_list = Client /\ DOMAIN Open_files = Client
      /\ FilesOK(Open_files_list[c], store[0])
      /\ Open_files[c] = Len(Open_files_list[c])
  BY DEF OneInv, ClientOK
<1>3. FilesOK(fds, store[0]) /\ Len(fds) = Len(Open_files_list[c]) - 1
  BY <1>1, <1>2, RemoveIs
<1> HIDE DEF fds
<1>4. FilesBecome(c, fds)
  BY <1>1, <1>2, <1>3 DEF FilesBecome
<1>5. OpGoes(c, Idle) /\ OpOK(Idle, fds, NoRequest, store[0])
  <2>1. Idle.at \in Resting /\ Idle.left \in Nat /\ Idle.from \in Nat
    BY IdleIs DEF Idle, Resting
  <2>2. Idle.buffer \in Seq(Nat) /\ InOrder(Idle.buffer, Idle.from)
    BY IdleIs
  <2> QED
    BY <1>1, <2>1, <2>2, IdleIs, RestingOK DEF OpGoes
<1>6. GoesTo(c, Idle, fds) /\ call[c].req = NoRequest
  BY <1>1, <1>3, <1>4, <1>5, IdleGoesTo
<1> QED
  BY <1>1, <1>5, <1>6, OneEnds

-----------------------------------------------------------------------------
(* Reading and writing.                                                    *)

LEMMA AsksToRead ==
  ASSUME NEW st, NEW fd, FileOK(fd, st), NEW n \in Nat
  PROVE  /\ RequestOK(ReadRequest(fd, n), st)
         /\ ReadRequest(fd, n).type = "read" /\ ReadRequest(fd, n) # NoRequest
         /\ ReadRequest(fd, n).file = fd.fileId
         /\ ReadRequest(fd, n).offset = fd.read_offset
         /\ ReadRequest(fd, n).count \in Nat /\ ReadRequest(fd, n).count <= n
<1> DEFINE m == Min({MAX_READ_DATA, n})
<1>1. MAX_READ_DATA \in Nat /\ n \in Int
  BY HandlersAssumption
<1>2. m = IF MAX_READ_DATA <= n THEN MAX_READ_DATA ELSE n
  BY <1>1, SmallerIs
<1> HIDE DEF m
<1>3. m \in Nat /\ m <= n
  BY <1>1, <1>2
<1>4. /\ ReadRequest(fd, n).type = "read" /\ ReadRequest(fd, n).file = fd.fileId
      /\ ReadRequest(fd, n).offset = fd.read_offset /\ ReadRequest(fd, n).count = m
  BY DEF ReadRequest, Read, m
<1> QED
  BY <1>3, <1>4, RequestsAreSome DEF RequestOK, FileOK

\* The bytes that go with one request.
PartLen(n) == Min({MAX_WRITE_DATA, n})

LEMMA AsksToWrite ==
  ASSUME NEW st, NEW fd, FileOK(fd, st), NEW n \in Nat
  PROVE  /\ RequestOK(WriteRequest(fd, n), st)
         /\ WriteRequest(fd, n).type = "write" /\ WriteRequest(fd, n) # NoRequest
         /\ WriteRequest(fd, n).file = fd.fileId
         /\ WriteRequest(fd, n).offset = fd.write_offset
         /\ Len(WriteRequest(fd, n).data) = PartLen(n)
         /\ PartLen(n) \in Nat /\ PartLen(n) <= n
<1> DEFINE m == Min({MAX_WRITE_DATA, n})
           o == fd.write_offset
           data == [k \in 1 .. m |-> o + k]
<1>1. MAX_WRITE_DATA \in Nat /\ n \in Int
  BY HandlersAssumption
<1>2. m = IF MAX_WRITE_DATA <= n THEN MAX_WRITE_DATA ELSE n
  BY <1>1, SmallerIs
<1>3. o \in Nat /\ o <= SizeOf(st, fd.fileId) /\ fd.fileId \in Used(st)
  BY DEF FileOK
<1>4. WriteRequest(fd, n) = Write(fd.fileId, o, data)
  BY DEF WriteRequest, WriteAt
<1> HIDE DEF m
<1>5. m \in Nat /\ m <= n
  BY <1>1, <1>2
<1>6. data \in Seq(Nat) /\ Len(data) = m /\ DOMAIN data = 1 .. m
  <2>1. \A k \in 1 .. m : o + k \in Nat
    BY <1>3, <1>5
  <2> HIDE DEF o
  <2> QED
    BY <1>5, <2>1
<1>7. InOrder(data, o)
  BY DEF InOrder
<1> HIDE DEF data, o
<1>8. /\ WriteRequest(fd, n).type = "write" /\ WriteRequest(fd, n).file = fd.fileId
      /\ WriteRequest(fd, n).offset = o /\ WriteRequest(fd, n).data = data
  BY <1>4 DEF Write
<1> QED
  BY <1>3, <1>5, <1>6, <1>7, <1>8, RequestsAreSome DEF RequestOK, PartLen, o, m

Joined(a, b) == a \o b

LEMMA JoinedIs ==
  ASSUME NEW a \in Seq(Nat), NEW b \in Seq(Nat), NEW from \in Nat,
         InOrder(a, from), InOrder(b, from + Len(a))
  PROVE  /\ Joined(a, b) \in Seq(Nat) /\ Len(Joined(a, b)) = Len(a) + Len(b)
         /\ InOrder(Joined(a, b), from)
<1> DEFINE j == Joined(a, b)
<1>1. Len(a) \in Nat /\ Len(b) \in Nat /\ DOMAIN a = 1 .. Len(a) /\ DOMAIN b = 1 .. Len(b)
  OBVIOUS
<1>2. /\ j \in Seq(Nat) /\ Len(j) = Len(a) + Len(b)
      /\ \A k \in 1 .. Len(a) + Len(b) :
            j[k] = IF k <= Len(a) THEN a[k] ELSE b[k - Len(a)]
  BY DEF Joined
<1>3. DOMAIN j = 1 .. Len(a) + Len(b)
  BY <1>2
<1> HIDE DEF j
<1>4. ASSUME NEW k \in 1 .. Len(a) + Len(b) PROVE j[k] = from + k
  <2>1. CASE k <= Len(a)
    <3>1. k \in DOMAIN a
      BY <1>1, <2>1
    <3>2. a[k] = from + k
      BY <3>1 DEF InOrder
    <3> QED
      BY <1>2, <2>1, <3>2
  <2>2. CASE ~(k <= Len(a))
    <3>1. k - Len(a) \in DOMAIN b /\ (from + Len(a)) + (k - Len(a)) = from + k
      BY <1>1, <2>2
    <3> QED
      BY <1>2, <2>2, <3>1 DEF InOrder
  <2> QED
    BY <2>1, <2>2
<1>5. InOrder(j, from)
  BY <1>3, <1>4 DEF InOrder
<1> QED
  BY <1>2, <1>5 DEF j

\* The file that a client reads or writes.
LEMMA FileIs ==
  ASSUME OneInv, NEW c \in Client, NEW id, queue_node_search(Open_files_list[c], id)
  PROVE  /\ FileOK(FileOf(Open_files_list[c], id), store[0])
         /\ FileOf(Open_files_list[c], id).fileId = id
         /\ fdesc(c, id) = FileOf(Open_files_list[c], id)
<1>1. FilesOK(Open_files_list[c], store[0])
  BY DEF OneInv, ClientOK
<1>2. /\ queue_node_get(Open_files_list[c], id) \in DOMAIN Open_files_list[c]
      /\ FileOf(Open_files_list[c], id).fileId = id
  BY <1>1, FirstIs DEF FilesOK
<1> QED
  BY <1>1, <1>2 DEF FilesOK, FileOf, fdesc

LEMMA SetFileIs ==
  ASSUME OneInv, NEW c \in Client, queue_node_search(Open_files_list[c], op[c].file),
         NEW fd, FileOK(fd, store[0]), fd.fileId = op[c].file, SetFile(c, fd)
  PROVE  LET fds == Reset(Open_files_list[c], op[c].file, fd)
         IN  /\ FilesBecome(c, fds) /\ FilesOK(fds, store[0])
             /\ queue_node_search(fds, op[c].file) /\ FileOf(fds, op[c].file) = fd
<1> DEFINE fds == Reset(Open_files_list[c], op[c].file, fd)
<1>1. /\ FilesOK(Open_files_list[c], store[0]) /\ Open_files[c] = Len(Open_files_list[c])
      /\ DOMAIN Open_files_list = Client /\ DOMAIN Open_files = Client
  BY DEF OneInv, ClientOK
<1>2. /\ FilesOK(fds, store[0]) /\ queue_node_search(fds, op[c].file)
      /\ FileOf(fds, op[c].file) = fd /\ Len(fds) = Len(Open_files_list[c])
  BY <1>1, ResetIs
<1>3. Open_files_list' = [Open_files_list EXCEPT ![c] = fds] /\ Open_files' = Open_files
  BY <1>1 DEF SetFile, Reset
<1> HIDE DEF fds
<1>4. FilesBecome(c, fds)
  BY <1>1, <1>2, <1>3 DEF FilesBecome
<1> QED
  BY <1>2, <1>4 DEF fds

LEMMA OneRead ==
  ASSUME OneInv, NEW c \in Client, NEW id, NEW n \in Count, my_read(c, id, n)
  PROVE  OneInv'
<1> DEFINE fds == Open_files_list[c]
           fd == FileOf(fds, id)
           num == InSize(fd, n)
           o == [Idle EXCEPT !.at = "read", !.file = id, !.left = num,
                             !.from = fd.read_offset]
<1>1. queue_node_search(fds, id)
  BY DEF my_read
<1>2. FileOK(fd, store[0]) /\ fd.fileId = id /\ fdesc(c, id) = fd
  BY <1>1, FileIs
<1>3. Begin(c, o, ReadRequest(fd, num), FALSE) /\ SameFiles
  BY <1>2 DEF my_read
<1>4. num \in Nat /\ fd.read_offset + num <= fd.size /\ fd.read_offset \in Nat
  <2>1. n \in Nat
    BY MyFsAssumption
  <2>2. /\ fd.size \in Nat /\ fd.read_offset \in Nat /\ fd.read_offset <= fd.size
    BY <1>2 DEF FileOK
  <2> HIDE DEF fd
  <2> QED
    BY <2>1, <2>2 DEF InSize
<1>5. /\ DOMAIN o = OpFields /\ o.at = "read" /\ o.file = id /\ o.left = num
      /\ o.from = fd.read_offset /\ o.buffer = << >>
  BY IdleIs DEF OpFields
<1> HIDE DEF o, num, fd
<1>6. /\ RequestOK(ReadRequest(fd, num), store[0])
      /\ ReadRequest(fd, num).type = "read" /\ ReadRequest(fd, num) # NoRequest
  BY <1>2, <1>4, AsksToRead
<1>7. ReadingOK(o, fds, ReadRequest(fd, num))
  <2>1. o.from + Len(o.buffer) = fd.read_offset
    BY <1>4, <1>5
  <2> QED
    BY <1>1, <1>4, <1>5, <2>1 DEF ReadingOK, fd
<1>8. OpOK(o, fds, ReadRequest(fd, num), store[0])
  <2>1. o.buffer \in Seq(Nat) /\ InOrder(o.buffer, o.from)
    BY <1>5 DEF InOrder
  <2>2. /\ o.at \in Label /\ o.at \notin Resting /\ o.at \notin Opening /\ o.at \notin Making
        /\ RequestType(o.at) = "read"
    BY <1>5 DEF Label, Resting, Opening, Making, RequestType, Searching
  <2> QED
    BY <1>4, <1>5, <1>6, <1>7, <2>1, <2>2 DEF OpOK
<1> QED
  BY <1>3, <1>5, <1>6, <1>8, OneStarts

LEMMA OneWrite ==
  ASSUME OneInv, NEW c \in Client, NEW id, NEW n \in Count, my_write(c, id, n)
  PROVE  OneInv'
<1> DEFINE fds == Open_files_list[c]
           fd == FileOf(fds, id)
           o == [Idle EXCEPT !.at = "write", !.file = id, !.left = n]
<1>1. queue_node_search(fds, id)
  BY DEF my_write
<1>2. FileOK(fd, store[0]) /\ fd.fileId = id /\ fdesc(c, id) = fd
  BY <1>1, FileIs
<1>3. Begin(c, o, WriteRequest(fd, n), TRUE) /\ SameFiles
  BY <1>2 DEF my_write
<1>4. n \in Nat
  BY MyFsAssumption
<1>5. /\ DOMAIN o = OpFields /\ o.at = "write" /\ o.file = id /\ o.left = n
      /\ o.from = 0 /\ o.buffer = << >>
  BY IdleIs DEF OpFields
<1> HIDE DEF o, fd
<1>6. /\ RequestOK(WriteRequest(fd, n), store[0])
      /\ WriteRequest(fd, n).type = "write" /\ WriteRequest(fd, n) # NoRequest
  BY <1>2, <1>4, AsksToWrite
<1>7. WritingOK(o, fds, WriteRequest(fd, n))
  BY <1>1, <1>5 DEF WritingOK, fd
<1>8. OpOK(o, fds, WriteRequest(fd, n), store[0])
  <2>1. o.buffer \in Seq(Nat) /\ InOrder(o.buffer, o.from)
    BY <1>5, IdleIs
  <2>2. /\ o.at \in Label /\ o.at \notin Resting /\ o.at \notin Opening /\ o.at \notin Making
        /\ RequestType(o.at) = "write" /\ o.from \in Nat
    BY <1>5 DEF Label, Resting, Opening, Making, RequestType, Searching
  <2> QED
    BY <1>4, <1>5, <1>6, <1>7, <2>1, <2>2 DEF OpOK
<1> QED
  BY <1>3, <1>5, <1>6, <1>8, OneStarts

LEMMA OneReadPart ==
  ASSUME OneInv, NEW c \in Client, ReadPart(c)
  PROVE  OneInv'
<1> DEFINE fds == Open_files_list[c]
           id == op[c].file
           fd == FileOf(fds, id)
           data == Result(c).data
           n == Len(data)
           next == AdvanceRead(fd, n)
           more == Reset(fds, id, next)
           o == [op[c] EXCEPT !.left = @ - n, !.buffer = @ \o data]
           last == [o EXCEPT !.at = "idle"]
           st == store[0]
<1>1. Back(c, "read") /\ Result(c).ok /\ op[c].at = "read" /\ Returns(c) /\ TakeLast(c)
  BY DEF ReadPart, Back
<1>2. /\ OpOK(op[c], fds, call[c].req, store[0]) /\ DOMAIN op[c] = OpFields
      /\ ReadingOK(op[c], fds, call[c].req)
  BY <1>1 DEF OneInv, ClientOK, OpsOK, OpOK
<1>3. /\ queue_node_search(fds, id) /\ call[c].req = ReadRequest(fd, op[c].left)
      /\ fd.read_offset + op[c].left <= fd.size
      /\ op[c].from + Len(op[c].buffer) = fd.read_offset
      /\ op[c].left \in Nat
  BY <1>2 DEF ReadingOK, OpOK
<1>4. FileOK(fd, st) /\ fd.fileId = id /\ fdesc(c, id) = fd
  BY <1>3, FileIs
<1>5. AnswerOK(call[c].req, Result(c), st)
  BY <1>1, ResultIs
<1>6. /\ SetFile(c, next)
      /\ IF o.left = 0 THEN Goto(c, last) /\ EndCall(c)
         ELSE Next_call(c, o, ReadRequest(next, o.left), FALSE)
  BY <1>4 DEF ReadPart
<1>7. /\ DOMAIN o = OpFields /\ o.at = "read" /\ o.file = id
      /\ o.left = op[c].left - n /\ o.from = op[c].from
      /\ o.buffer = Joined(op[c].buffer, data)
      /\ DOMAIN last = OpFields /\ last.at = "idle" /\ last.left = o.left
      /\ last.from = o.from /\ last.buffer = o.buffer
  BY <1>1, <1>2 DEF OpFields, Joined
<1>8. /\ DOMAIN next = FileFields /\ next.fileId = id /\ next.size = fd.size
      /\ next.write_offset = fd.write_offset /\ next.read_offset = fd.read_offset + n
      /\ next.path = fd.path /\ next.new = fd.new
  BY <1>4 DEF AdvanceRead, FileOK, FileFields
<1> HIDE DEF o, last, next, fd, data, id, st
<1>9. /\ data \in Seq(Nat) /\ n \in Nat /\ n <= op[c].left
      /\ InOrder(data, fd.read_offset)
      /\ fd.read_offset + n <= SizeOf(st, fd.fileId)
  <2>1. /\ call[c].req.type = "read" /\ call[c].req.file = fd.fileId
        /\ call[c].req.offset = fd.read_offset
        /\ call[c].req.count \in Nat /\ call[c].req.count <= op[c].left
    BY <1>3, <1>4, AsksToRead
  <2>2. /\ data \in Seq(Nat) /\ n <= call[c].req.count
        /\ InOrder(data, fd.read_offset)
        /\ fd.read_offset + n <= SizeOf(st, fd.fileId)
    BY <1>1, <1>5, <2>1 DEF AnswerOK, data
  <2>3. n \in Nat
    BY <2>2
  <2> QED
    BY <1>3, <2>1, <2>2, <2>3
<1> HIDE DEF n
<1>10. FileOK(next, st) /\ next.read_offset + o.left <= next.size /\ o.left \in Nat
  <2>1. /\ fd.read_offset \in Nat /\ fd.size \in Nat /\ fd.write_offset \in Nat
        /\ fd.write_offset <= fd.size /\ fd.write_offset <= SizeOf(st, fd.fileId)
        /\ fd.fileId \in Used(st)
    BY <1>4 DEF FileOK
  <2>2. o.left \in Nat /\ next.read_offset + o.left <= next.size
    BY <1>3, <1>7, <1>8, <1>9, <2>1
  <2>3. next.read_offset \in Nat /\ next.read_offset <= next.size
    BY <1>3, <1>8, <1>9, <2>1
  <2>4. next.size <= SizeOf(st, next.fileId) \/ NotYetWritten(next)
    <3>1. NotYetWritten(fd) <=> NotYetWritten(next)
      BY <1>8 DEF NotYetWritten
    <3> QED
      BY <1>4, <1>8, <3>1 DEF FileOK
  <2> QED
    BY <1>4, <1>8, <1>9, <2>1, <2>2, <2>3, <2>4 DEF FileOK
<1>11. /\ FilesBecome(c, more) /\ FilesOK(more, st)
       /\ queue_node_search(more, id) /\ FileOf(more, id) = next
  BY <1>3, <1>6, <1>8, <1>10, SetFileIs DEF id, st
<1> HIDE DEF more
<1>12. /\ o.buffer \in Seq(Nat) /\ InOrder(o.buffer, o.from) /\ o.from \in Nat
       /\ o.from + Len(o.buffer) = next.read_offset
  <2>1. /\ op[c].buffer \in Seq(Nat) /\ op[c].from \in Nat
        /\ InOrder(op[c].buffer, op[c].from)
    BY <1>2 DEF OpOK
  <2>2. InOrder(data, op[c].from + Len(op[c].buffer))
    BY <1>3, <1>9
  <2>3. /\ Joined(op[c].buffer, data) \in Seq(Nat)
        /\ Len(Joined(op[c].buffer, data)) = Len(op[c].buffer) + n
        /\ InOrder(Joined(op[c].buffer, data), op[c].from)
    BY <1>9, <2>1, <2>2, JoinedIs DEF n
  <2>4. Len(op[c].buffer) \in Nat
    BY <2>1
  <2> QED
    BY <1>3, <1>7, <1>8, <1>9, <2>1, <2>3, <2>4
<1>13. CASE o.left = 0
  <2>1. OpOK(last, more, NoRequest, store[0])
    BY <1>7, <1>10, <1>12, RestingOK DEF Resting
  <2>2. OpGoes(c, last) /\ EndCall(c)
    BY <1>6, <1>7, <1>13 DEF Goto, OpGoes
  <2> QED
    BY <1>1, <1>11, <2>1, <2>2, OneReturns DEF st
<1>14. CASE o.left # 0
  <2> DEFINE req == ReadRequest(next, o.left)
  <2>1. RequestOK(req, st) /\ req.type = "read" /\ req # NoRequest
    BY <1>10, AsksToRead
  <2>2. ReadingOK(o, more, req)
    BY <1>7, <1>10, <1>11, <1>12 DEF ReadingOK
  <2>3. Next_call(c, o, req, FALSE)
    BY <1>6, <1>14
  <2> HIDE DEF req
  <2>4. OpOK(o, more, req, store[0])
    <3>1. /\ o.at \in Label /\ o.at \notin Resting /\ o.at \notin Opening
          /\ o.at \notin Making /\ RequestType(o.at) = "read"
      BY <1>7 DEF Label, Resting, Opening, Making, RequestType, Searching
    <3> QED
      BY <1>7, <1>10, <1>12, <2>1, <2>2, <3>1 DEF OpOK
  <2> QED
    BY <1>1, <1>7, <1>11, <2>1, <2>3, <2>4, OneGoesOn DEF st
<1> QED
  BY <1>13, <1>14

LEMMA OneWritePart ==
  ASSUME OneInv, NEW c \in Client, WritePart(c)
  PROVE  OneInv'
<1> DEFINE fds == Open_files_list[c]
           id == op[c].file
           fd == FileOf(fds, id)
           n == PartLen(op[c].left)
           size == Result(c).size
           next == Written(fd, size, n)
           more == Reset(fds, id, next)
           o == [op[c] EXCEPT !.left = @ - n]
           st == store[0]
<1>1. Back(c, "write") /\ Result(c).ok /\ op[c].at = "write" /\ Returns(c) /\ TakeLast(c)
  BY DEF WritePart, Back
<1>2. /\ OpOK(op[c], fds, call[c].req, store[0]) /\ DOMAIN op[c] = OpFields
      /\ WritingOK(op[c], fds, call[c].req)
  BY <1>1 DEF OneInv, ClientOK, OpsOK, OpOK
<1>3. /\ queue_node_search(fds, id) /\ call[c].req = WriteRequest(fd, op[c].left)
      /\ op[c].left \in Nat
  BY <1>2 DEF WritingOK, OpOK
<1>4. FileOK(fd, st) /\ fd.fileId = id /\ fdesc(c, id) = fd
  BY <1>3, FileIs
<1>5. AnswerOK(call[c].req, Result(c), st) /\ WrittenOK(c, Result(c))
  BY <1>1, ResultIs
<1>6. /\ SetFile(c, next)
      /\ IF o.left = 0 THEN Return(c)
         ELSE Next_call(c, o, WriteRequest(next, o.left), TRUE)
  BY <1>4 DEF WritePart, PartLen
<1>7. /\ DOMAIN o = OpFields /\ o.at = "write" /\ o.file = id
      /\ o.left = op[c].left - n /\ o.from = op[c].from
      /\ o.buffer = op[c].buffer
  BY <1>1, <1>2 DEF OpFields
<1>8. /\ DOMAIN next = FileFields /\ next.fileId = id /\ next.size = size
      /\ next.read_offset = fd.read_offset /\ next.write_offset = fd.write_offset + n
  BY <1>4 DEF Written, FileOK, FileFields
<1>9. fd.read_offset <= size
  BY <1>1, <1>5 DEF WrittenOK
<1> HIDE DEF o, next, fd, size, id, st, n
<1>10. /\ n \in Nat /\ n <= op[c].left /\ size \in Nat
       /\ fd.write_offset + n <= size /\ size <= SizeOf(st, fd.fileId)
  <2>1. /\ call[c].req.type = "write" /\ call[c].req.file = fd.fileId
        /\ call[c].req.offset = fd.write_offset
        /\ Len(call[c].req.data) = n /\ n \in Nat /\ n <= op[c].left
    BY <1>3, <1>4, AsksToWrite DEF n
  <2> QED
    BY <1>1, <1>5, <2>1 DEF AnswerOK, size
<1>11. FileOK(next, st) /\ o.left \in Nat
  <2>1. /\ fd.read_offset \in Nat /\ fd.write_offset \in Nat /\ fd.fileId \in Used(st)
        /\ fd.read_offset <= SizeOf(st, fd.fileId) /\ SizeOf(st, fd.fileId) \in Nat
    BY <1>4, SizesAre DEF FileOK, Used, OneInv, st
  <2>2. o.left \in Nat /\ next.write_offset \in Nat
    BY <1>3, <1>7, <1>8, <1>10, <2>1
  <2>3. /\ next.write_offset <= next.size
        /\ next.write_offset <= SizeOf(st, next.fileId)
    BY <1>4, <1>8, <1>10, <2>1
  <2> QED
    BY <1>4, <1>8, <1>9, <1>10, <2>1, <2>2, <2>3 DEF FileOK
<1>12. /\ FilesBecome(c, more) /\ FilesOK(more, st)
       /\ queue_node_search(more, id) /\ FileOf(more, id) = next
  BY <1>3, <1>6, <1>8, <1>11, SetFileIs DEF id, st
<1> HIDE DEF more
<1>13. CASE o.left = 0
  BY <1>1, <1>6, <1>12, <1>13, OneBack DEF st
<1>14. CASE o.left # 0
  <2> DEFINE req == WriteRequest(next, o.left)
  <2>1. RequestOK(req, st) /\ req.type = "write" /\ req # NoRequest
    BY <1>11, AsksToWrite
  <2>2. WritingOK(o, more, req)
    BY <1>7, <1>12 DEF WritingOK
  <2>3. Next_call(c, o, req, TRUE)
    BY <1>6, <1>14
  <2> HIDE DEF req
  <2>4. OpOK(o, more, req, store[0])
    <3>1. /\ o.at \in Label /\ o.at \notin Resting /\ o.at \notin Opening
          /\ o.at \notin Making /\ RequestType(o.at) = "write"
      BY <1>7 DEF Label, Resting, Opening, Making, RequestType, Searching
    <3> QED
      BY <1>2, <1>7, <1>11, <2>1, <2>2, <3>1 DEF OpOK
  <2> QED
    BY <1>1, <1>7, <1>12, <2>1, <2>3, <2>4, OneGoesOn DEF st
<1> QED
  BY <1>13, <1>14

\* Steps after which the function has returned.
LEMMA OneLeaves ==
  ASSUME OneInv, NEW c \in Client, PartFails(c) \/ Listing(c) \/ MkdirMade(c) \/ Exit(c)
  PROVE  OneInv'
<1>1. CASE PartFails(c) \/ Listing(c) \/ MkdirMade(c)
  <2>1. PICK label : Back(c, label)
    BY <1>1 DEF PartFails, Listing, MkdirMade
  <2>2. Return(c) /\ SameFiles
    BY <1>1 DEF PartFails, Listing, MkdirMade
  <2> QED
    BY <2>1, <2>2, SameFilesAre, OneBack
<1>2. CASE Exit(c)
  BY <1>2, ResultIs DEF Exit
<1> QED
  BY <1>1, <1>2

\* Steps that send the next request of my_open, my_listdir and my_mkdir.
LEMMA OneAsksNext ==
  ASSUME OneInv, NEW c \in Client, NEW label, Back(c, label), op[c].at \in Remote,
         NEW o, DOMAIN o = OpFields, o.at \in Remote,
         o.left = op[c].left, o.from = op[c].from, o.buffer = op[c].buffer,
         o.path = op[c].path,
         o.at \in Opening => op[c].at \in Opening /\ o.fsize \in Nat,
         o.at \in Making => op[c].at \in Making,
         NEW req, req # NoRequest, RequestOK(req, store[0]), req.type = RequestType(o.at),
         o.at \in Opening => OpeningOK(o, req, store[0]),
         NEW all \in BOOLEAN, Next_call(c, o, req, all), SameFiles
  PROVE  OneInv'
<1>1. OpOK(op[c], Open_files_list[c], call[c].req, store[0])
  BY DEF OneInv, ClientOK
<1>2. /\ o.left \in Nat /\ o.from \in Nat /\ o.buffer \in Seq(Nat)
      /\ InOrder(o.buffer, o.from)
  BY <1>1 DEF OpOK
<1>3. /\ o.at \in Opening =>
            o.path \in OpenPath /\ o.fsize \in Nat /\ Len(Open_files_list[c]) < MAX_OPEN_FILES
      /\ o.at \in Making => o.path \in DirPath
  BY <1>1 DEF OpOK
<1>4. OpOK(o, Open_files_list[c], req, store[0])
  BY <1>2, <1>3, LabelsAre
<1> QED
  BY <1>4, SameFilesAre, OneGoesOn

\* A descriptor of a file that was found or made.
LEMMA OneAdds ==
  ASSUME OneInv, NEW c \in Client, NEW label, Back(c, label), Return(c),
         label \in {"open", "open_create"}, Result(c).ok,
         NEW size \in Nat, NEW path, NEW new,
         AddFile(c, Opened(Result(c).file, size, path, new)),
         \/ size <= SizeOf(store[0], Result(c).file)
         \/ NotYetWritten(Opened(Result(c).file, size, path, new))
  PROVE  OneInv'
<1> DEFINE fd == Opened(Result(c).file, size, path, new)
           fds == Open_files_list[c]
           more == Append(fds, fd)
<1>1. Returns(c) /\ TakeLast(c) /\ op[c].at = label
  BY DEF Back
<1>2. AnswerOK(call[c].req, Result(c), store[0])
  BY <1>1, ResultIs
<1>3. /\ OpOK(op[c], fds, call[c].req, store[0]) /\ FilesOK(fds, store[0])
      /\ Open_files[c] = Len(fds) /\ StoreOK(store[0])
      /\ DOMAIN Open_files_list = Client /\ DOMAIN Open_files = Client
  BY DEF OneInv, ClientOK
<1>4. call[c].req.type \in {"lookup", "make"} /\ Len(fds) < MAX_OPEN_FILES
  BY <1>1, <1>3 DEF OpOK, Resting, RequestType, Searching, Opening
<1>5. Result(c).file \in Used(store[0])
  BY <1>2, <1>4 DEF AnswerOK
<1>6. FileOK(fd, store[0])
  <2>1. SizeOf(store[0], Result(c).file) \in Nat
    BY <1>3, <1>5, SizesAre DEF Used
  <2>2. /\ DOMAIN fd = FileFields /\ fd.fileId = Result(c).file /\ fd.size = size
        /\ fd.read_offset = 0 /\ fd.write_offset = 0
    BY DEF Opened, FileFields
  <2>3. size <= SizeOf(store[0], Result(c).file) \/ NotYetWritten(fd)
    OBVIOUS
  <2> HIDE DEF fd
  <2> QED
    BY <1>5, <2>1, <2>2, <2>3 DEF FileOK
<1>7. /\ Open_files_list' = [Open_files_list EXCEPT ![c] = more]
      /\ Open_files' = [Open_files EXCEPT ![c] = @ + 1]
  BY <1>3 DEF AddFile
<1> HIDE DEF fd
<1>8. FilesOK(more, store[0]) /\ Len(more) = Len(fds) + 1
  BY <1>3, <1>4, <1>6, AppendIs
<1> HIDE DEF more
<1>9. FilesBecome(c, more)
  BY <1>3, <1>7, <1>8 DEF FilesBecome
<1> QED
  BY <1>8, <1>9, OneBack

LEMMA OneOpens ==
  ASSUME OneInv, NEW c \in Client,
         OpenFound(c) \/ OpenNotFound(c) \/ OpenDir(c) \/ OpenCreated(c)
  PROVE  OneInv'
<1>0. /\ OpOK(op[c], Open_files_list[c], call[c].req, store[0]) /\ DOMAIN op[c] = OpFields
  BY DEF OneInv, ClientOK, OpsOK
<1>00. op[c].at \in Opening =>
          /\ OpeningOK(op[c], call[c].req, store[0]) /\ op[c].path \in Text
          /\ op[c].path \in OpenPath
  BY <1>0, PathsAreTexts DEF OpOK
<1>1. CASE OpenFound(c)
  <2>1. /\ Back(c, "open") /\ Return(c) /\ Result(c).ok
        /\ AddFile(c, Opened(Result(c).file, Result(c).size, op[c].path, FALSE))
    BY <1>1 DEF OpenFound
  <2>2. AnswerOK(call[c].req, Result(c), store[0]) /\ op[c].at = "open"
    BY <2>1, ResultIs DEF Back
  <2>3. call[c].req.type = "lookup"
    BY <1>0, <2>2 DEF OpOK, Resting, RequestType, Searching
  <2>4. Result(c).size \in Nat /\ Result(c).size <= SizeOf(store[0], Result(c).file)
    BY <2>1, <2>2, <2>3 DEF AnswerOK
  <2> QED
    BY <2>1, <2>4, OneAdds
<1>2. CASE OpenNotFound(c)
  <2> DEFINE o == [op[c] EXCEPT !.at = "open_dir"]
             req == LookupRequest(newdirname(op[c].path))
  <2>1. Back(c, "open") /\ Next_call(c, o, req, FALSE) /\ SameFiles /\ op[c].at = "open"
    BY <1>2 DEF OpenNotFound, Back
  <2>2. /\ DOMAIN o = OpFields /\ o.at = "open_dir" /\ o.path = op[c].path
        /\ o.left = op[c].left /\ o.from = op[c].from /\ o.buffer = op[c].buffer
        /\ o.fsize = op[c].fsize
    BY <1>0 DEF OpFields
  <2>3. newdirname(op[c].path) \in Text
    BY <1>0, <2>1, PathsAreTexts DEF OpOK, Opening
  <2>4. /\ req # NoRequest /\ RequestOK(req, store[0])
        /\ req.type = RequestType("open_dir")
    BY <2>3, SearchesOK, RequestsAreSome DEF RequestType, Searching
  <2> HIDE DEF o, req
  <2>5. /\ op[c].at \in Remote /\ o.at \in Remote
        /\ op[c].at \in Opening /\ o.at \notin Making
    BY <2>1, <2>2 DEF Remote, Label, Opening, Making
  <2>6. o.fsize \in Nat
    BY <1>0, <2>2, <2>5 DEF OpOK
  <2>7. OpeningOK(o, req, store[0])
    <3>1. /\ op[c].path \in Text /\ myparse(op[c].path)
      BY <1>00, <2>5 DEF OpeningOK
    <3>2. InRoot(op[c].path) => req = LookupRequest(op[c].path)
      BY <3>1, RootNames DEF req
    <3> QED
      BY <2>2, <3>1, <3>2 DEF OpeningOK
  <2> QED
    BY <2>1, <2>2, <2>4, <2>5, <2>6, <2>7, OneAsksNext
<1>3. CASE OpenDir(c)
  <2> DEFINE o == [op[c] EXCEPT !.at = "open_create", !.fsize = Result(c).size]
             req == CreateRequest(op[c].path, DirOf(op[c].path, Result(c).file))
  <2>1. /\ Back(c, "open_dir") /\ SameFiles /\ op[c].at = "open_dir"
        /\ Next_call(c, o, req, TRUE) \/ Return(c)
    BY <1>3 DEF OpenDir, Back
  <2>2. /\ DOMAIN o = OpFields /\ o.at = "open_create" /\ o.path = op[c].path
        /\ o.left = op[c].left /\ o.from = op[c].from /\ o.buffer = op[c].buffer
        /\ o.fsize = Result(c).size
    BY <1>0 DEF OpFields
  <2>3. op[c].path \in OpenPath /\ o.fsize \in Nat
    <3>1. AnswerOK(call[c].req, Result(c), store[0])
      BY <2>1, ResultIs DEF Back
    <3> QED
      BY <1>0, <2>1, <2>2, <3>1 DEF OpOK, Opening, AnswerOK
  <2>4. /\ req # NoRequest /\ RequestOK(req, store[0])
        /\ req.type = RequestType("open_create")
    BY <2>3, SearchesOK, RequestsAreSome DEF RequestType, Searching
  <2> HIDE DEF o, req
  <2>5. /\ op[c].at \in Remote /\ o.at \in Remote
        /\ op[c].at \in Opening /\ o.at \notin Making
    BY <2>1, <2>2 DEF Remote, Label, Opening, Making
  <2>6. OpeningOK(o, req, store[0])
    <3>1. myparse(op[c].path)
      BY <1>00, <2>5 DEF OpeningOK
    <3>2. ASSUME InRoot(op[c].path)
          PROVE  /\ req = CreateRequest(op[c].path, ROOT)
                 /\ o.fsize = 0 \/ RootName(op[c].path) \in Listed(store[0], ROOT)
      <4>1. req = CreateRequest(op[c].path, ROOT)
        BY <3>2 DEF req, DirOf, InRoot
      <4>2. /\ AnswerOK(call[c].req, Result(c), store[0])
            /\ CreatedOK(op[c], Result(c), store[0])
        BY <2>1, ResultIs DEF Back
      <4>3. Result(c).ok \/ Result(c).size = 0
        BY <4>2 DEF AnswerOK
      <4> QED
        BY <2>1, <2>2, <3>2, <4>1, <4>2, <4>3 DEF CreatedOK
    <3> QED
      BY <2>2, <3>1, <3>2 DEF OpeningOK
  <2>7. CASE Next_call(c, o, req, TRUE)
    BY <2>1, <2>2, <2>3, <2>4, <2>5, <2>6, <2>7, OneAsksNext
  <2>8. CASE Return(c)
    BY <2>1, <2>8, SameFilesAre, OneBack
  <2> QED
    BY <2>1, <2>7, <2>8
<1>4. CASE OpenCreated(c)
  <2>1. /\ Back(c, "open_create") /\ Return(c)
        /\ IF Result(c).ok
           THEN AddFile(c, Opened(Result(c).file, op[c].fsize, op[c].path, TRUE))
           ELSE SameFiles
    BY <1>4 DEF OpenCreated
  <2>2. CASE Result(c).ok
    <3>1. op[c].fsize \in Nat
      BY <1>0, <2>1 DEF OpOK, Back, Opening
    <3> DEFINE fd == Opened(Result(c).file, op[c].fsize, op[c].path, TRUE)
    <3>2. op[c].fsize <= SizeOf(store[0], Result(c).file) \/ NotYetWritten(fd)
      <4>1. CASE ~InRoot(op[c].path)
        BY <4>1 DEF NotYetWritten, Opened
      <4>2. CASE InRoot(op[c].path)
        <5>1. /\ CreatedOK(op[c], Result(c), store[0])
              /\ AnswerOK(call[c].req, Result(c), store[0])
              /\ op[c].at = "open_create" /\ StoreOK(store[0])
          BY <2>1, ResultIs DEF Back, OneInv
        <5>2. op[c].fsize = 0
          BY <2>2, <4>2, <5>1 DEF CreatedOK
        <5>3. call[c].req.type = "make"
          BY <1>0, <5>1 DEF OpOK, Resting, RequestType, Searching
        <5>4. Result(c).file \in Used(store[0])
          BY <2>2, <5>1, <5>3 DEF AnswerOK
        <5>5. SizeOf(store[0], Result(c).file) \in Nat
          BY <5>1, <5>4, SizesAre DEF Used
        <5> HIDE DEF fd
        <5>6. op[c].fsize <= SizeOf(store[0], Result(c).file)
          BY <5>2, <5>5
        <5> QED
          BY <5>6
      <4> QED
        BY <4>1, <4>2
    <3> HIDE DEF fd
    <3> QED
      BY <2>1, <2>2, <3>1, <3>2, OneAdds DEF fd
  <2>3. CASE ~Result(c).ok
    BY <2>1, <2>3, SameFilesAre, OneBack
  <2> QED
    BY <2>2, <2>3
<1> QED
  BY <1>1, <1>2, <1>3, <1>4

\* my_listdir and my_mkdir go on.
LEMMA OneDirectories ==
  ASSUME OneInv, NEW c \in Client, ListFound(c) \/ MkdirLookedUp(c) \/ MkdirDir(c)
  PROVE  OneInv'
<1>0. /\ OpOK(op[c], Open_files_list[c], call[c].req, store[0]) /\ DOMAIN op[c] = OpFields
  BY DEF OneInv, ClientOK, OpsOK
<1>1. ASSUME NEW label, Back(c, label), Return(c), SameFiles PROVE OneInv'
  BY <1>1, SameFilesAre, OneBack
<1>2. ASSUME NEW label, Back(c, label), op[c].at \in Remote \ Opening,
             NEW at \in Remote \ Opening, at \in Making => op[c].at \in Making,
             NEW req, req # NoRequest, RequestOK(req, store[0]), req.type = RequestType(at),
             NEW all \in BOOLEAN, Next_call(c, [op[c] EXCEPT !.at = at], req, all),
             SameFiles
      PROVE  OneInv'
  <2> DEFINE o == [op[c] EXCEPT !.at = at]
  <2>1. /\ DOMAIN o = OpFields /\ o.at = at /\ o.path = op[c].path
        /\ o.left = op[c].left /\ o.from = op[c].from /\ o.buffer = op[c].buffer
    BY <1>0 DEF OpFields
  <2> HIDE DEF o
  <2>2. op[c].at \in Remote /\ o.at \in Remote /\ Next_call(c, o, req, all)
    BY <1>2, <2>1 DEF o
  <2>3. /\ o.at \in Opening => op[c].at \in Opening /\ o.fsize \in Nat
        /\ o.at \in Making => op[c].at \in Making
    BY <1>2, <2>1
  <2>4. req.type = RequestType(o.at)
    BY <1>2, <2>1
  <2> QED
    BY <1>2, <2>1, <2>2, <2>3, <2>4, OneAsksNext
<1>3. CASE ListFound(c)
  <2>1. /\ Back(c, "list") /\ SameFiles
        /\ \/ Next_call(c, [op[c] EXCEPT !.at = "list_dir"],
                        ListRequest(Result(c).file), FALSE)
           \/ Return(c)
    BY <1>3 DEF ListFound
  <2> DEFINE req == ListRequest(Result(c).file)
  <2>2. RequestOK(req, store[0]) /\ req # NoRequest /\ req.type = RequestType("list_dir")
    BY SearchesOK, RequestsAreSome DEF RequestType, Searching
  <2>3. /\ op[c].at \in Remote \ Opening /\ "list_dir" \in Remote \ Opening
        /\ "list_dir" \notin Making
    BY <2>1 DEF Back, Remote, Label, Opening, Making
  <2> HIDE DEF req
  <2> QED
    BY <1>1, <1>2, <2>1, <2>2, <2>3 DEF req
<1>4. CASE MkdirLookedUp(c)
  <2> DEFINE made == MkdirRequest(op[c].path, ROOT)
             search == LookupRequest(newdirname(op[c].path))
  <2>1. /\ Back(c, "mkdir") /\ SameFiles /\ op[c].at = "mkdir"
        /\ \/ Return(c)
           \/ Next_call(c, [op[c] EXCEPT !.at = "mkdir_make"], made, TRUE)
           \/ Next_call(c, [op[c] EXCEPT !.at = "mkdir_dir"], search, FALSE)
    BY <1>4 DEF MkdirLookedUp, Back
  <2>2. op[c].path \in DirPath
    BY <1>0, <2>1 DEF OpOK, Making
  <2>3. /\ RequestOK(made, store[0]) /\ made # NoRequest
        /\ made.type = RequestType("mkdir_make")
    BY <2>2, SearchesOK, RequestsAreSome DEF RequestType, Searching
  <2>4. /\ RequestOK(search, store[0]) /\ search # NoRequest
        /\ search.type = RequestType("mkdir_dir")
    BY <2>2, PathsAreTexts, SearchesOK, RequestsAreSome DEF RequestType, Searching
  <2>5. /\ op[c].at \in Remote \ Opening /\ op[c].at \in Making
        /\ "mkdir_make" \in Remote \ Opening /\ "mkdir_dir" \in Remote \ Opening
    BY <2>1 DEF Remote, Label, Opening, Making
  <2> HIDE DEF made, search
  <2> QED
    BY <1>1, <1>2, <2>1, <2>3, <2>4, <2>5
<1>5. CASE MkdirDir(c)
  <2> DEFINE made == MkdirRequest(op[c].path, Result(c).file)
  <2>1. /\ Back(c, "mkdir_dir") /\ SameFiles /\ op[c].at = "mkdir_dir"
        /\ \/ Return(c)
           \/ Next_call(c, [op[c] EXCEPT !.at = "mkdir_make"], made, TRUE)
    BY <1>5 DEF MkdirDir, Back
  <2>2. op[c].path \in DirPath
    BY <1>0, <2>1 DEF OpOK, Making
  <2>3. /\ RequestOK(made, store[0]) /\ made # NoRequest
        /\ made.type = RequestType("mkdir_make")
    BY <2>2, SearchesOK, RequestsAreSome DEF RequestType, Searching
  <2>4. /\ op[c].at \in Remote \ Opening /\ op[c].at \in Making
        /\ "mkdir_make" \in Remote \ Opening
    BY <2>1 DEF Remote, Label, Opening, Making
  <2> HIDE DEF made
  <2> QED
    BY <1>1, <1>2, <2>1, <2>3, <2>4
<1> QED
  BY <1>3, <1>4, <1>5

LEMMA OneNext == OneInv /\ [MyFsNext]_fsVars => OneInv'
<1> SUFFICES ASSUME OneInv, [MyFsNext]_fsVars PROVE OneInv'
  OBVIOUS
<1>1. CASE UNCHANGED fsVars
  <2>1. /\ UNCHANGED <<Num_servers, up, store, srv_box, cli_box, next_sn, rr_index, call>>
        /\ op' = op /\ Open_files_list' = Open_files_list /\ Open_files' = Open_files
    BY <1>1 DEF fsVars, rcVars, myVars
  <2>2. Server' = Server
    BY <2>1 DEF Server
  <2>3. NetTypeOK' /\ OpsOK'
    BY <2>1, <2>2 DEF OneInv, NetTypeOK, IsMessage, OpsOK
  <2>4. ASSUME NEW c \in Client PROVE ClientOK(c)'
    BY <2>1, ClientKept, GrownSame DEF OneInv
  <2> QED
    BY <2>1, <2>2, <2>3, <2>4 DEF OneInv
<1>2. CASE RemoteStep /\ UNCHANGED myVars
  BY <1>2, OneHandle, OneStop, OneRecv DEF RemoteStep
<1>3. ASSUME NEW c \in Client, MyCall(c) PROVE OneInv'
  BY <1>3, OneOpen, OneMkdir, OneListdir, OneClose, OneRead, OneWrite DEF MyCall
<1>4. ASSUME NEW c \in Client, MyStep(c) PROVE OneInv'
  BY <1>4, OneOpens, OneReadPart, OneWritePart, OneDirectories, OneLeaves DEF MyStep
<1> QED
  BY <1>1, <1>2, <1>3, <1>4 DEF MyFsNext

LEMMA OneInvHolds == Registered = {1} => (MyFsSpec => []OneInv)
<1> SUFFICES ASSUME Registered = {1} PROVE MyFsSpec => []OneInv
  OBVIOUS
<1>1. MyFsInit => OneInv
  BY OneInvInit
<1> QED
  BY <1>1, OneNext, PTL DEF MyFsSpec

-----------------------------------------------------------------------------
(* What the server does is what FileStore promises.                        *)

\* A store that changes as Make of FileStore says, or as Overwrite says.
LEMMA MakeIsPromised ==
  ASSUME NEW s, NEW d, NEW n, NEW i, NEW k,
         store[s].kind[d] = "dir", store[s].listing[d][n] = NULL, store[s].kind[i] = "free",
         store'[s].kind = [store[s].kind EXCEPT ![i] = k],
         store'[s].listing = [store[s].listing EXCEPT ![d][n] = i],
         store'[s].content = store[s].content
  PROVE  ServerStore(s)!Make(d, n, i, k)
BY DEF ServerStore!Make

LEMMA OverwriteIsPromised ==
  ASSUME NEW s, NEW f, NEW o, NEW data, store[s].kind[f] = "file",
         store'[s].content =
            [store[s].content EXCEPT ![f] = Spliced(store[s].content[f], o, data)],
         store'[s].kind = store[s].kind,
         store'[s].listing = store[s].listing
  PROVE  ServerStore(s)!Overwrite(f, o, data)
<1>1. store'[s].content =
         [store[s].content EXCEPT ![f] = SubSeq(@, 1, o) \o data
                                         \o SubSeq(@, o + Len(data) + 1, Len(@))]
  BY Zenon DEF Spliced
<1> QED
  BY <1>1 DEF ServerStore!Overwrite

\* What fs_write moves is not moved: nothing is asked for beyond the end.
LEMMA WriteIsSplice ==
  ASSUME NEW st, StoreOK(st), NEW req, req.type = "write", RequestOK(req, st)
  PROVE  LET new == snfs_write(st, req).store
         IN  \/ new = st
             \/ /\ req.file \in Inode /\ st.kind[req.file] = "file"
                /\ new.content = [st.content EXCEPT ![req.file] =
                                     Spliced(st.content[req.file], req.offset, req.data)]
                /\ new.kind = st.kind /\ new.listing = st.listing
<1> DEFINE f == req.file
           bytes == st.content[f]
           o == Min({req.offset, Len(bytes)})
           new == SubSeq(bytes, 1, o) \o req.data
                  \o SubSeq(bytes, o + Len(req.data) + 1, Len(bytes))
           after == [st EXCEPT !.content[f] = new]
           a == [RES_OK EXCEPT !.size = Len(new)]
<1>1. /\ f \in Used(st) /\ f \in Inode /\ req.offset \in Nat
      /\ req.offset <= SizeOf(st, f)
  BY DEF RequestOK, Used
<1>2. \/ snfs_write(st, req) = Failed(st)
      \/ /\ IsKind(st, f, "file")
         /\ snfs_write(st, req) = [store |-> after, answer |-> a]
  <2>1. snfs_write(st, req) =
           IF Len(req.data) > MAX_WRITE_DATA \/ ~IsKind(st, f, "file") THEN Failed(st)
           ELSE IF o + Len(req.data) > MAX_FILE_SIZE THEN Failed(st)
           ELSE [store |-> after, answer |-> a]
    BY DEF snfs_write
  <2> HIDE DEF after, a, o
  <2> QED
    BY <2>1
<1>3. /\ after.kind = st.kind /\ after.listing = st.listing
      /\ after.content = [st.content EXCEPT ![f] = new]
  BY StoreTyped
<1>4. CASE snfs_write(st, req) = Failed(st)
  BY <1>4 DEF Failed
<1>5. CASE /\ IsKind(st, f, "file")
           /\ snfs_write(st, req) = [store |-> after, answer |-> a]
  <2>1. /\ bytes \in Seq(1 .. MAX_FILE_SIZE) /\ Len(bytes) \in Nat
        /\ st.kind[f] = "file" /\ SizeOf(st, f) = Len(bytes)
    BY <1>1, <1>5, StoreTyped, SizesAre DEF IsKind
  <2> HIDE DEF bytes
  <2>2. o = req.offset
    <3>1. req.offset \in Int /\ Len(bytes) \in Int /\ req.offset <= Len(bytes)
      BY <1>1, <2>1
    <3> QED
      BY <3>1, SmallerIs
  <2> HIDE DEF o
  <2>3. new = Spliced(bytes, req.offset, req.data)
    BY <2>2 DEF Spliced
  <2> HIDE DEF new, after, a
  <2>4. snfs_write(st, req).store = after
    BY <1>5
  <2>5. /\ after.kind = st.kind /\ after.listing = st.listing
        /\ after.content = [st.content EXCEPT ![f] = Spliced(bytes, req.offset, req.data)]
    BY <1>3, <2>3
  <2>6. f \in Inode /\ st.kind[f] = "file"
    BY <1>1, <2>1
  <2> QED
    BY <2>4, <2>5, <2>6, Zenon DEF bytes
<1> QED
  BY <1>2, <1>4, <1>5

LEMMA HandleIsPromised ==
  ASSUME OneInv, NEW s \in Server, NEW msg \in srv_box[s], Handle(s, msg)
  PROVE  store'[s] = store[s] \/ ServesAsPromised(s, msg)
<1> DEFINE st == store[0]
           req == msg.req
           new == Serve(st, req).store
<1>1. NetTypeOK /\ Server = {0} /\ s = 0 /\ StoreOK(st)
  BY ServerIs DEF OneInv
<1>2. store' = [store EXCEPT ![0] = new] /\ DOMAIN store = {0}
  BY <1>1 DEF Handle, OneInv
<1>3. store'[0] = new
  BY <1>2
<1>4. RequestOK(req, st)
  BY <1>1 DEF OneInv, ClientOK, LinkOK, NetTypeOK, IsMessage, Waiting
<1>5. Served(st, req, Serve(st, req))
  BY <1>1, <1>4, ServeIs
<1>6. CASE req.type \in {"lookup", "read", "readdir"}
  BY <1>1, <1>3, <1>5, <1>6 DEF Served
<1>7. CASE req.type = "make"
  <2> DEFINE n == MadeName(req)
             d == req.dir
  <2>1. new = snfs_make(st, req).store
    BY <1>7 DEF Serve
  <2>2. CASE new = st
    BY <1>1, <1>3, <2>2
  <2>3. CASE new # st
    <3>1. /\ IsKind(st, d, "dir") /\ n \notin Listed(st, d)
          /\ \E i \in FreeInodes(st) :
                new = WithMade(st, d, n, i, req.kind)
      BY <1>1, <1>4, <1>7, <2>1, <2>3, MakeServes
    <3>2. PICK i \in FreeInodes(st) :
                new = WithMade(st, d, n, i, req.kind)
      BY <3>1
    <3>3. i \in Inode /\ st.kind[i] = "free" /\ d \in Inode /\ st.kind[d] = "dir"
      BY <3>1 DEF FreeInodes, IsKind
    <3>4. n \in Name
      BY <1>4, <1>7 DEF RequestOK, MadeName
    <3>5. st.listing[d][n] = NULL
      BY <3>1, <3>4 DEF Listed
    <3> HIDE DEF n
    <3>6. /\ new.kind = [st.kind EXCEPT ![i] = req.kind]
          /\ new.listing = [st.listing EXCEPT ![d][n] = i]
          /\ new.content = st.content
      BY <1>1, <3>2, StoreTyped DEF WithMade
    <3>7. ServerStore(0)!Make(d, n, i, req.kind)
      BY <1>3, <3>3, <3>5, <3>6, MakeIsPromised
    <3> QED
      BY <1>1, <1>7, <3>3, <3>7 DEF ServesAsPromised, MadeName, n
  <2> QED
    BY <2>2, <2>3
<1>8. CASE req.type = "write"
  <2>1. new = snfs_write(st, req).store
    BY <1>8 DEF Serve
  <2>2. CASE new = st
    BY <1>1, <1>3, <2>2
  <2>3. CASE new # st
    <3>1. /\ req.file \in Inode /\ st.kind[req.file] = "file"
          /\ new.content = [st.content EXCEPT ![req.file] =
                               Spliced(st.content[req.file], req.offset, req.data)]
          /\ new.kind = st.kind /\ new.listing = st.listing
      BY <1>1, <1>4, <1>8, <2>1, <2>3, WriteIsSplice
    <3>2. ServerStore(0)!Overwrite(req.file, req.offset, req.data)
      BY <1>3, <3>1, OverwriteIsPromised
    <3> QED
      BY <1>1, <1>8, <3>1, <3>2 DEF ServesAsPromised
  <2> QED
    BY <2>2, <2>3
<1> QED
  BY <1>4, <1>6, <1>7, <1>8 DEF RequestOK

-----------------------------------------------------------------------------
(* The theorems.                                                           *)

\* What a client keeps of its call and of its open files fits together: Open_files
\* counts the list and stays within MAX_OPEN_FILES, and a client is in a function
\* exactly while remote_call waits for it.
THEOREM ClientTypeCorrect == Registered = {1} => (MyFsSpec => []ClientTypeOK)
<1>1. ASSUME Registered = {1} PROVE OneInv => ClientTypeOK
  <2> SUFFICES ASSUME OneInv PROVE ClientTypeOK
    OBVIOUS
  <2>1. /\ Num_servers \in Registered /\ up \subseteq Server
        /\ next_sn \in [Client -> 0 .. SN_RANGE - 1]
        /\ rr_index \in [Client -> Server]
        /\ store \in [Server -> Store]
    <3>1. Server = {0} /\ store \in [Server -> Store] /\ store[0] \in Store
      BY ServerIs DEF OneInv, StoreOK
    <3> QED
      BY <1>1, <3>1 DEF OneInv, NetTypeOK
  <2>2. ASSUME NEW c \in Client
        PROVE  /\ op[c].at \in Label /\ op[c].left \in Nat
               /\ Len(call[c].got) < Needed(c)
               /\ op[c].at \in {"idle", "exited"} <=> call[c].req = NoRequest
               /\ Open_files[c] = Len(Open_files_list[c])
               /\ Open_files[c] <= MAX_OPEN_FILES
    <3>1. ClientOK(c) /\ Num_servers = 1
      BY DEF OneInv
    <3>2. Len(call[c].got) = 0 /\ Needed(c) = 1
      BY <3>1 DEF ClientOK, LinkOK, Needed
    <3>3. Len(call[c].got) < Needed(c)
      BY <3>2
    <3>4. Open_files[c] = Len(Open_files_list[c]) /\ Open_files[c] <= MAX_OPEN_FILES
      BY <3>1 DEF ClientOK, FilesOK
    <3> QED
      BY <3>1, <3>3, <3>4 DEF ClientOK, OpOK, Resting
  <2> QED
    BY <2>1, <2>2 DEF ClientTypeOK
<1>2. ASSUME Registered = {1} PROVE MyFsSpec => []ClientTypeOK
  BY <1>1, <1>2, OneInvHolds, PTL
<1> QED
  BY <1>2

\* Files that are open exist, and the offsets that my_read and my_write keep are in
\* the file, as the server has it and as the client knows it: fs_write never moves
\* a write to another place (fs.c:542).
THEOREM OffsetsCorrect == Registered = {1} => (MyFsSpec => []OffsetsInFile)
<1>1. OneInv => OffsetsInFile
  <2> SUFFICES ASSUME OneInv, NEW c \in Client, NEW fd \in Descriptors(c), NEW s \in up
               PROVE  /\ store[s].kind[fd.fileId] # "free"
                      /\ {fd.read_offset, fd.write_offset}
                            \subseteq 0 .. Min({fd.size, SizeOf(store[s], fd.fileId)})
    BY DEF OffsetsInFile
  <2>1. s = 0 /\ StoreOK(store[0]) /\ FilesOK(Open_files_list[c], store[0])
    BY ServerIs DEF OneInv, NetTypeOK, ClientOK
  <2>2. FileOK(fd, store[0])
    BY <2>1 DEF FilesOK, Descriptors, ToSet
  <2> DEFINE size == SizeOf(store[0], fd.fileId)
             r == fd.read_offset
             w == fd.write_offset
  <2>3. /\ fd.fileId \in Used(store[0]) /\ fd.size \in Nat /\ r \in Nat /\ w \in Nat
        /\ r <= fd.size /\ w <= fd.size /\ r <= size /\ w <= size
    BY <2>2 DEF FileOK
  <2>4. size \in Nat
    BY <2>1, <2>3, SizesAre DEF Used
  <2> HIDE DEF size, r, w
  <2>5. Min({fd.size, size}) = IF fd.size <= size THEN fd.size ELSE size
    BY <2>3, <2>4, SmallerIs
  <2> DEFINE least == Min({fd.size, size})
  <2> HIDE DEF least
  <2>6. r \in 0 .. least /\ w \in 0 .. least
    BY <2>3, <2>4, <2>5 DEF least
  <2> QED
    BY <2>1, <2>3, <2>6 DEF Used, least, size, r, w
<1>2. ASSUME Registered = {1} PROVE MyFsSpec => []OffsetsInFile
  BY <1>1, <1>2, OneInvHolds, PTL
<1> QED
  BY <1>2

\* my_write puts every byte where the program meant it, and my_read returns the bytes
\* that follow its offset, each once, whatever parts they come in.
THEOREM OrderCorrect == Registered = {1} => (MyFsSpec => []ReadsInOrder)
<1>1. OneInv => ReadsInOrder
  <2> SUFFICES ASSUME OneInv
               PROVE  /\ \A s \in up, f \in Inode : InOrder(store[s].content[f], 0)
                      /\ \A c \in Client : InOrder(op[c].buffer, op[c].from)
    BY DEF ReadsInOrder
  <2>1. \A s \in up, f \in Inode : InOrder(store[s].content[f], 0)
    BY ServerIs DEF OneInv, NetTypeOK, StoreOK
  <2>2. \A c \in Client : InOrder(op[c].buffer, op[c].from)
    BY DEF OneInv, ClientOK, OpOK
  <2> QED
    BY <2>1, <2>2
<1>2. ASSUME Registered = {1} PROVE MyFsSpec => []ReadsInOrder
  BY <1>1, <1>2, OneInvHolds, PTL
<1> QED
  BY <1>2

\* The loop of my_read (myfs.c:177-188) asks for bytes that the file has, so that it
\* does not go round for ever, except for a file that my_open created outside the
\* root and that nobody has written since through this descriptor.
THEOREM ReadsEndCorrect == Registered = {1} => (MyFsSpec => []ReadsEnd)
<1>1. OneInv => ReadsEnd
  <2> SUFFICES ASSUME OneInv, NEW c \in Client, NEW s \in up, op[c].at = "read"
               PROVE  \/ fdesc(c, op[c].file).read_offset + op[c].left
                              <= SizeOf(store[s], fdesc(c, op[c].file).fileId)
                      \/ NotYetWritten(fdesc(c, op[c].file))
    BY DEF ReadsEnd
  <2> DEFINE fd == fdesc(c, op[c].file)
             size == SizeOf(store[0], fd.fileId)
  <2>1. /\ s = 0 /\ StoreOK(store[0]) /\ op[c].left \in Nat
        /\ ReadingOK(op[c], Open_files_list[c], call[c].req)
    BY ServerIs DEF OneInv, NetTypeOK, ClientOK, OpOK
  <2>2. /\ FileOK(fd, store[0]) /\ fd = FileOf(Open_files_list[c], op[c].file)
    BY <2>1, FileIs DEF ReadingOK
  <2>3. fd.read_offset + op[c].left <= fd.size
    BY <2>1, <2>2 DEF ReadingOK
  <2> HIDE DEF fd
  <2>4. /\ fd.read_offset \in Nat /\ fd.size \in Nat /\ fd.fileId \in Used(store[0])
        /\ fd.size <= size \/ NotYetWritten(fd)
    BY <2>2 DEF FileOK
  <2>5. size \in Nat
    BY <2>1, <2>4, SizesAre DEF Used
  <2> HIDE DEF size
  <2>6. fd.read_offset + op[c].left <= size \/ NotYetWritten(fd)
    BY <2>1, <2>3, <2>4, <2>5
  <2> QED
    BY <2>1, <2>6 DEF fd, size
<1>2. ASSUME Registered = {1} PROVE MyFsSpec => []ReadsEnd
  BY <1>1, <1>2, OneInvHolds, PTL
<1> QED
  BY <1>2

\* The handlers of the server do what FileStore allows: the requests of my_write
\* overwrite the file where they say, those of my_open and my_mkdir add one new name.
THEOREM ServesAsStore == Registered = {1} => (MyFsSpec => ServesFileStore)
<1>1. OneInv /\ [MyFsNext]_fsVars => [StoresAsPromised]_fsVars
  <2> SUFFICES ASSUME OneInv, MyFsNext, NEW s \in Server
               PROVE  \/ store'[s] = store[s]
                      \/ \E msg \in srv_box[s] : ServesAsPromised(s, msg)
    BY DEF StoresAsPromised
  <2>1. Server = {0}
    BY ServerIs DEF OneInv
  <2>2. ASSUME NEW r \in Server, NEW msg \in srv_box[r], Handle(r, msg)
        PROVE  \/ store'[s] = store[s]
               \/ \E m \in srv_box[s] : ServesAsPromised(s, m)
    BY <2>1, <2>2, HandleIsPromised
  <2>3. CASE RemoteStep
    BY <2>2, <2>3 DEF RemoteStep, Stop, Recv
  <2>4. ASSUME NEW c \in Client, MyCall(c) PROVE store' = store
    BY <2>4 DEF MyCall, my_open, my_mkdir, my_listdir, my_close, my_read, my_write,
                Begin, rcVars
  <2>5. ASSUME NEW c \in Client, MyStep(c) PROVE store' = store
    BY <2>5 DEF MyStep, OpenFound, OpenNotFound, OpenDir, OpenCreated, ReadPart,
                WritePart, PartFails, ListFound, Listing, MkdirLookedUp, MkdirDir,
                MkdirMade, Exit, Back, TakeLast
  <2> QED
    BY <2>3, <2>4, <2>5 DEF MyFsNext
<1>2. ASSUME Registered = {1} PROVE MyFsSpec => ServesFileStore
  BY <1>1, <1>2, OneInvHolds, PTL DEF MyFsSpec, ServesFileStore
<1> QED
  BY <1>2

-----------------------------------------------------------------------------
(* Plain paths.                                                            *)

LEMMA SliceOfOne ==
  ASSUME NEW s \in Text, NEW o \in Nat, o + 1 <= Len(s)
  PROVE  Slice(s, o, o + 1) = Single(s[o + 1])
<1> DEFINE a == Slice(s, o, o + 1)
<1>1. s \in Seq(STRING) /\ o + 1 \in Nat /\ o <= o + 1 /\ (o + 1) - o = 1
  BY DEF Text
<1>2. IsSlice(a, STRING, s, o, o + 1)
  BY <1>1, SliceIs
<1> HIDE DEF a
<1>3. a \in Seq(STRING) /\ Len(a) = 1 /\ a[1] = s[o + 1]
  BY <1>1, <1>2 DEF IsSlice
<1>4. a = <<s[o + 1]>>
  BY <1>3
<1> QED
  BY <1>4 DEF a, Single

\* The first m characters of a text.
LEMMA PrefixIs ==
  ASSUME NEW text \in Text, NEW m \in 0 .. Len(text)
  PROVE  /\ Cut(text, m) \in Text /\ Len(Cut(text, m)) = m
         /\ \A k \in 1 .. m : Cut(text, m)[k] = text[k]
<1> DEFINE a == Slice(text, 0, m)
<1>1. text \in Seq(STRING) /\ Len(text) \in Nat
  BY DEF Text
<1>2. m \in Nat /\ 0 \in Nat /\ 0 <= m /\ m <= Len(text) /\ m - 0 = m /\ m \in Int
  BY <1>1
<1>3. Min({m, Len(text)}) = m
  BY <1>1, <1>2, SmallerIs
<1>4. Cut(text, m) = a
  <2>1. Cut(text, m) = SubSeq(text, 1, m)
    BY <1>3 DEF Cut
  <2>2. a = SubSeq(text, 1, m)
    <3>1. 0 + 1 = 1
      OBVIOUS
    <3> QED
      BY <3>1, Zenon DEF Slice
  <2> QED
    BY <2>1, <2>2
<1>5. IsSlice(a, STRING, text, 0, m)
  BY <1>1, <1>2, SliceIs
<1> HIDE DEF a
<1>6. a \in Seq(STRING) /\ Len(a) = m /\ \A k \in 1 .. m : a[k] = text[0 + k]
  BY <1>2, <1>5 DEF IsSlice
<1>7. \A k \in 1 .. m : 0 + k = k
  BY <1>2
<1> QED
  BY <1>4, <1>6, <1>7 DEF Text

NoNames == [names |-> << >>, inside |-> FALSE]

LEMMA PrefixNames ==
  ASSUME NEW text \in Text, NEW m \in 0 .. Len(text), NEW g,
         TakeFold!Values(g, NoNames, text, Len(text))
  PROVE  Components(Cut(text, m)) = g[m].names
<1> DEFINE n == Len(text)
           a == Cut(text, m)
<1>1. n \in Nat /\ m \in Nat /\ m <= n
  BY DEF Text
<1>2. DOMAIN a = 1 .. m /\ \A k \in 1 .. m : a[k] = text[k]
  <2>1. a \in Text /\ Len(a) = m /\ \A k \in 1 .. m : a[k] = text[k]
    BY PrefixIs
  <2> HIDE DEF a
  <2> QED
    BY <2>1 DEF Text
<1> HIDE DEF a, n
<1>3. PICK h : TakeFold!Values(h, NoNames, a, m)
  BY <1>1, <1>2, TakeFold!FoldSteps
<1>4. /\ h[0] = NoNames /\ FoldLeft(Take, NoNames, a) = h[m]
      /\ \A k \in 1 .. m : h[k] = Take(h[k - 1], a[k])
  BY <1>3, PathFoldsAre DEF TakeFold!Values
<1>5. g[0] = NoNames /\ \A k \in 1 .. n : g[k] = Take(g[k - 1], text[k])
  BY DEF TakeFold!Values, n
<1> DEFINE G == {k \in 0 .. m : h[k] = g[k]}
<1>6. 0 \in G
  BY <1>1, <1>4, <1>5
<1>7. \A k \in 1 .. m : k - 1 \in G => k \in G
  <2> SUFFICES ASSUME NEW k \in 1 .. m, h[k - 1] = g[k - 1] PROVE h[k] = g[k]
    BY <1>1
  <2>1. k \in 1 .. n
    BY <1>1
  <2> QED
    BY <1>2, <1>4, <1>5, <2>1
<1> HIDE DEF G
<1>8. m \in G
  BY <1>1, <1>6, <1>7, TakeFold!CountUp
<1> QED
  BY <1>4, <1>8 DEF G, Components, NoNames, a

\* The name that is going on after k characters began after the slash at j.
Began(g, path, j, k) ==
    /\ path[j] = "/" /\ ~g[j].inside
    /\ g[k].names = Append(g[j].names, Slice(path, j, k))

LEMMA TakeGoesOn ==
  ASSUME NEW path \in Text, NEW g, NEW k \in 2 .. Len(path), NEW j \in 1 .. k - 2,
         Began(g, path, j, k - 1), TakeOK(g[k - 1]), TakeOK(g[j]), g[k - 1].inside,
         path[k] # "/", g[k] = Take(g[k - 1], path[k])
  PROVE  Began(g, path, j, k)
<1> DEFINE front == g[j].names
           a == Slice(path, j, k - 1)
           b == Slice(path, j, k)
           old == g[k - 1].names
           l == Len(front) + 1
<1>1. Append(a, path[k]) = b
  <2>1. /\ j \in Nat /\ k - 1 \in Nat /\ j <= k - 1 /\ (k - 1) + 1 <= Len(path)
        /\ (k - 1) + 1 = k
    BY DEF Text
  <2>2. Append(Slice(path, j, k - 1), path[(k - 1) + 1]) = Slice(path, j, (k - 1) + 1)
    BY <2>1, SliceExtends
  <2> QED
    BY <2>1, <2>2
<1>2. front \in Seq(Text) /\ Len(front) \in Nat /\ old = Append(front, a)
  BY DEF Began, TakeOK
<1>3. a \in Text
  <2>1. /\ j \in Nat /\ k - 1 \in Nat /\ j <= k - 1 /\ k - 1 <= Len(path)
        /\ path \in Seq(STRING)
    BY DEF Text
  <2>2. IsSlice(a, STRING, path, j, k - 1)
    BY <2>1, SliceIs
  <2> HIDE DEF a
  <2> QED
    BY <2>2 DEF IsSlice, Text
<1> HIDE DEF front, a, b
<1>4. Len(old) = l /\ old[l] = a /\ old \in Seq(Text)
  BY <1>2, <1>3
<1>5. [old EXCEPT ![l] = b] = Append(front, b)
  <2> DEFINE u == [old EXCEPT ![l] = b]
             v == Append(front, b)
  <2>1. b \in Text
    <3>1. path[k] \in STRING
      BY DEF Text
    <3> QED
      BY <1>1, <1>3, <3>1 DEF Text
  <2>2. u \in Seq(Text) /\ Len(u) = l /\ u[l] = b /\ \A i \in 1 .. l : i # l => u[i] = old[i]
    <3>1. l \in Nat /\ l >= 1 /\ l \in DOMAIN old /\ DOMAIN old = 1 .. l
      BY <1>2, <1>4
    <3> HIDE DEF l, old
    <3> QED
      BY <1>4, <2>1, <3>1
  <2>3. v \in Seq(Text) /\ Len(v) = l /\ v[l] = b /\ \A i \in 1 .. l : i # l => v[i] = front[i]
    BY <1>2, <2>1
  <2>4. \A i \in 1 .. l : i # l => old[i] = front[i]
    BY <1>2, <1>3
  <2> HIDE DEF u, v
  <2>5. \A i \in 1 .. l : u[i] = v[i]
    BY <2>2, <2>3, <2>4
  <2>6. u = v
    BY <2>2, <2>3, <2>5
  <2> QED
    BY <2>6 DEF u, v
<1>6. g[k].names = [old EXCEPT ![l] = b]
  <2>1. g[k] = [g[k - 1] EXCEPT !.names[Len(old)] = Append(@, path[k])]
    BY DEF Take
  <2>2. DOMAIN g[k - 1] = {"names", "inside"}
    BY DEF TakeOK
  <2>3. g[k].names = [old EXCEPT ![Len(old)] = Append(@, path[k])]
    BY <2>1, <2>2
  <2> QED
    BY <1>1, <1>4, <2>3
<1> QED
  BY <1>5, <1>6 DEF Began, front, b

LEMMA TakeBegins ==
  ASSUME NEW path \in Text, NEW g, NEW k \in 2 .. Len(path),
         ~g[k - 1].inside, path[k - 1] = "/",
         path[k] # "/", g[k] = Take(g[k - 1], path[k])
  PROVE  Began(g, path, k - 1, k)
<1>1. Slice(path, k - 1, k) = Single(path[k])
  <2>1. k - 1 \in Nat /\ (k - 1) + 1 <= Len(path) /\ (k - 1) + 1 = k
    BY DEF Text
  <2>2. Slice(path, k - 1, (k - 1) + 1) = Single(path[(k - 1) + 1])
    BY <2>1, SliceOfOne
  <2> QED
    BY <2>1, <2>2
<1>2. g[k].names = Append(g[k - 1].names, <<path[k]>>)
  BY DEF Take
<1> QED
  BY <1>1, <1>2 DEF Began, Single

\* A path is its directory, a slash and its last name.
LEMMA LastNameAt ==
  ASSUME NEW path \in Text, Len(path) >= 1, path[1] = "/", path[Len(path)] # "/"
  PROVE  \E j \in 1 .. Len(path) - 1 :
            Components(path) = Append(Components(Cut(path, j - 1)),
                                      Slice(path, j, Len(path)))
<1> DEFINE n == Len(path)
<1>1. /\ n \in Nat /\ DOMAIN path = 1 .. n /\ \A k \in 1 .. n : path[k] \in STRING
      /\ n >= 1 /\ path[n] # "/"
  BY DEF Text
<1>0. TakeOK(NoNames) /\ ~NoNames.inside
  BY DEF TakeOK, Text, NoNames
<1> HIDE DEF n
<1>2. PICK g : TakeFold!Values(g, NoNames, path, n)
  BY <1>1, TakeFold!FoldSteps
<1>3. /\ g[0] = NoNames
      /\ \A k \in 1 .. n : g[k] = Take(g[k - 1], path[k])
  BY <1>2 DEF TakeFold!Values
<1>4. \A m \in 0 .. n : Components(Cut(path, m)) = g[m].names
  BY <1>2, PrefixNames DEF n
<1> DEFINE Inside(k) == \E j \in 1 .. k - 1 : Began(g, path, j, k)
           Good(k) == /\ TakeOK(g[k])
                      /\ g[k].inside => Inside(k)
                      /\ k >= 1 => (g[k].inside <=> path[k] # "/")
           G == {k \in 0 .. n : \A i \in 0 .. k : Good(i)}
<1>5. 0 \in G
  <2>1. Good(0)
    BY <1>0, <1>3
  <2>2. \A i \in 0 .. 0 : i = 0
    OBVIOUS
  <2> QED
    BY <1>1, <2>1, <2>2
<1>6. \A k \in 1 .. n : k - 1 \in G => k \in G
  <2> SUFFICES ASSUME NEW k \in 1 .. n, \A i \in 0 .. k - 1 : Good(i) PROVE Good(k)
    BY <1>1
  <2>1. /\ k \in Nat /\ k - 1 \in 0 .. k - 1 /\ Good(k - 1) /\ path[k] \in STRING
        /\ g[k] = Take(g[k - 1], path[k])
    BY <1>1, <1>3
  <2>2. TakeOK(g[k])
    <3>1. TakeOK(g[k - 1])
      BY <2>1
    <3>2. TakeOK(Take(g[k - 1], path[k]))
      BY <2>1, <3>1, TakeKeeps
    <3> QED
      BY <2>1, <3>2
  <2>3. g[k].inside <=> path[k] # "/"
    <3>1. DOMAIN g[k - 1] = {"names", "inside"}
      BY <2>1 DEF TakeOK
    <3>2. CASE path[k] = "/"
      BY <2>1, <3>1, <3>2 DEF Take
    <3>3. CASE path[k] # "/"
      BY <2>1, <3>1, <3>3 DEF Take
    <3> QED
      BY <3>2, <3>3
  <2>4. ASSUME path[k] # "/" PROVE Inside(k)
    <3>1. k # 1
      BY <2>4
    <3>2. k \in 2 .. n /\ k \in 2 .. Len(path)
      BY <1>1, <2>1, <3>1 DEF n
    <3>3. CASE g[k - 1].inside
      <4>1. PICK j \in 1 .. (k - 1) - 1 : Began(g, path, j, k - 1)
        BY <2>1, <3>3
      <4>2. j \in 1 .. k - 2 /\ j \in 0 .. k - 1 /\ j \in 1 .. k - 1
        BY <3>2
      <4>3. TakeOK(g[j])
        BY <4>2
      <4>4. Began(g, path, j, k)
        BY <2>1, <2>4, <3>2, <3>3, <4>1, <4>2, <4>3, TakeGoesOn
      <4> QED
        BY <4>2, <4>4
    <3>4. CASE ~g[k - 1].inside
      <4>1. path[k - 1] = "/"
        BY <2>1, <3>2, <3>4
      <4>2. Began(g, path, k - 1, k)
        BY <2>1, <2>4, <3>2, <3>4, <4>1, TakeBegins
      <4> QED
        BY <3>2, <4>2
    <3> QED
      BY <3>3, <3>4
  <2> QED
    BY <2>2, <2>3, <2>4
<1> HIDE DEF G
<1>7. n \in G
  BY <1>1, <1>5, <1>6, TakeFold!CountUp
<1>8. /\ \A i \in 0 .. n : Good(i)
  BY <1>7 DEF G
<1>9. PICK j \in 1 .. n - 1 : Began(g, path, j, n)
  BY <1>1, <1>8
<1>10. j \in 1 .. n /\ j - 1 \in 0 .. n /\ TakeOK(g[j - 1]) /\ n \in 0 .. n
  BY <1>1, <1>8
<1>11. g[j].names = g[j - 1].names
  BY <1>3, <1>9, <1>10 DEF Began, Take, TakeOK
<1>12. Cut(path, n) = path
  BY <1>1, CutIs DEF n
<1>13. Components(path) = Append(Components(Cut(path, j - 1)), Slice(path, j, n))
  BY <1>4, <1>9, <1>10, <1>11, <1>12 DEF Began
<1> QED
  BY <1>9, <1>13 DEF n

LEMMA CopyFits ==
  ASSUME NEW a \in Text, NEW b \in Text
  PROVE  /\ CopyOver(b, a) \in Text
         /\ Len(CopyOver(b, a)) = IF Len(b) <= Len(a) THEN Len(a) ELSE Len(b)
         /\ Len(b) <= Len(a) => CopyOver(b, a) = a
<1> DEFINE l == Len(a)
           m == Len(b)
           rest == SubSeq(b, l + 1, m)
<1>1. a \in Seq(STRING) /\ b \in Seq(STRING) /\ l \in Nat /\ m \in Nat
  BY DEF Text
<1>2. CopyOver(b, a) = a \o rest
  BY DEF CopyOver
<1>3. CASE m <= l
  <2>1. rest = << >>
    BY <1>1, <1>3
  <2>2. a \o << >> = a
    BY <1>1
  <2> HIDE DEF rest
  <2> QED
    BY <1>1, <1>2, <1>3, <2>1, <2>2 DEF Text
<1>4. CASE ~(m <= l)
  <2>1. l <= m /\ m <= Len(b) /\ rest = Slice(b, l, m)
    BY <1>1, <1>4 DEF Slice
  <2>2. IsSlice(Slice(b, l, m), STRING, b, l, m)
    BY <1>1, <2>1, SliceIs
  <2> HIDE DEF rest
  <2>3. rest \in Seq(STRING) /\ Len(rest) = m - l
    BY <2>1, <2>2 DEF IsSlice
  <2>4. a \o rest \in Seq(STRING) /\ Len(a \o rest) = l + (m - l)
    BY <1>1, <2>3
  <2> HIDE DEF l, m
  <2>5. l + (m - l) = m
    BY <1>1
  <2> QED
    BY <1>2, <1>4, <2>4, <2>5 DEF Text, l, m
<1> QED
  BY <1>3, <1>4

\* The copies of the names one over the other, if none is longer than the last.
LEMMA LongestStays ==
  ASSUME NEW names \in Seq(Text), Len(names) >= 1,
         \A i \in DOMAIN names : Len(names[i]) <= Len(names[Len(names)])
  PROVE  FoldLeft(CopyOver, << >>, names) = names[Len(names)]
<1> DEFINE n == Len(names)
           last == names[n]
           l == Len(last)
<1>1. /\ n \in Nat /\ n >= 1 /\ DOMAIN names = 1 .. n
      /\ \A k \in 1 .. n : names[k] \in Text /\ Len(names[k]) <= l
      /\ last \in Text /\ l \in Nat
  BY DEF Text
<1> HIDE DEF l, last, n
<1>2. PICK g : CopyFold!Values(g, << >>, names, n)
  BY <1>1, CopyFold!FoldSteps
<1>3. /\ g[0] = << >> /\ FoldLeft(CopyOver, << >>, names) = g[n]
      /\ \A k \in 1 .. n : g[k] = CopyOver(g[k - 1], names[k])
  BY <1>2, PathFoldsAre DEF CopyFold!Values
<1> DEFINE Fits(k) == g[k] \in Text /\ Len(g[k]) <= l
           G == {k \in 0 .. n : Fits(k)}
<1>4. 0 \in G
  <2>1. << >> \in Text /\ Len(<< >>) <= l /\ 0 \in 0 .. n
    BY <1>1 DEF Text
  <2> QED
    BY <1>3, <2>1
<1>5. \A k \in 1 .. n : k - 1 \in G => k \in G
  <2> SUFFICES ASSUME NEW k \in 1 .. n, Fits(k - 1) PROVE Fits(k)
    BY <1>1
  <2>1. names[k] \in Text /\ Len(names[k]) <= l /\ Len(names[k]) \in Nat
    BY <1>1 DEF Text
  <2>2. g[k - 1] \in Text /\ Len(g[k - 1]) <= l
    OBVIOUS
  <2>3. /\ CopyOver(g[k - 1], names[k]) \in Text
        /\ Len(CopyOver(g[k - 1], names[k])) \in {Len(names[k]), Len(g[k - 1])}
    BY <2>1, <2>2, CopyFits
  <2> QED
    BY <1>3, <2>1, <2>2, <2>3
<1> HIDE DEF G
<1>6. n \in 1 .. n /\ n - 1 \in 0 .. n /\ n - 1 \in Nat
  BY <1>1
<1>7. \A k \in 1 .. n - 1 : k - 1 \in G => k \in G
  BY <1>1, <1>5
<1>8. n - 1 \in G
  BY <1>4, <1>6, <1>7, CopyFold!CountUp
<1>9. g[n - 1] \in Text /\ Len(g[n - 1]) <= l
  BY <1>8 DEF G
<1>10. CopyOver(g[n - 1], last) = last
  BY <1>1, <1>9, CopyFits DEF l
<1> QED
  BY <1>3, <1>6, <1>10 DEF last, n

\* What the client makes of a plain path: the name and the directory that are meant.
LEMMA PlainPathIs ==
  ASSUME NEW path \in Text, myparse(path), Plain(path)
  PROVE  /\ Components(path) = Append(Components(Parent(path)), LastName(path))
         /\ Parent(path) \in Text /\ LastName(path) \in Text
         /\ Cut(newfilename(path), MAX_FILE_NAME_SIZE - 1) = LastName(path)
         /\ Len(Components(path)) > 1 => newdirname(path) = Parent(path)
         /\ Len(Components(path)) = 1 => Components(Parent(path)) = << >>
         /\ pname(path) = path /\ pname(newdirname(path)) = newdirname(path)
         /\ Len(Components(path)) >= 1
         /\ newfilename(path) = LastName(path)
<1> DEFINE n == Len(path)
           names == Components(path)
           c == Len(names)
<1>1. /\ n \in Nat /\ n >= 1 /\ path[1] = "/" /\ path[n] # "/" /\ n <= MAX_FILE_NAME_SIZE
      /\ MAX_FILE_NAME_SIZE \in Nat
  <2>1. n \in Nat /\ n >= 1
    <3>1. n \in 1 .. MAX_PATH_NAME_SIZE - 1
      BY DEF myparse
    <3> QED
      BY <3>1 DEF Text
  <2>2. path[n] # "/" /\ n <= MAX_FILE_NAME_SIZE
    BY DEF Plain
  <2>3. path[1] = "/" /\ MAX_FILE_NAME_SIZE \in Nat
    BY ParsedIs, PathAssumption
  <2> QED
    BY <2>1, <2>2, <2>3
<1>2. PICK j \in 1 .. n - 1 :
         names = Append(Components(Cut(path, j - 1)), Slice(path, j, n))
  BY <1>1, LastNameAt
<1> DEFINE dir == Cut(path, j - 1)
           last == Slice(path, j, n)
<1>3. dir \in Text /\ Len(dir) = j - 1 /\ last \in Text /\ Len(last) = n - j
  <2>1. j - 1 \in 0 .. n /\ j \in Nat /\ j <= n /\ n <= Len(path) /\ path \in Seq(STRING)
    BY <1>1 DEF Text
  <2>2. IsSlice(last, STRING, path, j, n)
    BY <1>1, <2>1, SliceIs
  <2>3. last \in Text /\ Len(last) = n - j
    <3> HIDE DEF last
    <3> QED
      BY <2>2 DEF IsSlice, Text
  <2> QED
    BY <2>1, <2>3, PrefixIs
<1>4. Components(dir) \in Seq(Text) /\ names \in Seq(Text)
  BY <1>3, ComponentsAre
<1> HIDE DEF dir, last, names
<1>5. /\ names = Append(Components(dir), last)
  BY <1>2 DEF dir, last
<1>6. c \in Nat /\ c >= 1 /\ c = Len(Components(dir)) + 1 /\ names[c] = last
      /\ DOMAIN names = 1 .. c
  BY <1>3, <1>4, <1>5
<1>7. LastName(path) = last
  BY <1>6 DEF LastName, names
<1>8. Parent(path) = dir
  <2>1. n - Len(last) - 1 = j - 1
    BY <1>1, <1>3
  <2> QED
    BY <1>7, <2>1 DEF Parent, dir, n
<1>9. Len(last) < MAX_FILE_NAME_SIZE /\ Len(last) \in Nat
  <2>1. \A i \in DOMAIN names : Len(names[i]) < MAX_FILE_NAME_SIZE
    BY ParsedIs DEF names
  <2>2. Len(names[c]) < MAX_FILE_NAME_SIZE
    BY <1>6, <2>1
  <2>3. Len(last) \in Nat
    BY <1>3 DEF Text
  <2> QED
    BY <1>6, <2>2, <2>3
<1>10. Cut(last, MAX_FILE_NAME_SIZE - 1) = last
  <2>1. MAX_FILE_NAME_SIZE - 1 \in Int /\ MAX_FILE_NAME_SIZE - 1 >= Len(last)
    BY <1>1, <1>9
  <2> QED
    BY <1>3, <2>1, CutIs
<1>11. FoldLeft(CopyOver, << >>, names) = last
  <2>1. \A i \in DOMAIN names : Len(names[i]) <= Len(names[c])
    BY DEF Plain, names, c
  <2>2. FoldLeft(CopyOver, << >>, names) = names[c]
    BY <1>4, <1>6, <2>1, LongestStays
  <2> QED
    BY <1>6, <2>2
<1>12. ASSUME c > 1 PROVE newfilename(path) = last /\ newdirname(path) = dir
  <2>1. newfilename(path) = last
    BY <1>11, <1>12 DEF newfilename, names, c
  <2>2. n - (Len(last) + 1) = j - 1
    BY <1>1, <1>3
  <2>3. newdirname(path) = dir
    BY <1>12, <2>1, <2>2 DEF newdirname, dir, n, names, c
  <2> QED
    BY <2>1, <2>3
<1>13. ASSUME c = 1
       PROVE  /\ Components(dir) = << >> /\ newdirname(path) = path
              /\ newfilename(path) = last
  <2>1. InRoot(path)
    BY <1>1, <1>13 DEF InRoot, names, c, n
  <2>2. names = Single(RootName(path)) /\ newdirname(path) = path
        /\ newfilename(path) = RootName(path)
    BY <2>1, RootPathIs, RootNames DEF names
  <2>3. last = RootName(path)
    BY <1>6, <1>13, <2>2 DEF Single
  <2>4. Len(Components(dir)) = 0
    BY <1>4, <1>6, <1>13
  <2> QED
    BY <1>4, <2>2, <2>3, <2>4
<1>14. pname(path) = path /\ pname(dir) = dir
  <2>1. /\ MAX_FILE_NAME_SIZE \in Int /\ MAX_FILE_NAME_SIZE >= n
        /\ MAX_FILE_NAME_SIZE >= Len(dir)
    BY <1>1, <1>3
  <2> QED
    BY <1>3, <2>1, CutIs DEF pname, n
<1>15. pname(newdirname(path)) = newdirname(path)
  <2>1. newdirname(path) = dir \/ newdirname(path) = path
    BY <1>6, <1>12, <1>13
  <2> QED
    BY <1>14, <2>1
<1>16. newfilename(path) = last
  <2>1. CASE c > 1
    BY <1>12, <2>1
  <2>2. CASE c = 1
    BY <1>13, <2>2
  <2> QED
    BY <1>6, <2>1, <2>2
<1>17. Cut(newfilename(path), MAX_FILE_NAME_SIZE - 1) = last
  BY <1>10, <1>16
<1> QED
  BY <1>3, <1>5, <1>6, <1>7, <1>8, <1>12, <1>13, <1>14, <1>15, <1>16, <1>17 DEF names, c

\* "returns the name of the file" and "the directory" that a plain path means, for
\* every path my_open can get: what newfilename and newdirname make of it.
THEOREM PlainPathsSplit ==
  \A path \in Text : myparse(path) /\ Plain(path) => SplitsRight(path)
BY PlainPathIs DEF SplitsRight

-----------------------------------------------------------------------------
(* Where paths lead.                                                       *)

\* The entry n of directory d; and where a list of names leads.
Below(st, d, n) ==
    IF IsKind(st, d, "dir") /\ n \in Listed(st, d) THEN st.listing[d][n] ELSE 0

At(st, names) == FoldLeft(Down, [st |-> st, at |-> ROOT], names).at

Walk(g, st, names, n) ==
    /\ g[0] = ROOT /\ g[n] = At(st, names)
    /\ \A k \in 1 .. n : g[k] = Below(st, g[k - 1], names[k])

LEMMA WalkIs ==
  ASSUME NEW st, NEW names, NEW n \in Nat, DOMAIN names = 1 .. n
  PROVE  \E g : Walk(g, st, names, n)
<1> DEFINE base == [st |-> st, at |-> ROOT]
           Good(acc) == DOMAIN acc = {"st", "at"} /\ acc.st = st
<1>0. base.at = ROOT /\ Good(base)
  OBVIOUS
<1> HIDE DEF base
<1>1. PICK h : DownFold!Values(h, base, names, n)
  BY DownFold!FoldSteps
<1>2. /\ h[0] = base /\ FoldLeft(Down, base, names) = h[n]
      /\ \A k \in 1 .. n : h[k] = Down(h[k - 1], names[k])
  BY <1>1, PathFoldsAre DEF DownFold!Values
<1>3. ASSUME NEW acc, Good(acc), NEW x
      PROVE  Good(Down(acc, x)) /\ Down(acc, x).at = Below(st, acc.at, x)
  BY <1>3 DEF Down, Below
<1> HIDE DEF Good
<1> DEFINE G == {k \in 0 .. n : Good(h[k])}
           g == [k \in 0 .. n |-> h[k].at]
<1>4. 0 \in G
  BY <1>0, <1>2
<1>5. \A k \in 1 .. n : k - 1 \in G => k \in G
  BY <1>2, <1>3
<1>6. \A k \in 0 .. n : Good(h[k])
  <2> HIDE DEF G
  <2>1. \A k \in 0 .. n : k \in G
    BY <1>4, <1>5, DownFold!CountUp
  <2> QED
    BY <2>1 DEF G
<1>7. g[0] = ROOT /\ g[n] = At(st, names)
  BY <1>0, <1>2 DEF At, base
<1>8. ASSUME NEW k \in 1 .. n PROVE g[k] = Below(st, g[k - 1], names[k])
  <2>1. k \in 0 .. n /\ k - 1 \in 0 .. n
    OBVIOUS
  <2>2. h[k].at = Below(st, h[k - 1].at, names[k])
    BY <1>2, <1>3, <1>6, <2>1
  <2> QED
    BY <2>1, <2>2
<1> HIDE DEF g
<1> QED
  BY <1>7, <1>8 DEF Walk

LEMMA LeadsOn ==
  ASSUME NEW st, NEW names \in Seq(Text), NEW x \in Text
  PROVE  At(st, Append(names, x)) = Below(st, At(st, names), x)
<1> DEFINE n == Len(names)
           all == Append(names, x)
<1>1. /\ n \in Nat /\ DOMAIN names = 1 .. n /\ DOMAIN all = 1 .. n + 1
      /\ all[n + 1] = x /\ \A k \in 1 .. n : all[k] = names[k]
  OBVIOUS
<1> HIDE DEF all, n
<1>2. PICK g : Walk(g, st, names, n)
  BY <1>1, WalkIs
<1>3. PICK h : Walk(h, st, all, n + 1)
  <2>1. n + 1 \in Nat
    BY <1>1
  <2> QED
    BY <1>1, <2>1, WalkIs
<1> DEFINE G == {k \in 0 .. n : h[k] = g[k]}
<1>4. 0 \in G
  BY <1>1, <1>2, <1>3 DEF Walk
<1>5. \A k \in 1 .. n : k - 1 \in G => k \in G
  <2> SUFFICES ASSUME NEW k \in 1 .. n, h[k - 1] = g[k - 1] PROVE h[k] = g[k]
    BY <1>1
  <2>1. k \in 1 .. n + 1
    BY <1>1
  <2> QED
    BY <1>1, <1>2, <1>3, <2>1 DEF Walk
<1> HIDE DEF G
<1>6. n \in G
  BY <1>1, <1>4, <1>5, TakeFold!CountUp
<1>7. n + 1 \in 1 .. n + 1 /\ (n + 1) - 1 = n
  BY <1>1
<1> QED
  BY <1>1, <1>2, <1>3, <1>6, <1>7 DEF Walk, G, all

\* What is listed stays listed, under the same name and with the same kind.
Kept(old, new) ==
    /\ \A i \in Used(old) : new.kind[i] = old.kind[i]
    /\ \A d \in Inode : \A n \in Listed(old, d) :
          n \in Listed(new, d) /\ new.listing[d][n] = old.listing[d][n]

LEMMA LeadsSame ==
  ASSUME NEW old, StoreOK(old), NEW new, Kept(old, new), NEW names \in Seq(Text),
         At(old, names) # 0
  PROVE  At(new, names) = At(old, names)
<1> DEFINE n == Len(names)
<1>1. n \in Nat /\ DOMAIN names = 1 .. n
  OBVIOUS
<1> HIDE DEF n
<1>2. PICK g : Walk(g, old, names, n)
  BY <1>1, WalkIs
<1>3. PICK h : Walk(h, new, names, n)
  BY <1>1, WalkIs
<1>4. ASSUME NEW d \in {0} \cup Used(old), NEW x
      PROVE  /\ Below(old, d, x) \in {0} \cup Used(old)
             /\ Below(old, d, x) # 0 => d # 0 /\ Below(new, d, x) = Below(old, d, x)
  <2>1. CASE IsKind(old, d, "dir") /\ x \in Listed(old, d)
    <3>1. d \in Inode /\ d # 0 /\ d \in Used(old) /\ old.listing[d][x] \in Used(old)
      BY <2>1, StoreTyped DEF IsKind, StoreOK, Used
    <3>2. IsKind(new, d, "dir") /\ x \in Listed(new, d)
          /\ new.listing[d][x] = old.listing[d][x]
      BY <2>1, <3>1 DEF Kept, IsKind
    <3> QED
      BY <2>1, <3>1, <3>2 DEF Below
  <2>2. CASE ~(IsKind(old, d, "dir") /\ x \in Listed(old, d))
    BY <2>2 DEF Below
  <2> QED
    BY <2>1, <2>2
<1> DEFINE Good(k) == g[k] \in {0} \cup Used(old) /\ (g[k] # 0 => h[k] = g[k])
           G == {k \in 0 .. n : Good(k)}
<1>5. 0 \in G
  <2>1. ROOT \in Used(old)
    BY StoreTyped
  <2> QED
    BY <1>1, <1>2, <1>3, <2>1 DEF Walk
<1>6. \A k \in 1 .. n : k - 1 \in G => k \in G
  <2> SUFFICES ASSUME NEW k \in 1 .. n, Good(k - 1) PROVE Good(k)
    BY <1>1
  <2>1. g[k] = Below(old, g[k - 1], names[k]) /\ h[k] = Below(new, h[k - 1], names[k])
    BY <1>2, <1>3 DEF Walk
  <2> QED
    BY <1>4, <2>1
<1> HIDE DEF G
<1>7. n \in G
  BY <1>1, <1>5, <1>6, TakeFold!CountUp
<1> QED
  BY <1>2, <1>3, <1>7 DEF Walk, G

\* So a path that leads somewhere goes on leading there.
LEMMA ResolvesSame ==
  ASSUME NEW old, StoreOK(old), NEW new, Kept(old, new), NEW path \in Text,
         Resolve(old, path) # 0
  PROVE  Resolve(new, path) = Resolve(old, path)
<1>1. Components(path) \in Seq(Text)
  BY ComponentsAre
<1> QED
  BY <1>1, LeadsSame DEF At, Resolve

LEMMA PlainResolves ==
  ASSUME NEW st, NEW path \in Text, myparse(path), Plain(path)
  PROVE  /\ Resolve(st, path) = Below(st, Resolve(st, Parent(path)), LastName(path))
         /\ Len(Components(path)) = 1 => Resolve(st, Parent(path)) = ROOT
<1> DEFINE names == Components(Parent(path))
           last == LastName(path)
<1>1. /\ Components(path) = Append(names, last) /\ Parent(path) \in Text /\ last \in Text
      /\ Len(Components(path)) = 1 => names = << >>
  BY PlainPathIs
<1>2. names \in Seq(Text)
  BY <1>1, ComponentsAre
<1> HIDE DEF names, last
<1>3. At(st, Components(path)) = Below(st, At(st, names), last)
  BY <1>1, <1>2, LeadsOn
<1>4. At(st, << >>) = ROOT
  <2>1. PICK g : Walk(g, st, << >>, 0)
    <3>1. DOMAIN << >> = 1 .. 0 /\ 0 \in Nat
      OBVIOUS
    <3> QED
      BY <3>1, WalkIs
  <2> QED
    BY <2>1 DEF Walk
<1> QED
  BY <1>1, <1>3, <1>4 DEF At, Resolve, names, last

-----------------------------------------------------------------------------
(* What a server says of names.                                            *)

\* What an answer says of the file it names, when all goes well.
TellsOK(req, a, st) ==
    /\ ~a.ok => a.file = 0
    /\ a.ok /\ req.type = "lookup" =>
          a.file # 0 /\ a.file = Resolve(st, req.path)
    /\ a.ok /\ req.type = "make" =>
          a.file # 0 /\ a.file = Below(st, req.dir, MadeName(req))

LEMMA KeptSame ==
  ASSUME NEW st
  PROVE  Kept(st, st)
BY DEF Kept

LEMMA MadeKeeps ==
  ASSUME NEW st, StoreOK(st), NEW req, req.type = "make", RequestOK(req, st)
  PROVE  /\ Kept(st, snfs_make(st, req).store)
         /\ TellsOK(req, snfs_make(st, req).answer, snfs_make(st, req).store)
<1> DEFINE n == Cut(req.name, MAX_FILE_NAME_SIZE - 1)
           d == req.dir
           i == Min(FreeInodes(st))
           after == [st EXCEPT !.kind[i] = req.kind, !.listing[d][n] = i]
           a == [RES_OK EXCEPT !.file = i]
<1>1. n \in Name /\ req.kind \in {"dir", "file"}
  BY DEF RequestOK
<1>2. \/ snfs_make(st, req) = Failed(st)
      \/ /\ IsKind(st, d, "dir") /\ n \notin Listed(st, d) /\ FreeInodes(st) # {}
         /\ snfs_make(st, req) = [store |-> after, answer |-> a]
  BY DEF snfs_make, Taken
<1>3. CASE snfs_make(st, req) = Failed(st)
  <2>1. ~RES_ERROR.ok /\ RES_ERROR.file = 0
    BY DEF RES_ERROR
  <2> QED
    BY <1>3, <2>1, KeptSame DEF Failed, TellsOK
<1>4. CASE /\ IsKind(st, d, "dir") /\ n \notin Listed(st, d) /\ FreeInodes(st) # {}
           /\ snfs_make(st, req) = [store |-> after, answer |-> a]
  <2>0. a.ok /\ a.file = i
    BY AnswersAre
  <2>1. i \in FreeInodes(st) /\ i \in Inode /\ st.kind[i] = "free"
    <3>1. FreeInodes(st) \in SUBSET Nat
      BY DEF FreeInodes, Inode
    <3>2. i \in FreeInodes(st)
      BY <1>4, <3>1, LeastIs
    <3> QED
      BY <3>2 DEF FreeInodes
  <2> HIDE DEF i
  <2>2. d \in Inode /\ st.kind[d] = "dir" /\ i # d
    BY <1>4, <2>1 DEF IsKind
  <2>3. /\ after.kind = [st.kind EXCEPT ![i] = req.kind]
        /\ after.listing = [st.listing EXCEPT ![d][n] = i]
    BY StoreTyped
  <2>5. /\ \A j \in Inode : j # i => after.kind[j] = st.kind[j]
        /\ after.listing[d][n] = i
        /\ \A m \in Name : m # n => after.listing[d][m] = st.listing[d][m]
        /\ \A e \in Inode : e # d => after.listing[e] = st.listing[e]
    BY <1>1, <2>1, <2>2, <2>3, StoreTyped
  <2> HIDE DEF after, a, n
  <2>6. /\ \A j \in Used(st) : after.kind[j] = st.kind[j]
        /\ \A e \in Inode : \A m \in Listed(st, e) :
              m \in Name /\ after.listing[e][m] = st.listing[e][m]
    BY <1>4, <2>1, <2>5 DEF Used, Listed
  <2>7. Kept(st, after)
    BY <2>6 DEF Kept, Listed
  <2>8. Below(after, d, n) = i
    <3>1. n \in Listed(after, d)
      BY <1>1, <2>1, <2>5, NoEntryAssumption DEF Listed
    <3>2. IsKind(after, d, "dir")
      BY <2>2, <2>5 DEF IsKind
    <3> QED
      BY <2>5, <3>1, <3>2 DEF Below
  <2>9. MadeName(req) = n
    BY DEF MadeName, n
  <2>10. TellsOK(req, a, after)
    <3>1. i # 0
      BY <2>1 DEF Inode
    <3> QED
      BY <2>0, <2>8, <2>9, <3>1 DEF TellsOK
  <2> QED
    BY <1>4, <2>7, <2>10
<1> QED
  BY <1>2, <1>3, <1>4

\* Whatever a server is asked for.
LEMMA ServeTells ==
  ASSUME NEW st, StoreOK(st), NEW req, RequestOK(req, st)
  PROVE  /\ Kept(st, Serve(st, req).store)
         /\ TellsOK(req, Serve(st, req).answer, Serve(st, req).store)
<1>1. ~RES_ERROR.ok /\ RES_ERROR.file = 0
  BY DEF RES_ERROR
<1>2. TellsOK(req, Failed(st).answer, Failed(st).store) /\ Kept(st, Failed(st).store)
  BY <1>1, KeptSame DEF Failed, TellsOK
<1>3. CASE req.type = "lookup"
  <2> DEFINE i == Resolve(st, req.path)
             a == [RES_OK EXCEPT !.file = i, !.size = SizeOf(st, i)]
  <2>1. Serve(st, req) = IF i = 0 THEN Failed(st) ELSE [store |-> st, answer |-> a]
    BY <1>3 DEF Serve, snfs_lookup
  <2>2. a.ok /\ a.file = i
    BY AnswersAre
  <2> HIDE DEF a, i
  <2>3. CASE i = 0
    BY <1>2, <2>1, <2>3
  <2>4. CASE i # 0
    <3>1. TellsOK(req, a, st)
      BY <1>3, <2>2, <2>4 DEF TellsOK, i
    <3> QED
      BY <2>1, <2>4, <3>1, KeptSame
  <2> QED
    BY <2>3, <2>4
<1>4. CASE req.type = "make"
  BY <1>4, MadeKeeps DEF Serve
<1>5. CASE req.type \in {"read", "write", "readdir"}
  <2>1. \/ Serve(st, req) = Failed(st)
        \/ Serve(st, req).answer.ok
    BY <1>5, AnswersAre DEF Serve, snfs_read, snfs_write, snfs_readdir
  <2>2. /\ Serve(st, req).store.kind = st.kind
        /\ Serve(st, req).store.listing = st.listing
    BY <1>5, StoreTyped DEF Serve, snfs_read, snfs_write, snfs_readdir, Failed
  <2>3. Kept(st, Serve(st, req).store)
    BY <2>2 DEF Kept, Listed
  <2>4. TellsOK(req, Serve(st, req).answer, Serve(st, req).store)
    <3>1. CASE Serve(st, req) = Failed(st)
      BY <1>2, <3>1
    <3>2. CASE Serve(st, req).answer.ok
      BY <1>5, <3>2 DEF TellsOK
    <3> QED
      BY <2>1, <3>1, <3>2
  <2> QED
    BY <2>3, <2>4
<1> QED
  BY <1>3, <1>4, <1>5 DEF RequestOK

LEMMA TellsSame ==
  ASSUME NEW old, StoreOK(old), NEW new, Kept(old, new), NEW req, RequestOK(req, old),
         NEW a, TellsOK(req, a, old)
  PROVE  TellsOK(req, a, new)
<1>1. CASE req.type = "lookup"
  <2>1. req.path \in Text
    BY <1>1 DEF RequestOK
  <2> QED
    BY <1>1, <2>1, ResolvesSame DEF TellsOK
<1>2. CASE req.type = "make"
  <2>1. Below(old, req.dir, MadeName(req)) # 0 =>
           Below(new, req.dir, MadeName(req)) = Below(old, req.dir, MadeName(req))
    BY DEF Below, Kept, IsKind, Used
  <2> QED
    BY <1>2, <2>1 DEF TellsOK
<1>3. CASE req.type \notin {"lookup", "make"}
  BY <1>3 DEF TellsOK
<1> QED
  BY <1>1, <1>2, <1>3

-----------------------------------------------------------------------------
(* What my_open opens.                                                     *)

\* The requests of my_open: a directory that was not found is 0.
AsksOK(o, req, st) ==
    /\ o.at = "open" => req = LookupRequest(o.path)
    /\ o.at = "open_dir" => req = LookupRequest(newdirname(o.path))
    /\ o.at = "open_create" =>
          \E d : /\ req = CreateRequest(o.path, d)
                 /\ Plain(o.path) => d \in {0, Resolve(st, Parent(o.path))}

NamedFile(fd, st) ==
    fd.path \in Text /\ (Plain(fd.path) => Resolve(st, fd.path) = fd.fileId)

NamesOK(fds, st) == \A i \in DOMAIN fds : NamedFile(fds[i], st)

NamedClient(c) ==
    /\ NamesOK(Open_files_list[c], store[0])
    /\ AsksOK(op[c], call[c].req, store[0])
    /\ cli_box[c] # << >> => TellsOK(call[c].req, cli_box[c][1].answer, store[0])

NamedInv == \A c \in Client : NamedClient(c)

LEMMA NamesStay ==
  ASSUME NEW old, StoreOK(old), NEW new, Kept(old, new)
  PROVE  /\ \A fds : FilesOK(fds, old) /\ NamesOK(fds, old) => NamesOK(fds, new)
         /\ \A fds, o, req : OpOK(o, fds, req, old) /\ AsksOK(o, req, old)
                                  => AsksOK(o, req, new)
<1>0. 0 \notin Used(old)
  BY DEF Used, Inode
<1>1. ASSUME NEW fds, FilesOK(fds, old), NamesOK(fds, old) PROVE NamesOK(fds, new)
  <2> SUFFICES ASSUME NEW i \in DOMAIN fds PROVE NamedFile(fds[i], new)
    BY DEF NamesOK
  <2>1. fds[i].fileId # 0 /\ NamedFile(fds[i], old)
    BY <1>0, <1>1 DEF FilesOK, FileOK, NamesOK
  <2>2. ASSUME Plain(fds[i].path) PROVE Resolve(new, fds[i].path) = fds[i].fileId
    <3>1. /\ fds[i].path \in Text /\ Resolve(old, fds[i].path) = fds[i].fileId
          /\ Resolve(old, fds[i].path) # 0
      BY <2>1, <2>2 DEF NamedFile
    <3>2. Resolve(new, fds[i].path) = Resolve(old, fds[i].path)
      BY <3>1, ResolvesSame
    <3> QED
      BY <3>1, <3>2
  <2> QED
    BY <2>1, <2>2 DEF NamedFile
<1>2. ASSUME NEW fds, NEW o, NEW req, OpOK(o, fds, req, old), AsksOK(o, req, old)
      PROVE  AsksOK(o, req, new)
  <2>1. ASSUME o.at = "open_create"
        PROVE  \E d : /\ req = CreateRequest(o.path, d)
                      /\ Plain(o.path) => d \in {0, Resolve(new, Parent(o.path))}
    <3>1. PICK d : /\ req = CreateRequest(o.path, d)
                   /\ Plain(o.path) => d \in {0, Resolve(old, Parent(o.path))}
      BY <1>2, <2>1 DEF AsksOK
    <3>2. ASSUME Plain(o.path), d # 0 PROVE d = Resolve(new, Parent(o.path))
      <4>1. o.path \in Text /\ myparse(o.path)
        BY <1>2, <2>1, PathsAreTexts DEF OpOK, OpeningOK, Opening
      <4>2. Parent(o.path) \in Text
        BY <3>2, <4>1, PlainPathIs
      <4>3. d = Resolve(old, Parent(o.path))
        BY <3>1, <3>2
      <4> QED
        BY <3>2, <4>2, <4>3, ResolvesSame
    <3> QED
      BY <3>1, <3>2
  <2> QED
    BY <1>2, <2>1 DEF AsksOK
<1> QED
  BY <1>1, <1>2

\* A step that is not about client d.
LEMMA NamedKept ==
  ASSUME NEW d \in Client, ClientOK(d), NamedClient(d),
         StoreOK(store[0]), Kept(store[0], store'[0]),
         call'[d] = call[d], cli_box'[d] = cli_box[d], op'[d] = op[d],
         Open_files_list'[d] = Open_files_list[d]
  PROVE  NamedClient(d)'
<1>1. NamesOK(Open_files_list[d], store'[0])
  BY NamesStay DEF ClientOK, NamedClient
<1>2. AsksOK(op[d], call[d].req, store'[0])
  BY NamesStay DEF ClientOK, NamedClient
<1>3. cli_box[d] # << >> => TellsOK(call[d].req, cli_box[d][1].answer, store'[0])
  <2>1. cli_box[d] # << >> => RequestOK(call[d].req, store[0])
    BY DEF ClientOK, LinkOK, Waiting
  <2> QED
    BY <2>1, TellsSame DEF NamedClient
<1> QED
  BY <1>1, <1>2, <1>3 DEF NamedClient

LEMMA NamedInit == Registered = {1} /\ MyFsInit => NamedInv
<1> SUFFICES ASSUME Registered = {1}, MyFsInit, NEW c \in Client PROVE NamedClient(c)
  BY DEF NamedInv
<1>1. /\ cli_box[c] = << >> /\ Open_files_list[c] = << >> /\ op[c] = Idle
  BY DEF MyFsInit, RemoteInit
<1>2. Idle.at = "idle" /\ DOMAIN << >> = {}
  BY DEF Idle
<1> QED
  BY <1>1, <1>2 DEF NamedClient, NamesOK, AsksOK

LEMMA NamedHandle ==
  ASSUME OneInv, NamedInv, NEW s \in Server, NEW msg \in srv_box[s],
         Handle(s, msg), UNCHANGED myVars
  PROVE  NamedInv'
<1> DEFINE c == msg.from
           st == store[0]
           served == Serve(st, msg.req)
           rep == Reply(msg, served.answer)
<1>1. NetTypeOK /\ Server = {0} /\ s = 0 /\ StoreOK(st)
  BY ServerIs DEF OneInv
<1>2. /\ store' = [store EXCEPT ![0] = served.store]
      /\ cli_box' = [cli_box EXCEPT ![c] = Append(@, rep)]
      /\ call' = call
      /\ op' = op /\ Open_files_list' = Open_files_list
  BY <1>1 DEF Handle, myVars
<1>3. /\ c \in Client /\ ClientOK(c) /\ cli_box[c] = << >>
      /\ msg.req = call[c].req /\ RequestOK(msg.req, st)
  BY <1>1 DEF OneInv, ClientOK, LinkOK, NetTypeOK, IsMessage, Waiting
<1>4. Kept(st, served.store) /\ TellsOK(msg.req, served.answer, served.store)
  BY <1>1, <1>3, ServeTells
<1>5. rep.answer = served.answer
  BY DEF Reply
<1> HIDE DEF rep, served, st
<1>6. /\ store'[0] = served.store /\ cli_box'[c] = Append(<< >>, rep)
      /\ \A d \in Client : d # c => cli_box'[d] = cli_box[d]
  BY <1>1, <1>2, <1>3 DEF OneInv, NetTypeOK
<1>7. cli_box'[c][1] = rep
  BY <1>6
<1>8. ASSUME NEW d \in Client, d # c PROVE NamedClient(d)'
  BY <1>1, <1>2, <1>4, <1>6, <1>8, NamedKept DEF OneInv, NamedInv, st
<1>9. NamedClient(c)'
  <2>1. NamesOK(Open_files_list[c], store'[0]) /\ AsksOK(op[c], call[c].req, store'[0])
    BY <1>1, <1>3, <1>4, <1>6, NamesStay DEF ClientOK, NamedClient, NamedInv, st
  <2>2. TellsOK(call'[c].req, cli_box'[c][1].answer, store'[0])
    BY <1>2, <1>3, <1>4, <1>5, <1>6, <1>7
  <2> QED
    BY <1>2, <2>1, <2>2 DEF NamedClient
<1> QED
  BY <1>8, <1>9 DEF NamedInv

\* A step of client c alone, which leaves nothing in its socket.
Alone(c) ==
    /\ store' = store /\ cli_box'[c] = << >>
    /\ \A d \in Client \ {c} : /\ call'[d] = call[d] /\ cli_box'[d] = cli_box[d]
                               /\ op'[d] = op[d]
                               /\ Open_files_list'[d] = Open_files_list[d]

LEMMA NamedAlone ==
  ASSUME OneInv, NamedInv, NEW c \in Client, Alone(c),
         NamesOK(Open_files_list'[c], store[0]),
         AsksOK(op'[c], call'[c].req, store[0])
  PROVE  NamedInv'
<1>1. ASSUME NEW d \in Client, d # c PROVE NamedClient(d)'
  BY <1>1, NamedKept, KeptSame DEF OneInv, NamedInv, Alone
<1>2. NamedClient(c)'
  BY DEF NamedClient, Alone
<1> QED
  BY <1>1, <1>2 DEF NamedInv

\* How a call begins.
LEMMA BeginsAlone ==
  ASSUME OneInv, NEW c \in Client, NEW o, NEW req, NEW all, Begin(c, o, req, all), SameFiles
  PROVE  /\ Alone(c) /\ op'[c] = o /\ call'[c].req = req
         /\ Open_files_list'[c] = Open_files_list[c]
<1>1. NetTypeOK /\ OpsOK /\ op[c].at = "idle"
  BY DEF OneInv, Begin
<1>2. /\ cli_box' = cli_box /\ store' = store /\ op' = [op EXCEPT ![c] = o]
      /\ Issue(c, req, all) /\ Open_files_list' = Open_files_list
  BY DEF Begin, Goto, SameFiles
<1>3. cli_box[c] = << >>
  <2>1. ~Waiting(c) /\ LinkOK(c)
    BY <1>1 DEF Waiting, OneInv, ClientOK, OpsOK, Resting
  <2> QED
    BY <2>1 DEF LinkOK
<1>4. call'[c].req = req /\ \A d \in Client \ {c} : call'[d] = call[d]
  BY <1>1, <1>2 DEF Issue, NetTypeOK
<1>5. op'[c] = o /\ \A d \in Client \ {c} : op'[d] = op[d]
  BY <1>1, <1>2 DEF OpsOK
<1> QED
  BY <1>2, <1>3, <1>4, <1>5 DEF Alone

\* How it goes on.
LEMMA ComesBack ==
  ASSUME OneInv, NEW c \in Client, Returns(c), TakeLast(c)
  PROVE  /\ store' = store /\ cli_box'[c] = << >>
         /\ \A d \in Client \ {c} : cli_box'[d] = cli_box[d]
<1>1. NetTypeOK /\ BoxTaken(c) /\ cli_box'[c] = << >> /\ store' = store
  BY ResultIs DEF OneInv
<1> QED
  BY <1>1, BoxTakenFrom

FilesOfOne(c) ==
    \A d \in Client \ {c} : Open_files_list'[d] = Open_files_list[d]

LEMMA ReturnsAlone ==
  ASSUME OneInv, NEW c \in Client, NEW label, Back(c, label), FilesOfOne(c),
         NEW o, Goto(c, o), EndCall(c)
  PROVE  Alone(c) /\ op'[c] = o
<1>1. NetTypeOK /\ OpsOK /\ Returns(c) /\ TakeLast(c)
  BY DEF OneInv, Back
<1>2. \A d \in Client \ {c} : call'[d] = call[d]
  BY <1>1 DEF EndCall, NetTypeOK
<1>3. op'[c] = o /\ \A d \in Client \ {c} : op'[d] = op[d]
  BY <1>1 DEF OpsOK, Goto
<1> QED
  BY <1>1, <1>2, <1>3, ComesBack DEF Alone, FilesOfOne

LEMMA AsksAlone ==
  ASSUME OneInv, NEW c \in Client, NEW label, Back(c, label), FilesOfOne(c),
         NEW o, NEW req, NEW all, Next_call(c, o, req, all)
  PROVE  Alone(c) /\ op'[c] = o /\ call'[c].req = req
<1>1. NetTypeOK /\ OpsOK /\ Returns(c) /\ TakeLast(c)
  BY DEF OneInv, Back
<1>2. call'[c].req = req /\ \A d \in Client \ {c} : call'[d] = call[d]
  BY <1>1 DEF Next_call, Issue, NetTypeOK
<1>3. op'[c] = o /\ \A d \in Client \ {c} : op'[d] = op[d]
  BY <1>1 DEF OpsOK, Next_call, Goto
<1> QED
  BY <1>1, <1>2, <1>3, ComesBack DEF Alone, FilesOfOne

\* Outside my_open there is nothing to say of the request.
LEMMA OthersAsk ==
  ASSUME NEW o, o.at \notin Opening, NEW req, NEW st
  PROVE  AsksOK(o, req, st)
BY DEF AsksOK, Opening

\* Functions that leave the files alone.
LEMMA NamedBegins ==
  ASSUME OneInv, NamedInv, NEW c \in Client, NEW o, NEW req, NEW all,
         Begin(c, o, req, all), SameFiles, AsksOK(o, req, store[0])
  PROVE  NamedInv'
<1>1. NamesOK(Open_files_list[c], store[0])
  BY DEF NamedInv, NamedClient
<1> QED
  BY <1>1, BeginsAlone, NamedAlone

LEMMA NamedReturns ==
  ASSUME OneInv, NamedInv, NEW c \in Client, NEW label, Back(c, label), Return(c), SameFiles
  PROVE  NamedInv'
<1> DEFINE o == [op[c] EXCEPT !.at = "idle"]
<1>1. NamesOK(Open_files_list[c], store[0]) /\ FilesOfOne(c)
      /\ Open_files_list'[c] = Open_files_list[c]
  BY DEF NamedInv, NamedClient, SameFiles, FilesOfOne
<1>2. Goto(c, o) /\ EndCall(c)
  BY DEF Return
<1>3. o.at \notin Opening
  BY DEF OneInv, OpsOK, OpFields, Opening
<1> HIDE DEF o
<1>4. Alone(c) /\ op'[c] = o
  BY <1>1, <1>2, ReturnsAlone
<1> QED
  BY <1>1, <1>3, <1>4, OthersAsk, NamedAlone

LEMMA NamedAsks ==
  ASSUME OneInv, NamedInv, NEW c \in Client, NEW label, Back(c, label), SameFiles,
         NEW o, NEW req, NEW all, Next_call(c, o, req, all), AsksOK(o, req, store[0])
  PROVE  NamedInv'
<1>1. NamesOK(Open_files_list[c], store[0]) /\ FilesOfOne(c)
      /\ Open_files_list'[c] = Open_files_list[c]
  BY DEF NamedInv, NamedClient, SameFiles, FilesOfOne
<1> QED
  BY <1>1, AsksAlone, NamedAlone

LEMMA NamedCalls ==
  ASSUME OneInv, NamedInv, NEW c \in Client, MyCall(c)
  PROVE  NamedInv'
<1>1. ASSUME NEW p \in OpenPath, NEW create \in BOOLEAN, my_open(c, p, create)
      PROVE  NamedInv'
  <2> DEFINE o == [Idle EXCEPT !.at = "open", !.path = p, !.create = create]
  <2>1. Begin(c, o, LookupRequest(p), FALSE) /\ SameFiles
    BY <1>1 DEF my_open
  <2>2. o.at = "open" /\ o.path = p
    BY DEF Idle
  <2> HIDE DEF o
  <2>3. AsksOK(o, LookupRequest(p), store[0])
    BY <2>2 DEF AsksOK
  <2> QED
    BY <2>1, <2>3, NamedBegins
<1>2. ASSUME NEW o, NEW req, NEW all, Begin(c, o, req, all), SameFiles, o.at \notin Opening
      PROVE  NamedInv'
  BY <1>2, OthersAsk, NamedBegins
<1>3. ASSUME NEW p \in DirPath, my_mkdir(c, p) PROVE NamedInv'
  <2> DEFINE o == [Idle EXCEPT !.at = "mkdir", !.path = p]
  <2>1. Begin(c, o, LookupRequest(p), FALSE) /\ SameFiles
    BY <1>3 DEF my_mkdir
  <2>2. o.at \notin Opening
    BY DEF Idle, Opening
  <2> HIDE DEF o
  <2> QED
    BY <1>2, <2>1, <2>2
<1>4. ASSUME NEW p \in ListPath, my_listdir(c, p) PROVE NamedInv'
  <2> DEFINE o == [Idle EXCEPT !.path = p]
             root == [o EXCEPT !.at = "list_dir"]
             other == [o EXCEPT !.at = "list"]
  <2>1. /\ SameFiles
        /\ \/ Begin(c, root, ListRequest(ROOT), FALSE)
           \/ Begin(c, other, LookupRequest(p), FALSE)
    BY <1>4 DEF my_listdir
  <2>2. root.at \notin Opening /\ other.at \notin Opening
    BY DEF Idle, Opening
  <2> HIDE DEF root, other
  <2> QED
    BY <1>2, <2>1, <2>2
<1>5. ASSUME NEW id, NEW n, my_read(c, id, n) PROVE NamedInv'
  <2> DEFINE fd == fdesc(c, id)
             num == InSize(fd, n)
             o == [Idle EXCEPT !.at = "read", !.file = id, !.left = num,
                               !.from = fd.read_offset]
  <2>1. Begin(c, o, ReadRequest(fd, num), FALSE) /\ SameFiles
    BY <1>5 DEF my_read
  <2>2. o.at \notin Opening
    BY DEF Idle, Opening
  <2> HIDE DEF o, num, fd
  <2> QED
    BY <1>2, <2>1, <2>2
<1>6. ASSUME NEW id, NEW n, my_write(c, id, n) PROVE NamedInv'
  <2> DEFINE o == [Idle EXCEPT !.at = "write", !.file = id, !.left = n]
             req == WriteRequest(fdesc(c, id), n)
  <2>1. Begin(c, o, req, TRUE) /\ SameFiles
    BY <1>6 DEF my_write
  <2>2. o.at \notin Opening
    BY DEF Idle, Opening
  <2> HIDE DEF o, req
  <2> QED
    BY <1>2, <2>1, <2>2
<1>7. ASSUME NEW id, my_close(c, id) PROVE NamedInv'
  <2> DEFINE old == Open_files_list[c]
             fds == queue_node_remove(old, id)
  <2>1. /\ op[c].at = "idle" /\ queue_node_search(old, id)
        /\ Open_files_list' = [Open_files_list EXCEPT ![c] = fds]
        /\ op' = [op EXCEPT ![c] = Idle]
        /\ UNCHANGED <<store, cli_box, call>>
    BY <1>7 DEF my_close, Goto, rcVars
  <2>2. FilesOK(old, store[0]) /\ NamesOK(old, store[0])
    BY DEF OneInv, ClientOK, NamedInv, NamedClient
  <2>3. \A k \in DOMAIN fds : \E i \in DOMAIN old : fds[k] = old[i]
    BY <2>1, <2>2, RemoveIs
  <2> HIDE DEF fds
  <2>4. NamesOK(fds, store[0])
    BY <2>2, <2>3 DEF NamesOK
  <2>5. Open_files_list'[c] = fds /\ op'[c] = Idle
    BY <2>1 DEF OneInv, OpsOK
  <2>6. Alone(c)
    <3>1. ~Waiting(c) /\ LinkOK(c)
      BY <2>1 DEF Waiting, OneInv, ClientOK, OpsOK, Resting
    <3>2. cli_box'[c] = << >>
      BY <2>1, <3>1 DEF LinkOK
    <3>3. \A d \in Client \ {c} : op'[d] = op[d] /\ Open_files_list'[d] = Open_files_list[d]
      BY <2>1
    <3> QED
      BY <2>1, <3>2, <3>3 DEF Alone
  <2>7. Idle.at \notin Opening
    BY DEF Idle, Opening
  <2> QED
    BY <2>4, <2>5, <2>6, <2>7, OthersAsk, NamedAlone
<1> QED
  BY <1>1, <1>3, <1>4, <1>5, <1>6, <1>7 DEF MyCall

\* my_read and my_write change a descriptor, but not what it is of.
LEMMA NamedSetFile ==
  ASSUME OneInv, NamedInv, NEW c \in Client,
         queue_node_search(Open_files_list[c], op[c].file),
         NEW fd, SetFile(c, fd),
         fd.path = fdesc(c, op[c].file).path, fd.fileId = fdesc(c, op[c].file).fileId
  PROVE  FilesOfOne(c) /\ NamesOK(Open_files_list'[c], store[0])
<1> DEFINE fds == Open_files_list[c]
           p == queue_node_get(fds, op[c].file)
<1>1. NamesOK(fds, store[0]) /\ DOMAIN Open_files_list = Client /\ IsSeq(fds)
  BY DEF NamedInv, NamedClient, OneInv, ClientOK, FilesOK
<1>2. p \in DOMAIN fds
  BY <1>1, FirstIs
<1>3. Open_files_list' = [Open_files_list EXCEPT ![c][p] = fd]
  BY DEF SetFile
<1>4. fd.path = fds[p].path /\ fd.fileId = fds[p].fileId
  BY DEF fdesc
<1> HIDE DEF p
<1>5. Open_files_list'[c] = [fds EXCEPT ![p] = fd] /\ FilesOfOne(c)
  BY <1>1, <1>3 DEF FilesOfOne
<1> DEFINE new == Open_files_list'[c]
<1>6. DOMAIN new = DOMAIN fds /\ new[p] = fd /\ \A i \in DOMAIN fds : i # p => new[i] = fds[i]
  BY <1>2, <1>5
<1> HIDE DEF new
<1>7. NamesOK(new, store[0])
  BY <1>1, <1>2, <1>4, <1>6 DEF NamesOK, NamedFile
<1> QED
  BY <1>5, <1>7 DEF new

LEMMA NamedParts ==
  ASSUME OneInv, NamedInv, NEW c \in Client, ReadPart(c) \/ WritePart(c)
  PROVE  NamedInv'
<1>0. OpOK(op[c], Open_files_list[c], call[c].req, store[0]) /\ DOMAIN op[c] = OpFields
  BY DEF OneInv, ClientOK, OpsOK
<1>1. ASSUME op[c].at \in {"read", "write"}
      PROVE  /\ queue_node_search(Open_files_list[c], op[c].file)
             /\ FileOK(fdesc(c, op[c].file), store[0])
  <2>1. queue_node_search(Open_files_list[c], op[c].file)
    BY <1>0, <1>1 DEF OpOK, ReadingOK, WritingOK
  <2> QED
    BY <2>1, FileIs
<1>2. ASSUME NEW label, Back(c, label), NEW fd, SetFile(c, fd), op[c].at \in {"read", "write"},
             fd.path = fdesc(c, op[c].file).path, fd.fileId = fdesc(c, op[c].file).fileId,
             NEW o, o.at \notin Opening,
             \/ Goto(c, o) /\ EndCall(c)
             \/ \E req, all : Next_call(c, o, req, all)
      PROVE  NamedInv'
  <2>1. FilesOfOne(c) /\ NamesOK(Open_files_list'[c], store[0])
    BY <1>1, <1>2, NamedSetFile
  <2>2. Alone(c) /\ op'[c] = o
    BY <1>2, <2>1, ReturnsAlone, AsksAlone
  <2> QED
    BY <1>2, <2>1, <2>2, OthersAsk, NamedAlone
<1>3. CASE ReadPart(c)
  <2> DEFINE old == fdesc(c, op[c].file)
             data == Result(c).data
             fd == AdvanceRead(old, Len(data))
             o == [op[c] EXCEPT !.left = @ - Len(data), !.buffer = @ \o data]
             last == [o EXCEPT !.at = "idle"]
  <2>1. /\ Back(c, "read") /\ SetFile(c, fd) /\ op[c].at = "read"
        /\ \/ Goto(c, last) /\ EndCall(c)
           \/ Next_call(c, o, ReadRequest(fd, o.left), FALSE)
    BY <1>3 DEF ReadPart, Back
  <2>2. o.at \notin Opening /\ last.at \notin Opening
    BY <1>0, <2>1 DEF OpFields, Opening
  <2>3. fd.path = old.path /\ fd.fileId = old.fileId
    <3>1. DOMAIN old = FileFields
      BY <1>1, <2>1 DEF FileOK
    <3> HIDE DEF old
    <3> QED
      BY <3>1 DEF AdvanceRead, FileFields
  <2> HIDE DEF o, last, fd
  <2> QED
    BY <1>2, <2>1, <2>2, <2>3
<1>4. CASE WritePart(c)
  <2> DEFINE old == fdesc(c, op[c].file)
             n == Min({MAX_WRITE_DATA, op[c].left})
             fd == Written(old, Result(c).size, n)
             o == [op[c] EXCEPT !.left = @ - n]
             last == [op[c] EXCEPT !.at = "idle"]
  <2>1. /\ Back(c, "write") /\ SetFile(c, fd) /\ op[c].at = "write"
        /\ \/ Goto(c, last) /\ EndCall(c)
           \/ Next_call(c, o, WriteRequest(fd, o.left), TRUE)
    BY <1>4 DEF WritePart, Back, Return
  <2>2. o.at \notin Opening /\ last.at \notin Opening
    BY <1>0, <2>1 DEF OpFields, Opening
  <2>3. fd.path = old.path /\ fd.fileId = old.fileId
    <3>1. DOMAIN old = FileFields
      BY <1>1, <2>1 DEF FileOK
    <3> HIDE DEF old
    <3> QED
      BY <3>1 DEF Written, FileFields
  <2> HIDE DEF o, last, fd
  <2> QED
    BY <1>2, <2>1, <2>2, <2>3
<1> QED
  BY <1>3, <1>4

\* A new descriptor.
LEMMA NamedAdds ==
  ASSUME OneInv, NamedInv, NEW c \in Client, NEW label, Back(c, label), Return(c),
         NEW fd, AddFile(c, fd), NamedFile(fd, store[0])
  PROVE  NamedInv'
<1> DEFINE fds == Open_files_list[c]
           new == Append(fds, fd)
           o == [op[c] EXCEPT !.at = "idle"]
<1>1. NamesOK(fds, store[0]) /\ DOMAIN Open_files_list = Client /\ IsSeq(fds)
  BY DEF NamedInv, NamedClient, OneInv, ClientOK, FilesOK
<1>2. /\ DOMAIN new = 1 .. Len(fds) + 1 /\ DOMAIN fds = 1 .. Len(fds) /\ Len(fds) \in Nat
      /\ \A i \in 1 .. Len(fds) : new[i] = fds[i]
      /\ new[Len(fds) + 1] = fd
  BY <1>1, AppendIsSeq
<1>3. Open_files_list'[c] = new /\ FilesOfOne(c)
  BY <1>1 DEF AddFile, FilesOfOne
<1> HIDE DEF new
<1>4. NamesOK(new, store[0])
  BY <1>1, <1>2 DEF NamesOK
<1>5. Goto(c, o) /\ EndCall(c)
  BY DEF Return
<1>6. o.at \notin Opening
  BY DEF OneInv, OpsOK, OpFields, Opening
<1> HIDE DEF o
<1>7. Alone(c) /\ op'[c] = o
  BY <1>3, <1>5, ReturnsAlone
<1> QED
  BY <1>3, <1>4, <1>6, <1>7, OthersAsk, NamedAlone

\* What my_open is told.
LEMMA ToldIs ==
  ASSUME OneInv, NamedInv, NEW c \in Client, NEW label, Back(c, label)
  PROVE  /\ TellsOK(call[c].req, Result(c), store[0])
         /\ AsksOK(op[c], call[c].req, store[0]) /\ op[c].at = label
         /\ label \in Opening => op[c].path \in Text /\ myparse(op[c].path)
         /\ DOMAIN op[c] = OpFields
<1>0. /\ Returns(c) /\ op[c].at = label /\ AsksOK(op[c], call[c].req, store[0])
      /\ DOMAIN op[c] = OpFields
  BY DEF Back, NamedInv, NamedClient, OneInv, OpsOK
<1>1. TellsOK(call[c].req, Result(c), store[0])
  <2>1. CASE ~call[c].sent
    <3>1. Result(c) = RES_ERROR
      BY <2>1 DEF Result
    <3>2. ~RES_ERROR.ok /\ RES_ERROR.file = 0
      BY DEF RES_ERROR
    <3> QED
      BY <3>1, <3>2 DEF TellsOK
  <2>2. CASE call[c].sent
    <3> DEFINE box == cli_box[c]
               a == Head(box).answer
    <3>1. box # << >> /\ LinkOK(c) /\ NetTypeOK
      BY <1>0, <2>2 DEF Returns, IsLast, Arrived, OneInv, ClientOK
    <3>2. Head(box) = box[1] /\ call[c].got = << >>
      BY <3>1 DEF LinkOK
    <3>3. Answers(c) = Append(<< >>, a)
      BY <3>2 DEF Answers
    <3> HIDE DEF a
    <3>4. Answers(c)[1] = a
      BY <3>3
    <3>5. Result(c) = a
      BY <2>2, <3>4 DEF Result
    <3>6. TellsOK(call[c].req, box[1].answer, store[0])
      BY <3>1 DEF NamedInv, NamedClient
    <3> QED
      BY <3>2, <3>5, <3>6 DEF a
  <2> QED
    BY <2>1, <2>2
<1>2. label \in Opening => op[c].path \in Text /\ myparse(op[c].path)
  BY <1>0, PathsAreTexts DEF OneInv, ClientOK, OpOK, OpeningOK
<1> QED
  BY <1>0, <1>1, <1>2

LEMMA NamedOpens ==
  ASSUME OneInv, NamedInv, NEW c \in Client,
         OpenFound(c) \/ OpenNotFound(c) \/ OpenDir(c) \/ OpenCreated(c)
  PROVE  NamedInv'
<1> DEFINE path == op[c].path
           st == store[0]
           res == Result(c)
<1>1. CASE OpenFound(c)
  <2> DEFINE fd == Opened(res.file, res.size, path, FALSE)
  <2>1. Back(c, "open") /\ Return(c) /\ res.ok /\ AddFile(c, fd)
    BY <1>1 DEF OpenFound
  <2>2. /\ TellsOK(call[c].req, res, st) /\ call[c].req = LookupRequest(path)
        /\ path \in Text /\ myparse(path)
    BY <2>1, ToldIs DEF AsksOK, Opening
  <2>3. fd.path = path /\ fd.fileId = res.file
    BY DEF Opened
  <2> HIDE DEF fd, res, path, st
  <2>4. Plain(path) => Resolve(st, path) = res.file
    <3>1. Plain(path) => LookupRequest(path).path = path
      BY <2>2, PlainPathIs DEF LookupRequest, Lookup
    <3>2. call[c].req.type = "lookup"
      BY <2>2, SearchesOK
    <3> QED
      BY <2>1, <2>2, <3>1, <3>2 DEF TellsOK
  <2>5. NamedFile(fd, st)
    BY <2>2, <2>3, <2>4 DEF NamedFile
  <2> QED
    BY <2>1, <2>5, NamedAdds DEF st
<1>2. CASE OpenNotFound(c)
  <2> DEFINE o == [op[c] EXCEPT !.at = "open_dir"]
             req == LookupRequest(newdirname(path))
  <2>1. Back(c, "open") /\ Next_call(c, o, req, FALSE) /\ SameFiles
    BY <1>2 DEF OpenNotFound
  <2>2. o.at = "open_dir" /\ o.path = path
    BY <2>1, ToldIs DEF OpFields
  <2> HIDE DEF o, path
  <2>3. AsksOK(o, req, store[0])
    BY <2>2 DEF AsksOK
  <2> HIDE DEF req
  <2> QED
    BY <2>1, <2>3, NamedAsks
<1>3. CASE OpenDir(c)
  <2> DEFINE o == [op[c] EXCEPT !.at = "open_create", !.fsize = res.size]
             dir == DirOf(path, res.file)
             req == CreateRequest(path, dir)
  <2>1. /\ Back(c, "open_dir") /\ SameFiles
        /\ Next_call(c, o, req, TRUE) \/ Return(c)
    BY <1>3 DEF OpenDir
  <2>2. o.at = "open_create" /\ o.path = path
    BY <2>1, ToldIs DEF OpFields
  <2>3. /\ TellsOK(call[c].req, res, st)
        /\ call[c].req = LookupRequest(newdirname(path))
        /\ path \in Text /\ myparse(path)
    BY <2>1, ToldIs DEF AsksOK, Opening
  <2> HIDE DEF o, path, res, st
  <2>4. ASSUME Plain(path) PROVE dir \in {0, Resolve(st, Parent(path))}
    <3>1. CASE Len(Components(path)) = 1
      BY <2>3, <2>4, <3>1, PlainResolves DEF DirOf
    <3>2. CASE Len(Components(path)) # 1
      <4>1. /\ newdirname(path) = Parent(path)
            /\ pname(newdirname(path)) = newdirname(path)
        <5>1. Components(path) \in Seq(Text)
          BY <2>3, ComponentsAre
        <5>2. Len(Components(path)) \in Nat
          BY <5>1
        <5>3. Len(Components(path)) >= 1
          BY <2>3, <2>4, PlainPathIs
        <5>4. \A k \in Nat : k >= 1 /\ k # 1 => k > 1
          OBVIOUS
        <5>5. Len(Components(path)) > 1
          BY <3>2, <5>2, <5>3, <5>4
        <5> QED
          BY <2>3, <2>4, <5>5, PlainPathIs
      <4>2. LookupRequest(newdirname(path)).path = Parent(path)
        BY <4>1 DEF LookupRequest, Lookup
      <4>3. LookupRequest(newdirname(path)).type = "lookup"
        BY SearchesOK
      <4>4. res.file \in {0, Resolve(st, Parent(path))}
        BY <2>3, <4>2, <4>3 DEF TellsOK
      <4>5. dir = res.file
        BY <3>2 DEF DirOf
      <4> QED
        BY <4>4, <4>5
    <3> QED
      BY <3>1, <3>2
  <2> HIDE DEF dir
  <2>5. AsksOK(o, req, st)
    BY <2>2, <2>4 DEF AsksOK
  <2> HIDE DEF req
  <2>6. CASE Next_call(c, o, req, TRUE)
    BY <2>1, <2>5, <2>6, NamedAsks DEF st
  <2>7. CASE Return(c)
    BY <2>1, <2>7, NamedReturns
  <2> QED
    BY <2>1, <2>6, <2>7
<1>4. CASE OpenCreated(c)
  <2> DEFINE fd == Opened(res.file, op[c].fsize, path, TRUE)
  <2>1. /\ Back(c, "open_create") /\ Return(c)
        /\ IF res.ok THEN AddFile(c, fd) ELSE SameFiles
    BY <1>4 DEF OpenCreated
  <2>2. /\ TellsOK(call[c].req, res, st) /\ AsksOK(op[c], call[c].req, st)
        /\ op[c].at = "open_create" /\ path \in Text /\ myparse(path)
    BY <2>1, ToldIs DEF Opening
  <2>3. PICK d : /\ call[c].req = CreateRequest(path, d)
                 /\ Plain(path) => d \in {0, Resolve(st, Parent(path))}
    BY <2>2 DEF AsksOK
  <2>4. fd.path = path /\ fd.fileId = res.file
    BY DEF Opened
  <2> HIDE DEF fd, res, path, st
  <2>5. CASE res.ok
    <3>1. ASSUME Plain(path) PROVE Resolve(st, path) = res.file
      <4>1. /\ call[c].req.type = "make" /\ call[c].req.dir = d
            /\ call[c].req.name = newfilename(path)
        BY <2>3 DEF CreateRequest, Make
      <4>2. MadeName(call[c].req) = LastName(path)
        BY <2>2, <3>1, <4>1, PlainPathIs DEF MadeName
      <4>3. res.file # 0 /\ res.file = Below(st, d, LastName(path))
        BY <2>2, <2>5, <4>1, <4>2 DEF TellsOK
      <4>4. d # 0
        BY <4>3 DEF Below, IsKind, Inode
      <4>5. d = Resolve(st, Parent(path))
        BY <2>3, <3>1, <4>4
      <4> QED
        BY <2>2, <3>1, <4>3, <4>5, PlainResolves
    <3>2. NamedFile(fd, st)
      BY <2>2, <2>4, <3>1 DEF NamedFile
    <3>3. AddFile(c, fd)
      BY <2>1, <2>5
    <3> QED
      BY <2>1, <3>2, <3>3, NamedAdds DEF st
  <2>6. CASE ~res.ok
    BY <2>1, <2>6, NamedReturns
  <2> QED
    BY <2>5, <2>6
<1> QED
  BY <1>1, <1>2, <1>3, <1>4

LEMMA NamedOthers ==
  ASSUME OneInv, NamedInv, NEW c \in Client,
         \/ ListFound(c) \/ MkdirLookedUp(c) \/ MkdirDir(c)
         \/ PartFails(c) \/ Listing(c) \/ MkdirMade(c) \/ Exit(c)
  PROVE  NamedInv'
<1>1. ASSUME NEW label, Back(c, label), Return(c), SameFiles PROVE NamedInv'
  BY <1>1, NamedReturns
<1>2. ASSUME NEW label, Back(c, label), SameFiles, NEW at, at \notin Opening, NEW req, NEW all,
             Next_call(c, [op[c] EXCEPT !.at = at], req, all)
      PROVE  NamedInv'
  <2> DEFINE o == [op[c] EXCEPT !.at = at]
  <2>1. o.at \notin Opening
    BY <1>2, ToldIs DEF OpFields
  <2>2. Next_call(c, o, req, all)
    BY <1>2
  <2> HIDE DEF o
  <2> QED
    BY <1>2, <2>1, <2>2, OthersAsk, NamedAsks
<1>3. CASE ListFound(c)
  <2> DEFINE req == ListRequest(Result(c).file)
  <2>1. /\ Back(c, "list") /\ SameFiles
        /\ Next_call(c, [op[c] EXCEPT !.at = "list_dir"], req, FALSE) \/ Return(c)
    BY <1>3 DEF ListFound
  <2>2. "list_dir" \notin Opening
    BY DEF Opening
  <2> HIDE DEF req
  <2> QED
    BY <1>1, <1>2, <2>1, <2>2
<1>4. CASE MkdirLookedUp(c)
  <2> DEFINE made == MkdirRequest(op[c].path, ROOT)
             search == LookupRequest(newdirname(op[c].path))
  <2>1. /\ Back(c, "mkdir") /\ SameFiles
        /\ \/ Return(c)
           \/ Next_call(c, [op[c] EXCEPT !.at = "mkdir_make"], made, TRUE)
           \/ Next_call(c, [op[c] EXCEPT !.at = "mkdir_dir"], search, FALSE)
    BY <1>4 DEF MkdirLookedUp
  <2>2. "mkdir_make" \notin Opening /\ "mkdir_dir" \notin Opening
    BY DEF Opening
  <2> HIDE DEF made, search
  <2> QED
    BY <1>1, <1>2, <2>1, <2>2
<1>5. CASE MkdirDir(c)
  <2> DEFINE made == MkdirRequest(op[c].path, Result(c).file)
  <2>1. /\ Back(c, "mkdir_dir") /\ SameFiles
        /\ \/ Return(c)
           \/ Next_call(c, [op[c] EXCEPT !.at = "mkdir_make"], made, TRUE)
    BY <1>5 DEF MkdirDir
  <2>2. "mkdir_make" \notin Opening
    BY DEF Opening
  <2> HIDE DEF made
  <2> QED
    BY <1>1, <1>2, <2>1, <2>2
<1>6. CASE PartFails(c) \/ Listing(c) \/ MkdirMade(c)
  <2>1. PICK label : Back(c, label)
    BY <1>6 DEF PartFails, Listing, MkdirMade
  <2>2. Return(c) /\ SameFiles
    BY <1>6 DEF PartFails, Listing, MkdirMade
  <2> QED
    BY <1>1, <2>1, <2>2
<1>7. CASE Exit(c)
  BY <1>7, ResultIs DEF Exit
<1> QED
  BY <1>3, <1>4, <1>5, <1>6, <1>7

LEMMA NamedNext == OneInv /\ NamedInv /\ [MyFsNext]_fsVars => NamedInv'
<1> SUFFICES ASSUME OneInv, NamedInv, [MyFsNext]_fsVars PROVE NamedInv'
  OBVIOUS
<1>1. ASSUME UNCHANGED <<store, call, cli_box, op, Open_files_list>> PROVE NamedInv'
  <2>1. ASSUME NEW d \in Client PROVE NamedClient(d)'
    BY <1>1, NamedKept, KeptSame DEF OneInv, NamedInv
  <2> QED
    BY <2>1 DEF NamedInv
<1>2. CASE UNCHANGED fsVars
  BY <1>1, <1>2 DEF fsVars, rcVars, myVars
<1>3. CASE RemoteStep /\ UNCHANGED myVars
  <2>1. ASSUME NEW s \in Server, Stop(s) PROVE NamedInv'
    BY <1>1, <1>3, <2>1 DEF Stop, myVars
  <2> QED
    BY <1>3, <2>1, NamedHandle, OneRecv DEF RemoteStep
<1>4. ASSUME NEW c \in Client, MyCall(c) PROVE NamedInv'
  BY <1>4, NamedCalls
<1>5. ASSUME NEW c \in Client, MyStep(c) PROVE NamedInv'
  BY <1>5, NamedOpens, NamedParts, NamedOthers DEF MyStep
<1> QED
  BY <1>2, <1>3, <1>4, <1>5 DEF MyFsNext

\* The descriptor that my_open returns (myfs.c:57-144) is of the file with the path it
\* was given, as long as the path is plain; other clients may make the directory or
\* the file between its calls.
THEOREM OpenedCorrect == Registered = {1} => (MyFsSpec => []OpenedWhatWasNamed)
<1>1. OneInv /\ NamedInv => OpenedWhatWasNamed
  <2> SUFFICES ASSUME OneInv, NamedInv, NEW c \in Client, NEW fd \in Descriptors(c),
                      NEW s \in up, Plain(fd.path)
               PROVE  Resolve(store[s], fd.path) = fd.fileId
    BY DEF OpenedWhatWasNamed
  <2>1. s = 0
    BY ServerIs DEF OneInv, NetTypeOK
  <2>2. NamedFile(fd, store[0])
    BY DEF NamedInv, NamedClient, NamesOK, Descriptors, ToSet
  <2> QED
    BY <2>1, <2>2 DEF NamedFile
<1>2. ASSUME Registered = {1} PROVE MyFsSpec => []OpenedWhatWasNamed
  <2>1. MyFsInit => NamedInv
    BY <1>2, NamedInit
  <2> QED
    BY <1>1, <1>2, <2>1, NamedNext, OneInvHolds, PTL DEF MyFsSpec
<1> QED
  BY <1>2
=============================================================================
