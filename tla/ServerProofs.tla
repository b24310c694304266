---------------------------- MODULE ServerProofs ----------------------------
(***************************************************************************)
(* The request loop, for every finite number of consumers, every size of   *)
(* the ring and all requests: the readers-writers lock excludes, counts    *)
(* and prefers right, handlers that write run alone, one wait queue is     *)
(* enough, and each request is at one place of its way.                    *)
(***************************************************************************)
EXTENDS Server, QueueProofs

-----------------------------------------------------------------------------
(* The readers-writers lock.  The monitor is not needed for it: what a     *)
(* thread does inside it is one action.                                    *)

Readers == {"reading", "runlock"}
Writers == {"writing", "wunlock"}

\* Who has the lock: one writer and no reader, or no writer.
Exclusive ==
    \A t, u \in Consumer : rwpc[t] \in Writers =>
        rwpc[u] \notin Readers /\ (rwpc[u] \in Writers => t = u)

RwInv == /\ rwpc \in [Consumer -> RwLabel]
         /\ CountersMatch
         /\ Exclusive

-----------------------------------------------------------------------------
(* Threads at a label, before and after a step.                            *)

LEMMA AtLabelsFinite ==
    ASSUME NEW S
    PROVE  IsFiniteSet(AtLabels(S)) /\ Cardinality(AtLabels(S)) \in Nat
<1>1. AtLabels(S) \subseteq Consumer
    BY DEF AtLabels
<1> QED
    BY <1>1, ConsumerAssumption, FS_Subset, FS_CardinalityType

\* How often a thread at this label is counted in the set S.
Counts(label, S) == IF label \in S THEN 1 ELSE 0

\* A thread moves from one label to another: the number of threads at S.
LEMMA MoveCounts ==
    ASSUME NEW S, NEW t \in Consumer, NEW to \in RwLabel,
           rwpc \in [Consumer -> RwLabel],
           rwpc' = [rwpc EXCEPT ![t] = to]
    PROVE  Cardinality(AtLabels(S)')
               = Cardinality(AtLabels(S)) + Counts(to, S) - Counts(rwpc[t], S)
<1>0. IsFiniteSet(AtLabels(S)) /\ Cardinality(AtLabels(S)) \in Nat
    BY AtLabelsFinite
<1>1. \A u \in Consumer : rwpc'[u] = IF u = t THEN to ELSE rwpc[u]
    OBVIOUS
<1>2. CASE rwpc[t] \in S <=> to \in S
  <2>1. AtLabels(S)' = AtLabels(S)
      BY <1>1, <1>2 DEF AtLabels
  <2> QED
      BY <1>0, <1>2, <2>1 DEF Counts
<1>3. CASE rwpc[t] \notin S /\ to \in S
  <2>1. AtLabels(S)' = AtLabels(S) \cup {t} /\ t \notin AtLabels(S)
      BY <1>1, <1>3 DEF AtLabels
  <2>2. Cardinality(AtLabels(S)') = Cardinality(AtLabels(S)) + 1
      BY <1>0, <2>1, FS_AddElement
  <2> QED
      BY <1>0, <1>3, <2>2 DEF Counts
<1>4. CASE rwpc[t] \in S /\ to \notin S
  <2>1. AtLabels(S)' = AtLabels(S) \ {t} /\ t \in AtLabels(S)
      BY <1>1, <1>4 DEF AtLabels
  <2>2. Cardinality(AtLabels(S)') = Cardinality(AtLabels(S)) - 1
      BY <1>0, <2>1, FS_RemoveElement
  <2> QED
      BY <1>0, <1>4, <2>2 DEF Counts
<1> QED
    BY <1>2, <1>3, <1>4

LEMMA CountZero ==
    ASSUME NEW S, Cardinality(AtLabels(S)) = 0
    PROVE  \A t \in Consumer : rwpc[t] \notin S
<1>1. AtLabels(S) = {}
    BY AtLabelsFinite, FS_EmptySet
<1> QED
    BY <1>1 DEF AtLabels

-----------------------------------------------------------------------------
(* RwInv is an invariant.                                                  *)

LEMMA RwInvInit == RwInit => RwInv
<1> SUFFICES ASSUME RwInit PROVE RwInv
    OBVIOUS
<1>1. \A S : S \cap {"out"} = {} => AtLabels(S) = {}
    BY DEF RwInit, AtLabels
<1>2. /\ AtLabels(Readers) = {} /\ AtLabels(Writers) = {}
      /\ AtLabels({"wloop"}) = {}
    BY <1>1 DEF Readers, Writers
<1>3. CountersMatch
    BY <1>2, FS_EmptySet DEF CountersMatch, RwInit, Readers, Writers
<1> QED
    BY <1>3 DEF RwInv, RwInit, RwLabel, Exclusive, Writers

\* What a step that moves t does to the counters, and when it may let t in.
Moves(t, to) ==
    /\ to \in RwLabel
    /\ rwpc' = [rwpc EXCEPT ![t] = to]
    /\ readers_active' = readers_active + Counts(to, Readers) - Counts(rwpc[t], Readers)
    /\ writers_waiting' = writers_waiting + Counts(to, {"wloop"})
                                          - Counts(rwpc[t], {"wloop"})
    /\ to \in Writers => writer_active' = TRUE
    /\ to \notin Writers /\ rwpc[t] \in Writers => writer_active' = FALSE
    /\ to \notin Writers /\ rwpc[t] \notin Writers => writer_active' = writer_active
    /\ to \in Writers /\ rwpc[t] \notin Writers => ~WriterWaits
    /\ to \in Readers /\ rwpc[t] \notin Readers => ~writer_active

LEMMA MoveKeeps ==
    ASSUME RwInv, NEW t \in Consumer, NEW to, Moves(t, to)
    PROVE  RwInv'
<1>1. rwpc' \in [Consumer -> RwLabel]
    BY DEF RwInv, Moves
<1>2. \A u \in Consumer : rwpc'[u] = IF u = t THEN to ELSE rwpc[u]
    BY DEF RwInv, Moves
<1>3. /\ readers_active = Cardinality(AtLabels(Readers)) /\ readers_active \in Nat
      /\ writer_active = (AtLabels(Writers) # {})
      /\ writers_waiting = Cardinality(AtLabels({"wloop"}))
    BY AtLabelsFinite DEF RwInv, CountersMatch, Readers, Writers
<1>4. \A S : Cardinality(AtLabels(S)')
                = Cardinality(AtLabels(S)) + Counts(to, S) - Counts(rwpc[t], S)
    BY MoveCounts DEF RwInv, Moves
<1>5. /\ readers_active' = Cardinality(AtLabels(Readers)')
      /\ writers_waiting' = Cardinality(AtLabels({"wloop"})')
    BY <1>3, <1>4 DEF Moves
<1>6. /\ to \in Writers => writer_active' = TRUE
      /\ to \notin Writers /\ rwpc[t] \in Writers => writer_active' = FALSE
      /\ to \notin Writers /\ rwpc[t] \notin Writers => writer_active' = writer_active
      /\ to \in Writers /\ rwpc[t] \notin Writers => ~WriterWaits
      /\ to \in Readers /\ rwpc[t] \notin Readers => ~writer_active
    BY DEF Moves
\* A writer that comes finds no other, and one that goes was the only one.
<1>7. writer_active' = (AtLabels(Writers)' # {})
  <2>1. CASE to \in Writers
    <3>1. t \in AtLabels(Writers)'
        BY <1>2, <2>1 DEF AtLabels
    <3> QED
        BY <1>6, <2>1, <3>1
  <2>2. CASE to \notin Writers /\ rwpc[t] \in Writers
    <3>1. \A u \in Consumer : rwpc'[u] \notin Writers
        BY <1>2, <2>2 DEF RwInv, Exclusive
    <3>2. AtLabels(Writers)' = {}
        BY <3>1 DEF AtLabels
    <3> QED
        BY <1>6, <2>2, <3>2
  <2>3. CASE to \notin Writers /\ rwpc[t] \notin Writers
    <3>1. AtLabels(Writers)' = AtLabels(Writers)
        BY <1>2, <2>3 DEF AtLabels
    <3> QED
        BY <1>3, <1>6, <2>3, <3>1
  <2> QED
      BY <2>1, <2>2, <2>3
<1>8. Exclusive'
  <2>1. ~writer_active => \A u \in Consumer : rwpc[u] \notin Writers
      BY <1>3 DEF AtLabels
  <2>2. readers_active = 0 => \A u \in Consumer : rwpc[u] \notin Readers
      BY <1>3, CountZero
  <2>3. Readers \cap Writers = {}
      BY DEF Readers, Writers
  <2>4. \A u, v \in Consumer : rwpc[u] \in Writers =>
            rwpc[v] \notin Readers /\ (rwpc[v] \in Writers => u = v)
      BY DEF RwInv, Exclusive
  <2>5. CASE to \in Writers /\ rwpc[t] \notin Writers
    <3>1. ~writer_active /\ readers_active = 0
        BY <1>3, <1>6, <2>5 DEF WriterWaits
    <3> QED
        BY <1>2, <2>1, <2>2, <2>3, <2>5, <3>1 DEF Exclusive
  <2>6. CASE to \in Readers /\ rwpc[t] \notin Readers
      BY <1>2, <1>6, <2>1, <2>3, <2>6 DEF Exclusive
  <2>7. CASE /\ to \in Writers => rwpc[t] \in Writers
             /\ to \in Readers => rwpc[t] \in Readers
      BY <1>2, <2>4, <2>7 DEF Exclusive
  <2> QED
      BY <2>5, <2>6, <2>7
<1> QED
    BY <1>1, <1>5, <1>7, <1>8 DEF RwInv, CountersMatch, Readers, Writers

LEMMA NothingMoved ==
    ASSUME RwInv, UNCHANGED <<readers_active, writer_active, writers_waiting, rwpc>>
    PROVE  RwInv'
    BY DEF RwInv, CountersMatch, Exclusive, AtLabels

\* The counters are numbers, so that what is added can be taken away again.
LEMMA CountersAreNumbers ==
    RwInv => readers_active \in Nat /\ writers_waiting \in Nat /\ writer_active \in BOOLEAN
    BY AtLabelsFinite DEF RwInv, CountersMatch

LEMMA RwInvNext == RwInv /\ [RwNext]_rwVars => RwInv'
<1> SUFFICES ASSUME RwInv, [RwNext]_rwVars PROVE RwInv'
    OBVIOUS
<1> USE DEF Counts, RwLabel, Readers, Writers
<1>0. readers_active \in Nat /\ writers_waiting \in Nat /\ writer_active \in BOOLEAN
    BY CountersAreNumbers
<1>1. CASE UNCHANGED rwVars
    BY <1>1, NothingMoved DEF rwVars
<1>2. ASSUME NEW t \in Consumer,
             CallReadLock(t) \/ CallWriteLock(t) \/ CallReadUnlock(t) \/ CallWriteUnlock(t)
      PROVE  RwInv'
  <2> USE <1>0 DEF Call, Moves
  <2>1. CASE CallReadLock(t)
    <3>1. Moves(t, "rlock")
        BY <2>1 DEF CallReadLock
    <3> QED
        BY <3>1, MoveKeeps
  <2>2. CASE CallWriteLock(t)
    <3>1. Moves(t, "wlock")
        BY <2>2 DEF CallWriteLock
    <3> QED
        BY <3>1, MoveKeeps
  <2>3. CASE CallReadUnlock(t)
    <3>1. Moves(t, "runlock")
        BY <2>3 DEF CallReadUnlock
    <3> QED
        BY <3>1, MoveKeeps
  <2>4. CASE CallWriteUnlock(t)
    <3>1. writer_active = TRUE
        BY <2>4 DEF CallWriteUnlock, RwInv, CountersMatch, AtLabels
    <3>2. Moves(t, "wunlock")
        BY <2>4, <3>1 DEF CallWriteUnlock
    <3> QED
        BY <3>2, MoveKeeps
  <2> QED
      BY <1>2, <2>1, <2>2, <2>3, <2>4
<1>3. ASSUME NEW t \in Consumer, RwEnter(t)
      PROVE  RwInv'
    BY <1>3, NothingMoved DEF RwEnter
<1>4. ASSUME NEW t \in Consumer, ReadLock(t)
      PROVE  RwInv'
  <2>1. CASE ReaderWaits
      BY <1>4, <2>1, NothingMoved DEF ReadLock
  <2>2. CASE ~ReaderWaits
    <3>1. Moves(t, "reading")
        BY <1>0, <1>4, <2>2 DEF ReadLock, In, ReaderWaits, Moves
    <3> QED
        BY <3>1, MoveKeeps
  <2> QED
      BY <2>1, <2>2
<1>5. ASSUME NEW t \in Consumer, ReadUnlock(t)
      PROVE  RwInv'
  <2>1. Moves(t, "out")
      BY <1>0, <1>5 DEF ReadUnlock, In, Moves
  <2> QED
      BY <2>1, MoveKeeps
\* Both tests of the loop, with t counted among the waiting writers or not.
<1>6. ASSUME NEW t \in Consumer, WriteLock(t) \/ WriteLockAgain(t)
      PROVE  RwInv'
  <2> USE <1>0, <1>6 DEF WriteLock, WriteLockAgain, WriteLockTest, In, Moves
  <2>1. CASE WriterWaits
    <3>1. Moves(t, "wloop")
        BY <2>1
    <3> QED
        BY <3>1, MoveKeeps
  <2>2. CASE ~WriterWaits
    <3>1. Moves(t, "writing")
        BY <2>2
    <3> QED
        BY <3>1, MoveKeeps
  <2> QED
      BY <2>1, <2>2
<1>7. ASSUME NEW t \in Consumer, WriteUnlock(t)
      PROVE  RwInv'
  <2>1. Moves(t, "out")
      BY <1>0, <1>7 DEF WriteUnlock, In, Moves
  <2> QED
      BY <2>1, MoveKeeps
<1> QED
    BY <1>1, <1>2, <1>3, <1>4, <1>5, <1>6, <1>7 DEF RwNext, RwStep

LEMMA RwInvariant == RwSpec => []RwInv
    BY RwInvInit, RwInvNext, PTL DEF RwSpec

-----------------------------------------------------------------------------
(* The lists of the monitor hold threads of the server only.               *)

RwMonType ==
    /\ rw_owner \in Consumer \cup {NULL}
    /\ rw_entry \in Seq(Consumer)
    /\ rw_waiting \in Seq(Consumer)

LEMMA RwMonTypeKept ==
    ASSUME RwMonType,
           \/ \E t \in Consumer : RwMon!Enter(t)
           \/ RwMon!Leave \/ RwMon!Wait \/ RwMon!SignalLeave
           \/ UNCHANGED <<rw_owner, rw_entry, rw_waiting>>
    PROVE  RwMonType'
<1> USE DEF RwMonType
<1>1. CASE \E t \in Consumer : RwMon!Enter(t)
    BY <1>1 DEF RwMon!Enter
<1>2. ASSUME NEW e \in Seq(Consumer), e # << >>
      PROVE  Head(e) \in Consumer /\ Tail(e) \in Seq(Consumer)
    BY <1>2
<1>3. CASE RwMon!Leave
    BY <1>2, <1>3 DEF RwMon!Leave, RwMon!HandOver
<1>4. CASE RwMon!Wait
  <2>1. rw_owner \in Consumer /\ rw_waiting' = Append(rw_waiting, rw_owner)
      BY <1>4 DEF RwMon!Wait, RwMon!HandOver
  <2>2. rw_owner' \in Consumer \cup {NULL} /\ rw_entry' \in Seq(Consumer)
      BY <1>2, <1>4 DEF RwMon!Wait, RwMon!HandOver
  <2> QED
      BY <2>1, <2>2
<1>5. CASE RwMon!SignalLeave
  <2>1. CASE rw_waiting = << >>
      BY <1>3, <1>5, <2>1 DEF RwMon!SignalLeave
  <2>2. CASE rw_waiting # << >>
    <3> DEFINE e == Append(rw_entry, Head(rw_waiting))
    <3>1. e \in Seq(Consumer) /\ e # << >>
        BY <1>2, <2>2
    <3>2. rw_owner' = Head(e) /\ rw_entry' = Tail(e) /\ rw_waiting' = Tail(rw_waiting)
        BY <1>5, <2>2 DEF RwMon!SignalLeave
    <3> HIDE DEF e
    <3> QED
        BY <1>2, <2>2, <3>1, <3>2
  <2> QED
      BY <2>1, <2>2
<1>6. CASE UNCHANGED <<rw_owner, rw_entry, rw_waiting>>
    BY <1>6
<1> QED
    BY <1>1, <1>3, <1>4, <1>5, <1>6

LEMMA RwMonTypeNext == RwMonType /\ [RwNext]_rwVars => RwMonType'
<1> SUFFICES ASSUME RwMonType, [RwNext]_rwVars PROVE RwMonType'
    OBVIOUS
<1>1. CASE UNCHANGED rwVars
    BY <1>1, RwMonTypeKept DEF rwVars
<1>2. ASSUME NEW t \in Consumer,
             \/ CallReadLock(t) \/ CallWriteLock(t)
             \/ CallReadUnlock(t) \/ CallWriteUnlock(t)
      PROVE  RwMonType'
    BY <1>2, RwMonTypeKept
       DEF CallReadLock, CallWriteLock, CallReadUnlock, CallWriteUnlock, Call
<1>3. ASSUME NEW t \in Consumer, RwStep(t) PROVE RwMonType'
    BY <1>3, RwMonTypeKept
       DEF RwStep, RwEnter, ReadLock, ReadUnlock, WriteLock, WriteLockAgain,
           WriteLockTest, WriteUnlock
<1> QED
    BY <1>1, <1>2, <1>3 DEF RwNext

-----------------------------------------------------------------------------
(* The theorems.                                                           *)

\* The counters of the lock (server.c:67-69) count threads, never more than there
\* are, and only threads of the server stand in the lists of its monitor.
THEOREM RwTypeCorrect == RwSpec => []RwTypeOK
<1>1. RwInit => RwMonType
    BY DEF RwInit, RwMonType
<1>2. ASSUME NEW S
      PROVE  Cardinality(AtLabels(S)) \in 0 .. Cardinality(Consumer)
  <2>1. AtLabels(S) \subseteq Consumer
      BY DEF AtLabels
  <2> QED
      BY <2>1, ConsumerAssumption, FS_Subset, FS_CardinalityType
<1>3. RwInv /\ RwMonType => RwTypeOK
    BY <1>2 DEF RwInv, CountersMatch, RwMonType, RwTypeOK
<1> QED
    BY <1>1, <1>3, RwMonTypeNext, RwInvariant, PTL DEF RwSpec

\* rw_read_lock and rw_write_lock (server.c:76-104): a writer is alone.
LEMMA InvExcludes == RwInv => ReadersExcludeWriters
<1> SUFFICES ASSUME RwInv PROVE ReadersExcludeWriters
    OBVIOUS
<1>1. AtLabels({"writing"}) = {} \/ AtLabels({"reading"}) = {}
    BY DEF RwInv, Exclusive, AtLabels, Readers, Writers
<1>2. Cardinality(AtLabels({"writing"})) <= 1
  <2>1. CASE AtLabels({"writing"}) = {}
      BY <2>1, FS_EmptySet
  <2>2. ASSUME NEW t \in AtLabels({"writing"})
        PROVE  Cardinality(AtLabels({"writing"})) <= 1
    <3>1. AtLabels({"writing"}) = {t}
        BY DEF RwInv, Exclusive, AtLabels, Writers
    <3> QED
        BY <3>1, FS_Singleton
  <2> QED
      BY <2>1, <2>2
<1> QED
    BY <1>1, <1>2 DEF ReadersExcludeWriters

\* A writer runs alone, and readers only with readers (server.c:62-113).
THEOREM WritersAlone == RwSpec => []ReadersExcludeWriters
    BY RwInvariant, InvExcludes, PTL

\* The three counters say who holds the lock and who waits (server.c:67-69).
THEOREM CountersRight == RwSpec => []CountersMatch
<1>1. RwInv => CountersMatch
    BY DEF RwInv
<1> QED
    BY <1>1, RwInvariant, PTL

\* "preferencia a escritores" (server.c:62): no reader is let in while a writer
\* waits, whichever writers have waited, been woken and waited again before.
THEOREM PreferenceToWriters == RwSpec => WritersFirst
<1>1. ASSUME RwInv, [RwNext]_rwVars, NEW t \in Consumer,
             rwpc[t] # "reading", rwpc'[t] = "reading"
      PROVE  AtLabels({"wloop"}) = {}
  <2>1. rwpc \in [Consumer -> RwLabel] /\ rwpc' # rwpc
      BY <1>1 DEF RwInv
  <2>2. PICK u \in Consumer : ReadLock(u) /\ ~ReaderWaits
    <3> USE <1>1, <2>1
    <3>1. ASSUME NEW u \in Consumer, NEW to, rwpc' = [rwpc EXCEPT ![u] = to]
          PROVE  to = "reading"
        BY <3>1
    <3>2. PICK u \in Consumer :
              \/ CallReadLock(u) \/ CallWriteLock(u) \/ CallReadUnlock(u)
              \/ CallWriteUnlock(u) \/ RwEnter(u) \/ ReadLock(u) \/ ReadUnlock(u)
              \/ WriteLock(u) \/ WriteLockAgain(u) \/ WriteUnlock(u)
        BY DEF RwNext, RwStep, rwVars
    <3> QED
        BY <3>1, <3>2 DEF CallReadLock, CallWriteLock, CallReadUnlock, CallWriteUnlock,
               Call, RwEnter, ReadLock, ReadUnlock, WriteLock, WriteLockAgain,
               WriteLockTest, WriteUnlock
  <2>3. Cardinality(AtLabels({"wloop"})) \in Nat /\ IsFiniteSet(AtLabels({"wloop"}))
      BY AtLabelsFinite
  <2>4. Cardinality(AtLabels({"wloop"})) = 0
      BY <1>1, <2>2, <2>3 DEF ReaderWaits, RwInv, CountersMatch
  <2> QED
      BY <2>3, <2>4, FS_EmptySet
<1>2. RwInv /\ [RwNext]_rwVars =>
          [\A t \in Consumer : rwpc[t] # "reading" /\ rwpc'[t] = "reading"
                                 => AtLabels({"wloop"}) = {}]_rwVars
    BY <1>1
<1> QED
    BY <1>2, RwInvariant, PTL DEF RwSpec, WritersFirst

-----------------------------------------------------------------------------
(* The request loop.                                                       *)

Threads == Consumer \cup {Producer}

-----------------------------------------------------------------------------
(* The monitor of the ring.                                                *)

\* Each thread is at most at one place of the monitor, and nobody waits to enter
\* one that is free.
MonitorOK ==
    /\ owner \in Threads \cup {NULL}
    /\ entry \in Seq(Threads) /\ NoDuplicates(entry)
    /\ waiting \in Seq(Threads) /\ NoDuplicates(waiting)
    /\ Range(entry) \cap Range(waiting) = {}
    /\ owner \notin Range(entry) \cup Range(waiting)
    /\ owner = NULL => entry = << >>

Inside(t) == t = owner \/ t \in Range(entry) \cup Range(waiting)

LEMMA ThreadsDiffer ==
    /\ NULL \notin Threads
    /\ Producer \in Threads /\ Producer \notin Consumer /\ Consumer \subseteq Threads
    BY ConsumerAssumption, RequestAssumption DEF Threads

LEMMA RangeOfEmpty == Range(<< >>) = {}
    BY DEF Range

LEMMA RangeInSet ==
    ASSUME NEW T, NEW s \in Seq(T)
    PROVE  Range(s) \subseteq T
<1>1. \A i \in DOMAIN s : s[i] \in T
    OBVIOUS
<1> QED
    BY <1>1 DEF Range

LEMMA EnterKeeps ==
    ASSUME MonitorOK, NEW t \in Threads, Mtx!Enter(t)
    PROVE  /\ MonitorOK'
           /\ waiting' = waiting
           /\ owner' \in {owner, t} /\ (owner # NULL => owner' = owner)
           /\ \A u \in Threads : Inside(u)' <=> Inside(u) \/ u = t
<1>1. ~Inside(t) /\ t # NULL /\ waiting' = waiting
    BY ThreadsDiffer DEF Mtx!Enter, Mtx!Outside, Mtx!Range, Range, Inside
<1>2. CASE owner = NULL
  <2>1. owner' = t /\ entry' = entry
      BY <1>2 DEF Mtx!Enter
  <2> QED
      BY <1>1, <1>2, <2>1, ThreadsDiffer DEF MonitorOK, Inside
<1>3. CASE owner # NULL
  <2>1. owner' = owner /\ entry' = Append(entry, t)
      BY <1>3 DEF Mtx!Enter
  <2>2. /\ entry' \in Seq(Threads)
        /\ Range(entry') = Range(entry) \cup {t}
        /\ NoDuplicates(entry')
      BY <1>1, <2>1, AppendRange DEF MonitorOK, Inside
  <2> QED
      BY <1>1, <1>3, <2>1, <2>2 DEF MonitorOK, Inside
<1> QED
    BY <1>2, <1>3

LEMMA HandOverKeeps ==
    ASSUME MonitorOK, Mtx!HandOver
    PROVE  /\ owner \in Threads
           /\ owner' \in Threads \cup {NULL} /\ entry' \in Seq(Threads)
           /\ NoDuplicates(entry')
           /\ owner' # NULL => Range(entry) = Range(entry') \cup {owner'}
           /\ owner' = NULL => entry = << >> /\ entry' = << >>
           /\ owner' \notin Range(entry')
<1>1. owner \in Threads
    BY DEF MonitorOK, Mtx!HandOver
<1>2. CASE entry = << >>
    BY <1>1, <1>2, RangeOfEmpty DEF MonitorOK, Mtx!HandOver
<1>3. CASE entry # << >>
  <2>1. owner' = Head(entry) /\ entry' = Tail(entry)
      BY <1>3 DEF Mtx!HandOver
  <2> QED
      BY <1>1, <1>3, <2>1, TailRange, ThreadsDiffer DEF MonitorOK
<1> QED
    BY <1>2, <1>3

LEMMA LeaveKeeps ==
    ASSUME MonitorOK, Mtx!Leave
    PROVE  /\ MonitorOK'
           /\ waiting' = waiting
           /\ \A u \in Threads : Inside(u)' <=> Inside(u) /\ u # owner
<1>1. waiting' = waiting /\ Mtx!HandOver
    BY DEF Mtx!Leave
<1>2. MonitorOK'
  <2>1. NULL \notin Range(waiting)
      BY RangeInSet, ThreadsDiffer DEF MonitorOK
  <2> QED
      BY <1>1, <2>1, HandOverKeeps, RangeOfEmpty, ThreadsDiffer DEF MonitorOK
<1>3. Range(entry) \cup {NULL} = Range(entry') \cup {owner', NULL}
    BY <1>1, HandOverKeeps, RangeOfEmpty
<1>4. owner \notin Range(entry) \cup Range(waiting)
    BY DEF MonitorOK
<1>5. ASSUME NEW u \in Threads
      PROVE  Inside(u)' <=> Inside(u) /\ u # owner
    BY <1>1, <1>3, <1>4, ThreadsDiffer DEF Inside
<1> QED
    BY <1>1, <1>2, <1>5

LEMMA WaitKeeps ==
    ASSUME MonitorOK, Mtx!Wait
    PROVE  /\ MonitorOK'
           /\ Range(waiting') = Range(waiting) \cup {owner}
           /\ \A u \in Threads : Inside(u)' <=> Inside(u)
<1>1. waiting' = Append(waiting, owner) /\ Mtx!HandOver
    BY DEF Mtx!Wait
<1>2. owner \in Threads
    BY <1>1, HandOverKeeps
<1>3. /\ waiting' \in Seq(Threads) /\ NoDuplicates(waiting')
      /\ Range(waiting') = Range(waiting) \cup {owner}
    BY <1>1, <1>2, AppendRange DEF MonitorOK
<1>4. MonitorOK'
  <2>1. NULL \notin Range(waiting)
      BY RangeInSet, ThreadsDiffer DEF MonitorOK
  <2>2. owner \notin Range(entry) \cup Range(waiting) /\ Range(entry) \cap Range(waiting) = {}
      BY DEF MonitorOK
  <2>3. Range(entry) \cup {NULL} = Range(entry') \cup {owner', NULL}
      BY <1>1, HandOverKeeps, RangeOfEmpty
  <2>4. owner' \notin Range(waiting') /\ Range(entry') \cap Range(waiting') = {}
      BY <1>2, <1>3, <2>1, <2>2, <2>3, ThreadsDiffer
  <2> QED
      BY <1>1, <1>2, <1>3, <2>4, HandOverKeeps, RangeOfEmpty, ThreadsDiffer DEF MonitorOK
<1>5. Range(entry) \cup {NULL} = Range(entry') \cup {owner', NULL}
    BY <1>1, HandOverKeeps, RangeOfEmpty
<1>6. ASSUME NEW u \in Threads
      PROVE  Inside(u)' <=> Inside(u)
    BY <1>3, <1>5, ThreadsDiffer DEF Inside
<1> QED
    BY <1>3, <1>4, <1>6

LEMMA SignalLeaveKeeps ==
    ASSUME MonitorOK, Mtx!SignalLeave
    PROVE  /\ MonitorOK'
           /\ waiting = << >> => waiting' = << >>
           /\ waiting # << >> =>
                 /\ Range(waiting) = Range(waiting') \cup {Head(waiting)}
                 /\ Head(waiting) \notin Range(waiting')
                 /\ Head(waiting) \in Range(entry') \cup {owner'}
                 /\ owner' \in Range(entry) \cup {Head(waiting)}
           /\ \A u \in Threads : Inside(u)' <=> Inside(u) /\ u # owner
<1>1. CASE waiting = << >>
  <2>1. Mtx!Leave
      BY <1>1 DEF Mtx!SignalLeave
  <2> QED
      BY <1>1, <2>1, LeaveKeeps
<1>2. CASE waiting # << >>
  <2> DEFINE e == Append(entry, Head(waiting))
  <2>1. owner # NULL /\ owner' = Head(e) /\ entry' = Tail(e) /\ waiting' = Tail(waiting)
      BY <1>2 DEF Mtx!SignalLeave
  <2>2. /\ Head(waiting) \in Threads /\ waiting' \in Seq(Threads)
        /\ NoDuplicates(waiting') /\ Head(waiting) \notin Range(waiting')
        /\ Range(waiting) = Range(waiting') \cup {Head(waiting)}
      BY <1>2, <2>1, TailRange DEF MonitorOK
  <2>3. Head(waiting) \notin Range(entry)
      BY <2>2 DEF MonitorOK
  <2>4. /\ e \in Seq(Threads) /\ e # << >> /\ NoDuplicates(e)
        /\ Range(e) = Range(entry) \cup {Head(waiting)}
      BY <2>2, <2>3, AppendRange DEF MonitorOK
  <2> HIDE DEF e
  <2>5. /\ owner' \in Threads /\ entry' \in Seq(Threads) /\ NoDuplicates(entry')
        /\ owner' \notin Range(entry')
        /\ Range(entry') \cup {owner'} = Range(entry) \cup {Head(waiting)}
      BY <2>1, <2>4, TailRange
  <2>6. owner \in Threads /\ owner \notin Range(entry) \cup Range(waiting)
        /\ Range(entry) \cap Range(waiting) = {}
      BY <2>1 DEF MonitorOK
  <2>7. MonitorOK'
      BY <2>2, <2>5, <2>6, ThreadsDiffer DEF MonitorOK
  <2>8. ASSUME NEW u \in Threads
        PROVE  Inside(u)' <=> Inside(u) /\ u # owner
      BY <2>2, <2>5, <2>6 DEF Inside
  <2> QED
      BY <1>2, <2>2, <2>5, <2>7, <2>8
<1> QED
    BY <1>1, <1>2

-----------------------------------------------------------------------------
(* The ring.                                                               *)

\* put_pos is where the next request goes behind those that are there.
RingOK ==
    /\ put_pos \in Slot /\ get_pos \in Slot
    /\ available_reqs \in 0 .. RING_SIZE
    /\ put_pos = (get_pos + available_reqs) % RING_SIZE
    /\ ring \in [Slot -> Request \cup {NULL}]
    /\ InRing \in Seq(Request)

\* Positions wrap around once.
LEMMA Wrap ==
    ASSUME NEW x \in Nat, x < RING_SIZE + RING_SIZE
    PROVE  /\ x % RING_SIZE = IF x < RING_SIZE THEN x ELSE x - RING_SIZE
           /\ x % RING_SIZE \in Slot
<1>1. RING_SIZE \in Nat \ {0}
    BY RequestAssumption
<1>2. CASE x < RING_SIZE
  <2>1. x % RING_SIZE = x
      BY <1>1, <1>2, SMTT(60)
  <2> QED
      BY <1>1, <1>2, <2>1 DEF Slot
<1>3. CASE x >= RING_SIZE
  <2>1. x % RING_SIZE = x - RING_SIZE
      BY <1>1, <1>3, SMTT(60)
  <2> QED
      BY <1>1, <1>3, <2>1 DEF Slot
<1> QED
    BY <1>1, <1>2, <1>3

LEMMA AdvanceWraps ==
    ASSUME NEW p \in Slot
    PROVE  /\ Advance(p) = IF p + 1 < RING_SIZE THEN p + 1 ELSE p + 1 - RING_SIZE
           /\ Advance(p) \in Slot
<1> DEFINE x == p + 1
<1>1. x \in Nat /\ x < RING_SIZE + RING_SIZE /\ Advance(p) = x % RING_SIZE
    BY RequestAssumption DEF Slot, Advance
<1> HIDE DEF x
<1>2. Advance(p) = (IF x < RING_SIZE THEN x ELSE x - RING_SIZE) /\ Advance(p) \in Slot
    BY <1>1, Wrap
<1> USE DEF x
<1> QED
    BY <1>2, RequestAssumption DEF Slot

LEMMA PutWraps ==
    ASSUME RingOK
    PROVE  put_pos = IF get_pos + available_reqs < RING_SIZE
                     THEN get_pos + available_reqs
                     ELSE get_pos + available_reqs - RING_SIZE
<1> DEFINE x == get_pos + available_reqs
<1>1. x \in Nat /\ x < RING_SIZE + RING_SIZE /\ put_pos = x % RING_SIZE
    BY RequestAssumption DEF RingOK, Slot
<1> HIDE DEF x
<1>2. put_pos = IF x < RING_SIZE THEN x ELSE x - RING_SIZE
    BY <1>1, Wrap
<1> QED
    BY <1>2, RequestAssumption DEF x, RingOK, Slot

\* The slot of the i-th request in the ring.
SlotOf(i) == (get_pos + i - 1) % RING_SIZE

LEMMA SlotOfRing ==
    ASSUME RingOK, NEW i \in 1 .. RING_SIZE
    PROVE  /\ SlotOf(i) = IF get_pos + i - 1 < RING_SIZE THEN get_pos + i - 1
                          ELSE get_pos + i - 1 - RING_SIZE
           /\ SlotOf(i) \in Slot
<1>1. RING_SIZE \in Nat \ {0} /\ get_pos \in 0 .. RING_SIZE - 1
    BY RequestAssumption DEF RingOK, Slot
<1> DEFINE x == get_pos + i - 1
<1>2. x \in Nat /\ x < RING_SIZE + RING_SIZE
    BY <1>1
<1>3. SlotOf(i) = x % RING_SIZE
    BY DEF SlotOf
<1> HIDE DEF x
<1>4. SlotOf(i) = (IF x < RING_SIZE THEN x ELSE x - RING_SIZE) /\ SlotOf(i) \in Slot
    BY <1>2, <1>3, Wrap
<1> QED
    BY <1>1, <1>4 DEF x

LEMMA InRingElements ==
    ASSUME RingOK
    PROVE  /\ InRing \in Seq(Request) /\ Len(InRing) = available_reqs
           /\ \A i \in 1 .. available_reqs : InRing[i] = ring[SlotOf(i)]
    BY DEF RingOK, InRing, SlotOf

LEMMA RingPut ==
    ASSUME RingOK, available_reqs < RING_SIZE, NEW r \in Request,
           ring' = [ring EXCEPT ![put_pos] = r],
           put_pos' = Advance(put_pos), available_reqs' = available_reqs + 1,
           get_pos' = get_pos
    PROVE  RingOK' /\ InRing' = Append(InRing, r)
<1> DEFINE n == available_reqs
<1>1. /\ RING_SIZE \in Nat \ {0} /\ n \in 0 .. RING_SIZE
      /\ get_pos \in 0 .. RING_SIZE - 1 /\ put_pos \in 0 .. RING_SIZE - 1
    BY RequestAssumption DEF RingOK, Slot
<1>2. put_pos = SlotOf(n + 1)
    BY <1>1 DEF RingOK, SlotOf
<1>3. \A i \in 1 .. n : SlotOf(i) # put_pos
    BY <1>1, <1>2, SlotOfRing
<1>4. \A i \in 1 .. n + 1 : SlotOf(i) \in Slot
    BY <1>1, SlotOfRing
<1>5. InRing' = [i \in 1 .. n + 1 |-> ring'[SlotOf(i)]]
    BY DEF InRing, SlotOf
<1>6. ring' \in [Slot -> Request \cup {NULL}] /\ ring'[put_pos] = r
      /\ \A i \in 1 .. n : ring'[SlotOf(i)] = ring[SlotOf(i)]
    BY <1>1, <1>3, <1>4 DEF RingOK, Slot
<1>7. InRing' = Append(InRing, r)
  <2>1. /\ InRing \in Seq(Request) /\ Len(InRing) = n
        /\ \A i \in 1 .. n : InRing[i] = ring[SlotOf(i)]
      BY InRingElements
  <2>2. /\ Append(InRing, r) \in Seq(Request) /\ Len(Append(InRing, r)) = n + 1
        /\ \A i \in 1 .. n : Append(InRing, r)[i] = InRing[i]
        /\ Append(InRing, r)[n + 1] = r
      BY <2>1, AppendProperties
  <2>3. \A i \in 1 .. n + 1 : ring'[SlotOf(i)] = Append(InRing, r)[i]
    <3> SUFFICES ASSUME NEW i \in 1 .. n + 1
                 PROVE  ring'[SlotOf(i)] = Append(InRing, r)[i]
        OBVIOUS
    <3>1. CASE i = n + 1
        BY <1>2, <1>6, <2>2, <3>1
    <3>2. CASE i # n + 1
      <4>1. i \in 1 .. n
          BY <1>1, <3>2
      <4> QED
          BY <1>6, <2>1, <2>2, <4>1
    <3> QED
        BY <3>1, <3>2
  <2>4. \A i \in 1 .. n + 1 : Append(InRing, r)[i] \in Request
      BY <1>1, <2>2, ElementOfSeq
  <2> DEFINE new == [i \in 1 .. n + 1 |-> ring'[SlotOf(i)]]
  <2>5. \A i \in 1 .. n + 1 : ring'[SlotOf(i)] \in Request
      BY <2>3, <2>4
  <2>6. new \in [1 .. n + 1 -> Request]
      BY <2>5
  <2>7. new \in Seq(Request) /\ Len(new) = n + 1
      BY <1>1, <2>6
  <2>8. \A i \in 1 .. n + 1 : new[i] = Append(InRing, r)[i]
      BY <2>3
  <2> HIDE DEF new
  <2>9. new = Append(InRing, r)
      BY <2>2, <2>7, <2>8, SeqEqual
  <2> QED
      BY <1>5, <2>9 DEF new
<1>8. InRing' \in Seq(Request)
    BY <1>7, AppendProperties DEF RingOK
<1>9. /\ put_pos' \in Slot
      /\ put_pos' = (get_pos' + available_reqs') % RING_SIZE
  <2>1. /\ put_pos' = IF put_pos + 1 < RING_SIZE THEN put_pos + 1 ELSE put_pos + 1 - RING_SIZE
        /\ put_pos' \in Slot
      BY <1>1, AdvanceWraps DEF RingOK
  <2>2. put_pos = IF get_pos + n < RING_SIZE THEN get_pos + n ELSE get_pos + n - RING_SIZE
      BY PutWraps
  <2> DEFINE x == get_pos + n + 1
  <2>3. x \in Nat /\ x < RING_SIZE + RING_SIZE
      BY <1>1
  <2> HIDE DEF x
  <2>4. x % RING_SIZE = IF x < RING_SIZE THEN x ELSE x - RING_SIZE
      BY <2>3, Wrap
  <2>5. (get_pos + n + 1) % RING_SIZE
            = IF get_pos + n + 1 < RING_SIZE THEN get_pos + n + 1
              ELSE get_pos + n + 1 - RING_SIZE
      BY <1>1, <2>4 DEF x
  <2>6. get_pos' + available_reqs' = get_pos + n + 1
      BY <1>1
  <2> QED
      BY <1>1, <2>1, <2>2, <2>5, <2>6
<1> QED
    BY <1>1, <1>6, <1>7, <1>8, <1>9 DEF RingOK, Slot

LEMMA RingTake ==
    ASSUME RingOK, available_reqs # 0, UNCHANGED <<ring, put_pos>>,
           get_pos' = Advance(get_pos), available_reqs' = available_reqs - 1
    PROVE  /\ RingOK' /\ InRing' = Tail(InRing)
           /\ InRing # << >> /\ ring[get_pos] = Head(InRing)
<1> DEFINE n == available_reqs
<1>1. /\ RING_SIZE \in Nat \ {0} /\ n \in 1 .. RING_SIZE
      /\ get_pos \in 0 .. RING_SIZE - 1 /\ put_pos \in 0 .. RING_SIZE - 1
    BY RequestAssumption DEF RingOK, Slot
<1>2. /\ get_pos' = IF get_pos + 1 < RING_SIZE THEN get_pos + 1 ELSE get_pos + 1 - RING_SIZE
      /\ get_pos' \in Slot
    BY AdvanceWraps DEF RingOK
<1>3. ASSUME NEW i \in 1 .. n - 1
      PROVE  (get_pos' + i - 1) % RING_SIZE = SlotOf(i + 1)
  <2> DEFINE x == get_pos' + i - 1
  <2>1. x \in Nat /\ x < RING_SIZE + RING_SIZE
      BY <1>1, <1>2
  <2> HIDE DEF x
  <2>2. x % RING_SIZE = IF x < RING_SIZE THEN x ELSE x - RING_SIZE
      BY <2>1, Wrap
  <2>3. (get_pos' + i - 1) % RING_SIZE
            = IF get_pos' + i - 1 < RING_SIZE THEN get_pos' + i - 1
              ELSE get_pos' + i - 1 - RING_SIZE
      BY <1>1, <1>2, <2>2 DEF x
  <2>4. SlotOf(i + 1) = IF get_pos + i < RING_SIZE THEN get_pos + i
                        ELSE get_pos + i - RING_SIZE
      BY <1>1, SlotOfRing
  <2> QED
      BY <1>1, <1>2, <2>3, <2>4
<1>4. /\ InRing \in Seq(Request) /\ Len(InRing) = n
      /\ \A i \in 1 .. n : InRing[i] = ring[SlotOf(i)]
    BY InRingElements
<1>5. InRing # << >> /\ Head(InRing) = ring[SlotOf(1)]
    BY <1>1, <1>4
<1>6. SlotOf(1) = get_pos
    BY <1>1, SlotOfRing
<1>7. InRing' = [i \in 1 .. n - 1 |-> ring[(get_pos' + i - 1) % RING_SIZE]]
    BY DEF InRing
<1>8. InRing' = Tail(InRing)
  <2>1. /\ Tail(InRing) \in Seq(Request) /\ Len(Tail(InRing)) = n - 1
        /\ \A i \in 1 .. n - 1 : Tail(InRing)[i] = InRing[i + 1]
      BY <1>4, <1>5, HeadTailProperties
  <2>2. ASSUME NEW i \in 1 .. n - 1
        PROVE  ring[(get_pos' + i - 1) % RING_SIZE] = Tail(InRing)[i]
    <3>1. i + 1 \in 1 .. n
        BY <1>1
    <3>2. InRing[i + 1] = ring[SlotOf(i + 1)]
        BY <1>4, <3>1
    <3> QED
        BY <1>3, <2>1, <3>2
  <2>3. \A i \in 1 .. n - 1 : Tail(InRing)[i] \in Request
      BY <2>1, ElementOfSeq
  <2> DEFINE m == n - 1
             new == [i \in 1 .. m |-> ring[(get_pos' + i - 1) % RING_SIZE]]
  <2>4. \A i \in 1 .. m : ring[(get_pos' + i - 1) % RING_SIZE] \in Request
      BY <2>2, <2>3
  <2>5. new \in [1 .. m -> Request] /\ m \in Nat
    <3>1. m \in Nat
        BY <1>1
    <3> HIDE DEF m
    <3> QED
        BY <2>4, <3>1
  <2>6. new \in Seq(Request) /\ Len(new) = m
    <3> HIDE DEF m, new
    <3> QED
        BY <2>5
  <2>7. \A i \in 1 .. n - 1 : new[i] = Tail(InRing)[i]
      BY <2>2
  <2> HIDE DEF new
  <2>8. new = Tail(InRing)
      BY <2>1, <2>6, <2>7, SeqEqual
  <2> QED
      BY <1>7, <2>8 DEF new
<1>9. InRing' \in Seq(Request)
    BY <1>4, <1>5, <1>8, HeadTailProperties
<1>10. put_pos' = (get_pos' + available_reqs') % RING_SIZE
  <2>1. put_pos = IF get_pos + n < RING_SIZE THEN get_pos + n ELSE get_pos + n - RING_SIZE
      BY PutWraps
  <2> DEFINE x == get_pos' + (n - 1)
  <2>2. x \in Nat /\ x < RING_SIZE + RING_SIZE
      BY <1>1, <1>2
  <2> HIDE DEF x
  <2>3. x % RING_SIZE = IF x < RING_SIZE THEN x ELSE x - RING_SIZE
      BY <2>2, Wrap
  <2>4. (get_pos' + (n - 1)) % RING_SIZE
            = IF get_pos' + (n - 1) < RING_SIZE THEN get_pos' + (n - 1)
              ELSE get_pos' + (n - 1) - RING_SIZE
      BY <1>1, <1>2, <2>3 DEF x
  <2> QED
      BY <1>1, <1>2, <2>1, <2>4
<1> QED
    BY <1>1, <1>2, <1>5, <1>6, <1>8, <1>9, <1>10 DEF RingOK, Slot

-----------------------------------------------------------------------------
(* The invariant.                                                          *)

\* The producer receives only when there is a slot, and inside the monitor.
Polling == /\ polling \in BOOLEAN
           /\ polling => owner = Producer /\ available_reqs < RING_SIZE

\* While consumers wait at most one request is in the ring, and then a consumer is
\* inside to take it: the producer comes behind the consumer it has signalled.
Turns ==
    /\ Producer \in Range(waiting) =>
           available_reqs = RING_SIZE /\ Range(waiting) = {Producer}
    /\ Range(waiting) \cap Consumer # {} =>
           available_reqs = 0 \/ (available_reqs = 1 /\ owner \in Consumer)

\* Where a consumer is in its loop, in the two monitors, and with which request.
Places ==
    /\ cpc \in [Consumer -> {"get", "dispatch", "handle", "reply"}]
    /\ req_d \in [Consumer -> Request \cup {NULL}]
    /\ \A t \in Consumer :
          /\ Inside(t) => cpc[t] = "get"
          /\ cpc[t] = "get" <=> req_d[t] = NULL
          /\ rwpc[t] # "out" => cpc[t] \in {"handle", "reply"}
          /\ rwpc[t] \in {"rlock", "reading"} => req_d[t] \notin Write
          /\ rwpc[t] \in {"wlock", "wloop", "writing"} => req_d[t] \in Write

Held == {req_d[t] : t \in Consumer} \ {NULL}

Disjoint(a, b, c, d, e) ==
    /\ a \cap b = {} /\ a \cap c = {} /\ a \cap d = {} /\ a \cap e = {}
    /\ b \cap c = {} /\ b \cap d = {} /\ b \cap e = {}
    /\ c \cap d = {} /\ c \cap e = {}
    /\ d \cap e = {}

\* A request goes from the client to the socket, the ring, a consumer and back.
Flow ==
    /\ unsent \subseteq Request
    /\ inbox \in Seq(Request) /\ NoDuplicates(inbox)
    /\ NoDuplicates(InRing)
    /\ replies \in Seq(Request) /\ IsFiniteSet(Range(replies))
    /\ Cardinality(Range(replies)) = Len(replies)
    /\ Disjoint(unsent, Range(inbox), Range(InRing), Held, Range(replies))
    /\ Request \ Empty \subseteq
           unsent \cup Range(inbox) \cup Range(InRing) \cup Held \cup Range(replies)
    /\ \A t, u \in Consumer : t # u /\ req_d[t] # NULL => req_d[t] # req_d[u]

RingInv == MonitorOK /\ RingOK /\ Polling /\ Turns

ServerInv == RwInv /\ RingInv /\ Places /\ Flow

LEMMA ServerInvInit == ServerInit => ServerInv
<1> SUFFICES ASSUME ServerInit PROVE ServerInv
    OBVIOUS
<1> USE DEF ServerInit
<1>1. RwInv
    BY RwInvInit
<1>2. NoDuplicates(<< >>) /\ << >> \in Seq(Threads) /\ << >> \in Seq(Request)
    BY DEF NoDuplicates
<1>3. MonitorOK /\ Polling /\ Turns
  <2>1. MonitorOK
      BY <1>2, RangeOfEmpty DEF MonitorOK
  <2>2. Polling /\ Turns
      BY RangeOfEmpty DEF Polling, Turns
  <2> QED
      BY <2>1, <2>2
<1>4. InRing = << >>
    BY DEF InRing
<1>5. RingOK
    BY <1>4, Wrap, RequestAssumption DEF RingOK, Slot
<1>6. Held = {}
    BY DEF Held
<1>7. Places
    BY RangeOfEmpty, RequestAssumption, ConsumerAssumption DEF Places, Inside, RwInit
<1>8. Flow
  <2>1. IsFiniteSet({}) /\ Cardinality({}) = Len(<< >>)
      BY FS_EmptySet
  <2>2. Disjoint(Request, {}, {}, {}, {})
      BY DEF Disjoint
  <2> QED
      BY <1>2, <1>4, <1>6, <2>1, <2>2, RangeOfEmpty DEF Flow, Held
<1> QED
    BY <1>1, <1>3, <1>5, <1>7, <1>8 DEF ServerInv, RingInv

-----------------------------------------------------------------------------
(* The lock.                                                               *)

\* What the request loop does to the lock is what its specification allows.
LEMMA LockUsed == [ServerNext]_serverVars => [RwNext]_rwVars
<1> SUFFICES ASSUME [ServerNext]_serverVars PROVE [RwNext]_rwVars
    OBVIOUS
<1>1. CASE UNCHANGED serverVars
    BY <1>1 DEF serverVars
<1>2. ASSUME NEW r \in Request, Send(r) PROVE [RwNext]_rwVars
    BY <1>2 DEF Send
<1>3. CASE ProducerStep
    BY <1>3 DEF ProducerStep, ProducerEnter, ProducerTest, ReceiveEmpty, Receive
<1>4. CASE Poll
    BY <1>4 DEF Poll, serverVars
<1>5. ASSUME NEW t \in Consumer, ConsumerStep(t) PROVE [RwNext]_rwVars
  <2>1. CASE ConsumerEnter(t) \/ ConsumerWait(t) \/ Take(t) \/ Reply(t)
      BY <2>1 DEF ConsumerEnter, ConsumerWait, Take, Reply
  <2>2. CASE Dispatch(t) \/ Handled(t) \/ LockStep(t)
      BY <2>2 DEF Dispatch, Handled, LockStep, RwNext
  <2> QED
      BY <1>5, <2>1, <2>2 DEF ConsumerStep
<1> QED
    BY <1>1, <1>2, <1>3, <1>4, <1>5 DEF ServerNext

\* A thread moves only along the calls it is in.
LEMMA LockMoves ==
    ASSUME RwInv, NEW t \in Consumer, RwStep(t)
    PROVE  \E to \in RwLabel :
              /\ rwpc' = [rwpc EXCEPT ![t] = to]
              /\ to \notin {"rlock", "wlock"} \/ to = rwpc[t]
              /\ to = "reading" => rwpc[t] = "rlock"
              /\ to \in {"wloop", "writing"} => rwpc[t] \in {"wlock", "wloop"}
              /\ to # "out" => rwpc[t] # "out"
<1> USE DEF RwLabel
<1>0. rwpc = [rwpc EXCEPT ![t] = rwpc[t]] /\ rwpc[t] \in RwLabel
    BY DEF RwInv
<1>1. CASE RwEnter(t) /\ rwpc[t] \notin {"reading", "wloop", "writing"}
    BY <1>0, <1>1 DEF RwEnter
<1>2. CASE ReadLock(t)
    BY <1>0, <1>2 DEF ReadLock, In
<1>3. CASE ReadUnlock(t)
    BY <1>3 DEF ReadUnlock, In
<1>4. CASE WriteLock(t) \/ WriteLockAgain(t)
    BY <1>4 DEF WriteLock, WriteLockAgain, WriteLockTest, In
<1>5. CASE WriteUnlock(t)
    BY <1>5 DEF WriteUnlock, In
<1> QED
    BY <1>1, <1>2, <1>3, <1>4, <1>5 DEF RwStep, RwEnter

-----------------------------------------------------------------------------
(* The steps in the monitor of the ring.                                   *)

LEMMA RingSame ==
    ASSUME RingInv, UNCHANGED ringVars
    PROVE  /\ RingInv' /\ InRing' = InRing
           /\ \A u \in Threads : Inside(u)' <=> Inside(u)
    BY DEF RingInv, ringVars, MonitorOK, RingOK, Polling, Turns, InRing, Inside

\* The ring as it is while a thread enters, waits or leaves.
LEMMA RingKept ==
    ASSUME RingOK, UNCHANGED <<ring, put_pos, get_pos, available_reqs>>
    PROVE  RingOK' /\ InRing' = InRing
    BY DEF RingOK, InRing

LEMMA RingNumbers ==
    ASSUME RingOK
    PROVE  available_reqs \in Nat /\ RING_SIZE \in Nat \ {0} /\ available_reqs <= RING_SIZE
    BY RequestAssumption DEF RingOK

LEMMA EnterRing ==
    ASSUME RingInv, NEW t \in Threads, Mtx!Enter(t),
           UNCHANGED <<ring, put_pos, get_pos, available_reqs, polling>>
    PROVE  /\ RingInv' /\ InRing' = InRing
           /\ \A u \in Threads : Inside(u)' <=> Inside(u) \/ u = t
<1>1. RingOK' /\ InRing' = InRing
    BY RingKept DEF RingInv
<1>2. /\ MonitorOK' /\ waiting' = waiting
      /\ owner' \in {owner, t} /\ (owner # NULL => owner' = owner)
      /\ \A u \in Threads : Inside(u)' <=> Inside(u) \/ u = t
    BY EnterKeeps DEF RingInv
<1>3. Polling'
    BY <1>2, ThreadsDiffer DEF RingInv, Polling
<1>4. Turns'
    BY <1>2, ThreadsDiffer DEF RingInv, Turns
<1> QED
    BY <1>1, <1>2, <1>3, <1>4 DEF RingInv

\* The producer waits only while the ring is full, and then nobody else does.
LEMMA ProducerTestRing ==
    ASSUME RingInv, ProducerTest
    PROVE  /\ RingInv' /\ InRing' = InRing
           /\ \A u \in Threads : Inside(u)' <=> Inside(u)
<1>1. RingOK' /\ InRing' = InRing
    BY RingKept DEF RingInv, ProducerTest
<1>2. /\ owner = Producer /\ polling = FALSE
      /\ available_reqs' = available_reqs /\ available_reqs \in Nat
      /\ RING_SIZE \in Nat \ {0} /\ available_reqs <= RING_SIZE
    BY RingNumbers DEF RingInv, ProducerTest, Polling
<1>3. CASE RingFull
  <2>1. /\ MonitorOK' /\ Range(waiting') = Range(waiting) \cup {Producer}
        /\ \A u \in Threads : Inside(u)' <=> Inside(u)
      BY <1>2, <1>3, WaitKeeps DEF ProducerTest, RingInv
  <2>2. Range(waiting) \cap Consumer = {} /\ Range(waiting) \subseteq Threads
      BY <1>2, <1>3, ThreadsDiffer, RangeInSet DEF RingInv, Turns, RingFull, MonitorOK
  <2>3. Range(waiting') = {Producer}
      BY <2>1, <2>2 DEF Threads
  <2>4. Turns' /\ Polling'
      BY <1>2, <1>3, <2>3, ThreadsDiffer DEF Turns, Polling, RingFull, ProducerTest
  <2> QED
      BY <1>1, <2>1, <2>4 DEF RingInv
<1>4. CASE ~RingFull
  <2>1. polling' = TRUE /\ UNCHANGED <<owner, entry, waiting>>
      BY <1>4 DEF ProducerTest
  <2>2. available_reqs < RING_SIZE
      BY <1>2, <1>4 DEF RingFull
  <2>3. MonitorOK' /\ Turns' /\ Polling' /\ \A u \in Threads : Inside(u)' <=> Inside(u)
      BY <1>2, <2>1, <2>2 DEF RingInv, MonitorOK, Turns, Polling, Inside
  <2> QED
      BY <1>1, <2>3 DEF RingInv
<1> QED
    BY <1>3, <1>4

LEMMA ReceiveEmptyRing ==
    ASSUME RingInv, ReceiveEmpty
    PROVE  /\ RingInv' /\ InRing' = InRing
           /\ \A u \in Consumer : Inside(u)' <=> Inside(u)
<1>1. RingOK' /\ InRing' = InRing
    BY RingKept DEF RingInv, ReceiveEmpty
<1>2. owner = Producer /\ polling' = FALSE /\ available_reqs' = available_reqs
    BY DEF RingInv, ReceiveEmpty, Polling
<1>3. /\ MonitorOK' /\ waiting' = waiting
      /\ \A u \in Threads : Inside(u)' <=> Inside(u) /\ u # owner
    BY LeaveKeeps DEF RingInv, ReceiveEmpty
<1>4. Turns' /\ Polling'
    BY <1>2, <1>3, ThreadsDiffer DEF RingInv, Turns, Polling
<1> QED
    BY <1>1, <1>2, <1>3, <1>4, ThreadsDiffer DEF RingInv

\* The producer signals one consumer.  It leaves the monitor to that one or to
\* another consumer.
LEMMA ReceiveRing ==
    ASSUME RingInv, Receive, Head(inbox) \in Request
    PROVE  /\ RingInv' /\ InRing' = Append(InRing, Head(inbox))
           /\ \A u \in Consumer : Inside(u)' <=> Inside(u)
<1>1. /\ owner = Producer /\ polling' = FALSE
      /\ available_reqs < RING_SIZE /\ available_reqs' = available_reqs + 1
    BY DEF RingInv, Receive, Polling
<1>2. RingOK' /\ InRing' = Append(InRing, Head(inbox))
    BY <1>1, RingPut DEF RingInv, Receive
<1>3. Mtx!SignalLeave
    BY DEF Receive, SignalAndLeave
<1>4. /\ MonitorOK'
      /\ waiting = << >> => waiting' = << >>
      /\ waiting # << >> =>
            /\ Range(waiting) = Range(waiting') \cup {Head(waiting)}
            /\ owner' \in Range(entry) \cup {Head(waiting)}
      /\ \A u \in Threads : Inside(u)' <=> Inside(u) /\ u # owner
    BY <1>3, SignalLeaveKeeps DEF RingInv
<1>5. /\ Producer \notin Range(waiting) \cup Range(entry)
      /\ Range(waiting) \cup Range(entry) \subseteq Threads
    BY <1>1, RangeInSet DEF RingInv, MonitorOK
<1>6. Turns'
  <2>1. CASE waiting = << >>
      BY <1>4, <2>1, RangeOfEmpty DEF Turns
  <2>2. CASE waiting # << >>
    <3>1. owner' \in Consumer /\ Range(waiting') \subseteq Range(waiting)
          /\ Head(waiting) \in Consumer /\ Head(waiting) \in Range(waiting)
        BY <1>4, <1>5, <2>2 DEF Threads
    <3>2. available_reqs = 0
        BY <1>1, <3>1, ThreadsDiffer DEF RingInv, Turns
    <3> QED
        BY <1>1, <1>5, <3>1, <3>2 DEF Turns
  <2> QED
      BY <2>1, <2>2
<1>7. Polling'
    BY <1>1 DEF Polling
<1> QED
    BY <1>1, <1>2, <1>4, <1>6, <1>7, ThreadsDiffer DEF RingInv

LEMMA ConsumerWaitRing ==
    ASSUME RingInv, NEW t \in Consumer, ConsumerWait(t)
    PROVE  /\ RingInv' /\ InRing' = InRing
           /\ \A u \in Threads : Inside(u)' <=> Inside(u)
<1>1. RingOK' /\ InRing' = InRing
    BY RingKept DEF RingInv, ConsumerWait
<1>2. /\ owner = t /\ available_reqs = 0 /\ available_reqs' = 0 /\ polling = FALSE
      /\ polling' = FALSE /\ RING_SIZE # 0
    BY RingNumbers, ThreadsDiffer DEF RingInv, ConsumerWait, Polling
<1>3. /\ MonitorOK' /\ Range(waiting') = Range(waiting) \cup {t}
      /\ \A u \in Threads : Inside(u)' <=> Inside(u)
    BY <1>2, WaitKeeps DEF RingInv, ConsumerWait
<1>4. Turns' /\ Polling'
    BY <1>2, <1>3, ThreadsDiffer DEF RingInv, Turns, Polling
<1> QED
    BY <1>1, <1>3, <1>4 DEF RingInv

\* The consumer takes the only request others may wait for, or signals the
\* producer that waits because the ring was full.
LEMMA TakeRing ==
    ASSUME RingInv, NEW t \in Consumer, Take(t)
    PROVE  /\ RingInv' /\ InRing' = Tail(InRing)
           /\ InRing # << >> /\ ring[get_pos] = Head(InRing)
           /\ \A u \in Threads : Inside(u)' <=> Inside(u) /\ u # t
<1>1. /\ owner = t /\ polling = FALSE /\ polling' = FALSE
      /\ available_reqs # 0 /\ available_reqs' = available_reqs - 1
      /\ available_reqs \in Nat
    BY RingNumbers, ThreadsDiffer DEF RingInv, Take, Polling
<1>2. /\ RingOK' /\ InRing' = Tail(InRing)
      /\ InRing # << >> /\ ring[get_pos] = Head(InRing)
    BY <1>1, RingTake DEF RingInv, Take
<1>3. Mtx!SignalLeave
    BY DEF Take, SignalAndLeave
<1>4. /\ MonitorOK'
      /\ waiting = << >> => waiting' = << >>
      /\ waiting # << >> =>
            /\ Range(waiting) = Range(waiting') \cup {Head(waiting)}
            /\ Head(waiting) \notin Range(waiting')
      /\ \A u \in Threads : Inside(u)' <=> Inside(u) /\ u # owner
    BY <1>3, SignalLeaveKeeps DEF RingInv
<1>5. Turns'
  <2>1. CASE waiting = << >>
      BY <1>4, <2>1, RangeOfEmpty DEF Turns
  <2>2. CASE waiting # << >>
    <3>1. Producer \notin Range(waiting')
        BY <1>4, <2>2 DEF RingInv, Turns
    <3>2. Range(waiting') \cap Consumer # {} => available_reqs' = 0
        BY <1>1, <1>4, <2>2 DEF RingInv, Turns
    <3> QED
        BY <3>1, <3>2 DEF Turns
  <2> QED
      BY <2>1, <2>2
<1>6. Polling'
    BY <1>1 DEF Polling
<1> QED
    BY <1>1, <1>2, <1>4, <1>5, <1>6 DEF RingInv

-----------------------------------------------------------------------------
(* The way of the requests.                                                *)

\* Steps that move no request.
LEMMA FlowSame ==
    ASSUME Flow, UNCHANGED <<unsent, inbox, req_d, replies>>, InRing' = InRing
    PROVE  Flow'
<1>1. Held' = Held
    BY DEF Held
<1> QED
    BY <1>1 DEF Flow, Disjoint

LEMMA PlacesSame ==
    ASSUME Places, UNCHANGED <<cpc, req_d, rwpc>>,
           \A u \in Consumer : Inside(u)' => Inside(u)
    PROVE  Places'
    BY DEF Places

LEMMA SendKeeps ==
    ASSUME ServerInv, NEW r \in Request, Send(r)
    PROVE  RingInv' /\ Places' /\ Flow'
<1> USE DEF Send
<1>1. RingInv' /\ InRing' = InRing /\ \A u \in Threads : Inside(u)' <=> Inside(u)
    BY RingSame DEF ServerInv
<1>2. Places'
    BY <1>1, PlacesSame, ThreadsDiffer DEF ServerInv, rwVars
<1>3. Flow'
  <2>1. Held' = Held
      BY DEF Held
  <2>2. inbox' \in Seq(Request) /\ Range(inbox') = Range(inbox) \cup {r}
        /\ NoDuplicates(inbox')
      BY AppendRange DEF ServerInv, Flow, Disjoint
  <2>3. Disjoint(unsent', Range(inbox'), Range(InRing'), Held', Range(replies'))
      BY <1>1, <2>1, <2>2 DEF ServerInv, Flow, Disjoint
  <2> QED
      BY <1>1, <2>1, <2>2, <2>3 DEF ServerInv, Flow
<1> QED
    BY <1>1, <1>2, <1>3

\* The oldest datagram leaves the socket.
LEMMA InboxHead ==
    ASSUME Flow, inbox # << >>
    PROVE  /\ Head(inbox) \in Request
           /\ Tail(inbox) \in Seq(Request) /\ NoDuplicates(Tail(inbox))
           /\ Range(inbox) = {Head(inbox)} \cup Range(Tail(inbox))
           /\ Head(inbox) \notin Range(Tail(inbox))
    BY TailRange DEF Flow

LEMMA ReceiveEmptyKeeps ==
    ASSUME ServerInv, ReceiveEmpty
    PROVE  RingInv' /\ Places' /\ Flow'
<1>1. RingInv' /\ InRing' = InRing /\ \A u \in Consumer : Inside(u)' <=> Inside(u)
    BY ReceiveEmptyRing DEF ServerInv
<1> USE DEF ReceiveEmpty
<1>2. Places'
    BY <1>1, PlacesSame DEF ServerInv, rwVars
<1>3. Flow'
  <2>1. Held' = Held
      BY DEF Held
  <2>2. /\ Head(inbox) \in Empty
        /\ inbox' \in Seq(Request) /\ NoDuplicates(inbox')
        /\ Range(inbox) = {Head(inbox)} \cup Range(inbox')
      BY InboxHead DEF ServerInv
  <2>3. Disjoint(unsent', Range(inbox'), Range(InRing'), Held', Range(replies'))
      BY <1>1, <2>1, <2>2 DEF ServerInv, Flow, Disjoint
  <2> QED
      BY <1>1, <2>1, <2>2, <2>3 DEF ServerInv, Flow
<1> QED
    BY <1>1, <1>2, <1>3

LEMMA ReceiveKeeps ==
    ASSUME ServerInv, Receive
    PROVE  RingInv' /\ Places' /\ Flow'
<1> DEFINE r == Head(inbox)
<1>1. /\ r \in Request /\ r \notin Range(Tail(inbox))
      /\ Tail(inbox) \in Seq(Request) /\ NoDuplicates(Tail(inbox))
      /\ Range(inbox) = {r} \cup Range(Tail(inbox))
    BY InboxHead DEF ServerInv, Receive
<1>2. /\ RingInv' /\ InRing' = Append(InRing, r)
      /\ \A u \in Consumer : Inside(u)' <=> Inside(u)
    BY <1>1, ReceiveRing DEF ServerInv
<1> HIDE DEF r
<1>3. Places'
    BY <1>2, PlacesSame DEF ServerInv, Receive, rwVars
<1>4. Flow'
  <2>1. Held' = Held /\ inbox' = Tail(inbox) /\ UNCHANGED <<unsent, req_d, replies>>
      BY DEF Held, Receive
  <2>2. r \notin Range(InRing)
      BY <1>1 DEF ServerInv, Flow, Disjoint
  <2>3. InRing \in Seq(Request)
      BY DEF ServerInv, RingInv, RingOK
  <2>4. Range(InRing') = Range(InRing) \cup {r} /\ NoDuplicates(InRing')
      BY <1>1, <1>2, <2>2, <2>3, AppendRange DEF ServerInv, Flow
  <2>5. Disjoint(unsent', Range(inbox'), Range(InRing'), Held', Range(replies'))
      BY <1>1, <2>1, <2>4 DEF ServerInv, Flow, Disjoint
  <2> QED
      BY <1>1, <2>1, <2>4, <2>5 DEF ServerInv, Flow
<1> QED
    BY <1>2, <1>3, <1>4

LEMMA TakeKeeps ==
    ASSUME ServerInv, NEW t \in Consumer, Take(t)
    PROVE  RingInv' /\ Places' /\ Flow'
<1> DEFINE r == Head(InRing)
<1>1. /\ RingInv' /\ InRing' = Tail(InRing) /\ InRing # << >> /\ ring[get_pos] = r
      /\ \A u \in Threads : Inside(u)' <=> Inside(u) /\ u # t
    BY TakeRing DEF ServerInv
<1>2. /\ r \in Request /\ r \notin Range(InRing') /\ NoDuplicates(InRing')
      /\ Range(InRing) = {r} \cup Range(InRing')
    BY <1>1, TailRange DEF ServerInv, RingInv, RingOK, Flow
<1>3. r # NULL
    BY <1>2, RequestAssumption
<1> HIDE DEF r
<1>4. /\ owner = t /\ req_d' = [req_d EXCEPT ![t] = r]
      /\ cpc' = [cpc EXCEPT ![t] = IF r \in Unknown THEN "reply" ELSE "dispatch"]
      /\ UNCHANGED <<unsent, inbox, replies, rwpc>>
    BY <1>1 DEF Take, rwVars
<1>5. /\ req_d[t] = NULL /\ rwpc[t] = "out"
      /\ cpc \in [Consumer -> {"get", "dispatch", "handle", "reply"}]
      /\ req_d \in [Consumer -> Request \cup {NULL}]
    BY <1>4 DEF ServerInv, Places, Inside
<1>6. Places'
    BY <1>1, <1>2, <1>3, <1>4, <1>5, ThreadsDiffer DEF ServerInv, Places
<1>7. Flow'
  <2>1. Held' = Held \cup {r}
      BY <1>3, <1>4, <1>5 DEF Held
  <2>2. Disjoint(unsent', Range(inbox'), Range(InRing'), Held', Range(replies'))
      BY <1>2, <1>4, <2>1 DEF ServerInv, Flow, Disjoint
  <2>3. r \notin Held
      BY <1>2 DEF ServerInv, Flow, Disjoint
  <2>4. \A u, v \in Consumer : u # v /\ req_d'[u] # NULL => req_d'[u] # req_d'[v]
      BY <1>3, <1>4, <1>5, <2>3 DEF ServerInv, Flow, Held
  <2> QED
      BY <1>2, <1>4, <2>1, <2>2, <2>4 DEF ServerInv, Flow
<1> QED
    BY <1>1, <1>6, <1>7

LEMMA ReplyKeeps ==
    ASSUME ServerInv, NEW t \in Consumer, Reply(t)
    PROVE  RingInv' /\ Places' /\ Flow'
<1>1. RingInv' /\ InRing' = InRing /\ \A u \in Threads : Inside(u)' <=> Inside(u)
    BY RingSame DEF ServerInv, Reply
<1> DEFINE r == req_d[t]
<1>2. /\ cpc[t] = "reply" /\ rwpc[t] = "out" /\ replies' = Append(replies, r)
      /\ req_d' = [req_d EXCEPT ![t] = NULL] /\ cpc' = [cpc EXCEPT ![t] = "get"]
      /\ UNCHANGED <<unsent, inbox, rwpc>>
    BY DEF Reply, rwVars
<1>3. /\ r \in Request /\ r # NULL
      /\ cpc \in [Consumer -> {"get", "dispatch", "handle", "reply"}]
      /\ req_d \in [Consumer -> Request \cup {NULL}]
    BY <1>2 DEF ServerInv, Places
<1>4. Places'
    BY <1>1, <1>2, <1>3, ThreadsDiffer DEF ServerInv, Places
<1>5. Flow'
  <2>1. r \in Held /\ \A u \in Consumer : u # t => req_d[u] # r
      BY <1>3 DEF Held, ServerInv, Flow
  <2>2. Held' = Held \ {r}
      BY <1>2, <1>3, <2>1 DEF Held
  <2>3. r \notin Range(replies) /\ replies \in Seq(Request) /\ IsFiniteSet(Range(replies))
        /\ Cardinality(Range(replies)) = Len(replies)
      BY <2>1 DEF ServerInv, Flow, Disjoint
  <2>4. /\ replies' \in Seq(Request) /\ Range(replies') = Range(replies) \cup {r}
        /\ Len(replies') = Len(replies) + 1
      BY <1>2, <1>3, <2>3, AppendRange, AppendProperties
  <2>5. IsFiniteSet(Range(replies')) /\ Cardinality(Range(replies')) = Len(replies')
      BY <2>3, <2>4, FS_AddElement
  <2>6. Disjoint(unsent', Range(inbox'), Range(InRing'), Held', Range(replies'))
      BY <1>1, <1>2, <2>1, <2>2, <2>4 DEF ServerInv, Flow, Disjoint
  <2>7. \A u, v \in Consumer : u # v /\ req_d'[u] # NULL => req_d'[u] # req_d'[v]
      BY <1>2, <1>3 DEF ServerInv, Flow
  <2> QED
      BY <1>1, <1>2, <2>1, <2>2, <2>4, <2>5, <2>6, <2>7 DEF ServerInv, Flow
<1> QED
    BY <1>1, <1>4, <1>5

LEMMA ProducerEnterKeeps ==
    ASSUME ServerInv, ProducerEnter
    PROVE  RingInv' /\ Places' /\ Flow'
<1> USE DEF ProducerEnter
<1>1. /\ RingInv' /\ InRing' = InRing
      /\ \A u \in Threads : Inside(u)' <=> Inside(u) \/ u = Producer
    BY EnterRing, ThreadsDiffer DEF ServerInv
<1>2. Places'
    BY <1>1, PlacesSame, ThreadsDiffer DEF ServerInv, rwVars
<1> QED
    BY <1>1, <1>2, FlowSame DEF ServerInv

LEMMA ProducerTestKeeps ==
    ASSUME ServerInv, ProducerTest
    PROVE  RingInv' /\ Places' /\ Flow'
<1>1. RingInv' /\ InRing' = InRing /\ \A u \in Threads : Inside(u)' <=> Inside(u)
    BY ProducerTestRing DEF ServerInv
<1> USE DEF ProducerTest
<1>2. Places'
    BY <1>1, PlacesSame, ThreadsDiffer DEF ServerInv, rwVars
<1> QED
    BY <1>1, <1>2, FlowSame DEF ServerInv

LEMMA ConsumerEnterKeeps ==
    ASSUME ServerInv, NEW t \in Consumer, ConsumerEnter(t)
    PROVE  RingInv' /\ Places' /\ Flow'
<1> USE DEF ConsumerEnter
<1>1. /\ RingInv' /\ InRing' = InRing
      /\ \A u \in Threads : Inside(u)' <=> Inside(u) \/ u = t
    BY EnterRing, ThreadsDiffer DEF ServerInv
<1>2. Places'
    BY <1>1, ThreadsDiffer DEF ServerInv, Places, rwVars
<1> QED
    BY <1>1, <1>2, FlowSame DEF ServerInv

LEMMA ConsumerWaitKeeps ==
    ASSUME ServerInv, NEW t \in Consumer, ConsumerWait(t)
    PROVE  RingInv' /\ Places' /\ Flow'
<1>1. RingInv' /\ InRing' = InRing /\ \A u \in Threads : Inside(u)' <=> Inside(u)
    BY ConsumerWaitRing DEF ServerInv
<1> USE DEF ConsumerWait
<1>2. Places'
    BY <1>1, PlacesSame, ThreadsDiffer DEF ServerInv, rwVars
<1> QED
    BY <1>1, <1>2, FlowSame DEF ServerInv

\* A consumer goes into the lock with the request it has, or comes out of it.
LEMMA DispatchKeeps ==
    ASSUME ServerInv, NEW t \in Consumer, Dispatch(t)
    PROVE  RingInv' /\ Places' /\ Flow'
<1> USE DEF Dispatch
<1>1. RingInv' /\ InRing' = InRing /\ \A u \in Threads : Inside(u)' <=> Inside(u)
    BY RingSame DEF ServerInv
<1>2. /\ cpc[t] = "dispatch" /\ cpc' = [cpc EXCEPT ![t] = "handle"]
      /\ rwpc \in [Consumer -> RwLabel]
      /\ \/ rwpc' = [rwpc EXCEPT ![t] = "wlock"] /\ req_d[t] \in Write
         \/ rwpc' = [rwpc EXCEPT ![t] = "rlock"] /\ req_d[t] \notin Write
    BY DEF NeedsWriteLock, CallWriteLock, CallReadLock, Call, ServerInv, RwInv
<1>3. Places'
    BY <1>1, <1>2, ThreadsDiffer DEF ServerInv, Places
<1> QED
    BY <1>1, <1>3, FlowSame DEF ServerInv

LEMMA HandledKeeps ==
    ASSUME ServerInv, NEW t \in Consumer, Handled(t)
    PROVE  RingInv' /\ Places' /\ Flow'
<1> USE DEF Handled
<1>1. RingInv' /\ InRing' = InRing /\ \A u \in Threads : Inside(u)' <=> Inside(u)
    BY RingSame DEF ServerInv
<1>2. /\ cpc[t] = "handle" /\ cpc' = [cpc EXCEPT ![t] = "reply"]
      /\ rwpc \in [Consumer -> RwLabel]
      /\ \/ rwpc' = [rwpc EXCEPT ![t] = "runlock"]
         \/ rwpc' = [rwpc EXCEPT ![t] = "wunlock"]
    BY DEF CallReadUnlock, CallWriteUnlock, Call, ServerInv, RwInv
<1>3. Places'
    BY <1>1, <1>2, ThreadsDiffer DEF ServerInv, Places
<1> QED
    BY <1>1, <1>3, FlowSame DEF ServerInv

LEMMA LockStepKeeps ==
    ASSUME ServerInv, NEW t \in Consumer, LockStep(t)
    PROVE  RingInv' /\ Places' /\ Flow'
<1>1. UNCHANGED <<unsent, inbox, ringVars, cpc, req_d, replies>>
    BY DEF LockStep, srvVars, ringVars
<1>2. RingInv' /\ InRing' = InRing /\ \A u \in Threads : Inside(u)' <=> Inside(u)
    BY <1>1, RingSame DEF ServerInv
<1>3. PICK to \in RwLabel :
          /\ rwpc' = [rwpc EXCEPT ![t] = to]
          /\ to \notin {"rlock", "wlock"} \/ to = rwpc[t]
          /\ to = "reading" => rwpc[t] = "rlock"
          /\ to \in {"wloop", "writing"} => rwpc[t] \in {"wlock", "wloop"}
          /\ to # "out" => rwpc[t] # "out"
    BY LockMoves DEF LockStep, ServerInv
<1>4. rwpc \in [Consumer -> RwLabel]
    BY DEF ServerInv, RwInv
<1>5. Places'
    BY <1>1, <1>2, <1>3, <1>4, ThreadsDiffer DEF ServerInv, Places
<1> QED
    BY <1>1, <1>2, <1>5, FlowSame DEF ServerInv

LEMMA StutterKeeps ==
    ASSUME ServerInv, UNCHANGED serverVars
    PROVE  RingInv' /\ Places' /\ Flow'
<1> USE DEF serverVars, srvVars, rwVars
<1>1. RingInv' /\ InRing' = InRing /\ \A u \in Threads : Inside(u)' <=> Inside(u)
    BY RingSame DEF ServerInv, ringVars
<1>2. Places'
    BY <1>1, PlacesSame, ThreadsDiffer DEF ServerInv
<1> QED
    BY <1>1, <1>2, FlowSame DEF ServerInv

-----------------------------------------------------------------------------
(* ServerInv is an invariant.                                              *)

LEMMA ServerInvNext == ServerInv /\ [ServerNext]_serverVars => ServerInv'
<1> SUFFICES ASSUME ServerInv, [ServerNext]_serverVars PROVE ServerInv'
    OBVIOUS
<1>1. RwInv'
    BY LockUsed, RwInvNext DEF ServerInv
<1>2. CASE UNCHANGED serverVars
    BY <1>1, <1>2, StutterKeeps DEF ServerInv
<1>3. ASSUME NEW r \in Request, Send(r) PROVE ServerInv'
    BY <1>1, <1>3, SendKeeps DEF ServerInv
<1>4. CASE ProducerStep
    BY <1>1, <1>4, ProducerEnterKeeps, ProducerTestKeeps, ReceiveEmptyKeeps, ReceiveKeeps
       DEF ServerInv, ProducerStep
<1>5. CASE Poll
    BY <1>1, <1>5, StutterKeeps DEF ServerInv, Poll
<1>6. ASSUME NEW t \in Consumer, ConsumerStep(t) PROVE ServerInv'
    BY <1>1, <1>6, ConsumerEnterKeeps, ConsumerWaitKeeps, TakeKeeps, DispatchKeeps,
       HandledKeeps, ReplyKeeps, LockStepKeeps DEF ServerInv, ConsumerStep
<1> QED
    BY <1>2, <1>3, <1>4, <1>5, <1>6 DEF ServerNext

LEMMA ServerInvariant == ServerSpec => []ServerInv
    BY ServerInvInit, ServerInvNext, PTL DEF ServerSpec

-----------------------------------------------------------------------------
(* The theorems.                                                           *)

\* thread_consumer (server.c:205-250) uses the lock as it is meant to be used, each
\* thread in turn: what is proved of RwSpec holds in the server.
THEOREM LockAsSpecified == ServerSpec => RwSpec
<1>1. ServerInit => RwInit
    BY DEF ServerInit
<1> QED
    BY <1>1, LockUsed, PTL DEF ServerSpec, RwSpec

\* The positions and the count of the ring stay in it (server.c:140-151), whatever its
\* size, and consumers hold requests that were sent.
THEOREM ServerTypeCorrect == ServerSpec => []ServerTypeOK
<1>1. ServerInv /\ RwTypeOK => ServerTypeOK
  <2> SUFFICES ASSUME ServerInv, RwTypeOK PROVE ServerTypeOK
      OBVIOUS
  <2>1. /\ owner \in Consumer \cup {Producer, NULL}
        /\ entry \in Seq(Consumer \cup {Producer})
        /\ waiting \in Seq(Consumer \cup {Producer})
      BY DEF ServerInv, RingInv, MonitorOK, Threads
  <2> QED
      BY <2>1 DEF ServerTypeOK, ServerInv, RingInv, RingOK, Polling, Places, Flow
<1> QED
    BY <1>1, ServerInvariant, LockAsSpecified, RwTypeCorrect, PTL

\* No handler runs beside one that writes the file system (server.c:233-241).
THEOREM WritesAlone == ServerSpec => []WritesRunAlone
<1>1. ServerInv => WritesRunAlone
  <2> SUFFICES ASSUME ServerInv, NEW t \in Consumer, NEW u \in Consumer,
                      t # u, req_d[t] \in Write, rwpc[t] \in {"reading", "writing"}
               PROVE  rwpc[u] \notin {"reading", "writing"}
      BY DEF WritesRunAlone
  <2>1. rwpc[t] = "writing"
      BY DEF ServerInv, Places
  <2> QED
      BY <2>1 DEF ServerInv, RwInv, Exclusive, Readers, Writers
<1> QED
    BY <1>1, ServerInvariant, PTL

\* The producer and the consumers (server.c:212-217, 260-276) signal one thread, of
\* whichever kind, and none is left waiting for something that is there.
THEOREM OneQueueIsEnough == ServerSpec => []OneQueueSuffices
<1>1. ServerInv => OneQueueSuffices
    BY DEF ServerInv, RingInv, Turns, OneQueueSuffices, RingOK
<1> QED
    BY <1>1, ServerInvariant, PTL

\* get_req and put_req (server.c:140-151) under the monitor lose no request and hand
\* out none twice, whatever the size of the ring.
THEOREM EveryRequestOnce == ServerSpec => []EachRequestOnce
<1>1. ServerInv => EachRequestOnce
  <2> SUFFICES ASSUME ServerInv PROVE EachRequestOnce
      OBVIOUS
  <2> DEFINE places == <<unsent \ Empty, Range(inbox) \ Empty, Range(InRing),
                         {req_d[t] : t \in Consumer} \ {NULL}, Range(replies)>>
  <2>1. /\ places[1] = unsent \ Empty /\ places[2] = Range(inbox) \ Empty
        /\ places[3] = Range(InRing) /\ places[4] = Held /\ places[5] = Range(replies)
        /\ DOMAIN places = 1 .. 5
      BY DEF Held
  <2> HIDE DEF places
  <2>2. Disjoint(places[1], places[2], places[3], places[4], places[5])
      BY <2>1 DEF ServerInv, Flow, Disjoint
  <2>3. ASSUME NEW i \in 1 .. 5, NEW j \in 1 .. 5, i # j
        PROVE  places[i] \cap places[j] = {}
    <3>1. i \in {1, 2, 3, 4, 5} /\ j \in {1, 2, 3, 4, 5}
        OBVIOUS
    <3> QED
        BY <2>2, <2>3, <3>1 DEF Disjoint
  <2>4. ASSUME NEW r \in Request \ Empty
        PROVE  r \in UNION Range(places)
    <3>1. \A i \in 1 .. 5 : places[i] \in Range(places)
        BY <2>1 DEF Range
    <3>2. \/ r \in places[1] \/ r \in places[2] \/ r \in places[3]
          \/ r \in places[4] \/ r \in places[5]
        BY <2>1 DEF ServerInv, Flow
    <3> QED
        BY <3>1, <3>2
  <2> QED
      BY <2>3, <2>4 DEF EachRequestOnce, ServerInv, Flow, places
<1> QED
    BY <1>1, ServerInvariant, PTL
=============================================================================
