--------------------------- MODULE ReadersWriters ---------------------------
(***************************************************************************)
(* The readers-writers lock of snfs_server/server.c: three counters        *)
(* guarded by the monitor rw_mon, with preference to writers.  The monitor *)
(* is the one of module Monitor, which module Sync is shown to implement:  *)
(* FIFO entry with direct hand-over, one queue of waiting threads whatever *)
(* they wait for, and a signal that wakes the first of them.               *)
(*                                                                         *)
(* The counters are used only inside the monitor, so what a thread does    *)
(* from the moment it is in until it waits or leaves is one action.        *)
(***************************************************************************)
EXTENDS Integers, Sequences, FiniteSets, Functions

CONSTANTS Consumer,    \* the threads that use the lock
          NULL

ASSUME ConsumerAssumption == IsFiniteSet(Consumer) /\ NULL \notin Consumer

VARIABLES
    readers_active, writer_active, writers_waiting,
    rw_owner, rw_entry, rw_waiting,  \* the monitor rw_mon
    rwpc                             \* where each thread is

rwVars == <<readers_active, writer_active, writers_waiting,
            rw_owner, rw_entry, rw_waiting, rwpc>>

\* "rlock", "wlock", "runlock", "wunlock": in, or about to enter, the monitor in
\* the function of that name; "wloop": waiting again in rw_write_lock.
RwLabel == {"out", "rlock", "wlock", "wloop", "reading", "writing",
            "runlock", "wunlock"}

RwInit ==
    /\ readers_active = 0
    /\ writer_active = FALSE
    /\ writers_waiting = 0
    /\ rw_owner = NULL
    /\ rw_entry = << >>
    /\ rw_waiting = << >>
    /\ rwpc = [t \in Consumer |-> "out"]

-----------------------------------------------------------------------------
(* The monitor: the specification Sync implements.                         *)

RwMon == INSTANCE Monitor WITH Thread <- Consumer, owner <- rw_owner,
                               entry <- rw_entry, waiting <- rw_waiting

RwEnter(t) ==
    /\ rwpc[t] \in {"rlock", "wlock", "runlock", "wunlock"}
    /\ RwMon!Enter(t)
    /\ UNCHANGED <<readers_active, writer_active, writers_waiting, rwpc>>

-----------------------------------------------------------------------------
(* The four functions.                                                     *)

Call(t, from, to) ==
    /\ rwpc[t] = from
    /\ rwpc' = [rwpc EXCEPT ![t] = to]
    /\ UNCHANGED <<readers_active, writer_active, writers_waiting,
                   rw_owner, rw_entry, rw_waiting>>

CallReadLock(t)    == Call(t, "out", "rlock")
CallWriteLock(t)   == Call(t, "out", "wlock")
CallReadUnlock(t)  == Call(t, "reading", "runlock")
CallWriteUnlock(t) == Call(t, "writing", "wunlock")

In(t, label) == rw_owner = t /\ rwpc[t] = label

ReaderWaits == writer_active \/ writers_waiting > 0

ReadLock(t) ==
    /\ In(t, "rlock")
    /\ IF ReaderWaits
       THEN RwMon!Wait /\ UNCHANGED <<readers_active, rwpc>>
       ELSE /\ readers_active' = readers_active + 1
            /\ rwpc' = [rwpc EXCEPT ![t] = "reading"]
            /\ RwMon!Leave
    /\ UNCHANGED <<writer_active, writers_waiting>>

\* Mutant: the counter is tested before it is decremented.
LastReaderLate == readers_active = 0

LastReader == readers_active = 1

ReadUnlock(t) ==
    /\ In(t, "runlock")
    /\ readers_active' = readers_active - 1
    /\ rwpc' = [rwpc EXCEPT ![t] = "out"]
    /\ IF LastReader THEN RwMon!SignalLeave ELSE RwMon!Leave
    /\ UNCHANGED <<writer_active, writers_waiting>>

\* Mutant: a writer waits for an active writer only.
WriterWaitsLess == writer_active

WriterWaits == writer_active \/ readers_active > 0

\* The test of the loop in rw_write_lock, with `others' writers waiting besides t.
WriteLockTest(t, others) ==
    /\ IF WriterWaits
       THEN /\ writers_waiting' = others + 1
            /\ rwpc' = [rwpc EXCEPT ![t] = "wloop"]
            /\ RwMon!Wait
            /\ UNCHANGED writer_active
       ELSE /\ writers_waiting' = others
            /\ rwpc' = [rwpc EXCEPT ![t] = "writing"]
            /\ writer_active' = TRUE
            /\ RwMon!Leave
    /\ UNCHANGED readers_active

WriteLock(t) == In(t, "wlock") /\ WriteLockTest(t, writers_waiting)

\* Mutant: a writer that was woken is still counted as waiting.
WriteLockStays(t) == In(t, "wloop") /\ WriteLockTest(t, writers_waiting)

WriteLockAgain(t) == In(t, "wloop") /\ WriteLockTest(t, writers_waiting - 1)

WriteUnlock(t) ==
    /\ In(t, "wunlock")
    /\ writer_active' = FALSE
    /\ rwpc' = [rwpc EXCEPT ![t] = "out"]
    /\ RwMon!SignalLeave
    /\ UNCHANGED <<readers_active, writers_waiting>>

\* The steps a thread takes by itself once it has called one of the functions.
RwStep(t) == RwEnter(t) \/ ReadLock(t) \/ ReadUnlock(t) \/ WriteLock(t)
             \/ WriteLockAgain(t) \/ WriteUnlock(t)

RwNext ==
    \E t \in Consumer :
        \/ CallReadLock(t) \/ CallWriteLock(t)
        \/ CallReadUnlock(t) \/ CallWriteUnlock(t)
        \/ RwStep(t)

RwSpec == RwInit /\ [][RwNext]_rwVars

\* A thread gets its turns, and a handler ends and releases the lock.
RwFairSpec ==
    /\ RwSpec
    /\ \A t \in Consumer : WF_rwVars(RwStep(t))
    /\ \A t \in Consumer : WF_rwVars(CallReadUnlock(t) \/ CallWriteUnlock(t))

-----------------------------------------------------------------------------
(* Properties.                                                             *)

RwTypeOK ==
    /\ readers_active \in 0 .. Cardinality(Consumer)
    /\ writer_active \in BOOLEAN
    /\ writers_waiting \in 0 .. Cardinality(Consumer)
    /\ rw_owner \in Consumer \cup {NULL}
    /\ rw_entry \in Seq(Consumer)
    /\ rw_waiting \in Seq(Consumer)
    /\ rwpc \in [Consumer -> RwLabel]

AtLabels(labels) == {t \in Consumer : rwpc[t] \in labels}

\* While a handler that writes the file system runs no other handler runs.
ReadersExcludeWriters ==
    /\ Cardinality(AtLabels({"writing"})) <= 1
    /\ AtLabels({"writing"}) = {} \/ AtLabels({"reading"}) = {}

\* The counters tell who holds the lock and who waits, across every wait and
\* re-entry: none is left too high by a thread that gave up its place, or too low.
CountersMatch ==
    /\ readers_active = Cardinality(AtLabels({"reading", "runlock"}))
    /\ writer_active = (AtLabels({"writing", "wunlock"}) # {})
    /\ writers_waiting = Cardinality(AtLabels({"wloop"}))

\* "preferencia a escritores": no reader is let in while a writer waits,
\* however often the writers that wait were woken and waited again.
WritersFirst ==
    [][\A t \in Consumer : rwpc[t] # "reading" /\ rwpc'[t] = "reading"
                              => AtLabels({"wloop"}) = {}]_rwVars

\* A thread that asks for the lock gets it.  It holds for two threads.
LockGranted ==
    \A t \in Consumer :
        rwpc[t] \in {"rlock", "wlock", "wloop"} ~> rwpc[t] \in {"reading", "writing"}

\* rw_write_unlock: its signal "acorda leitores e escritores".  When the lock is
\* free and no thread is in the monitor, or about to be, no thread is left waiting.
NobodyForgotten ==
    readers_active = 0 /\ ~writer_active /\ rw_owner = NULL => rw_waiting = << >>
=============================================================================
