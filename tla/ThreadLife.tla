----------------------------- MODULE ThreadLife -----------------------------
(***************************************************************************)
(* What the scheduler promises to a program, without queues, priorities,   *)
(* quanta or the clock: a thread is runnable, asleep, waiting for another  *)
(* thread to end, or ended; one runnable thread has the CPU; a thread      *)
(* suspends itself only; it is woken by a tick if it sleeps and by the end *)
(* of the thread it waits for otherwise.  Sched implements this.           *)
(***************************************************************************)
CONSTANTS Thread, Main, NULL

VARIABLES
    phase,     \* of each thread
    target,    \* the thread a waiting thread waits for
    cpu        \* the running thread; NULL once the process is over

lifeVars == <<phase, target, cpu>>

Phase == {"new", "runnable", "asleep", "waiting", "ended"}

Runnable == {t \in Thread : phase[t] = "runnable"}

\* Some runnable thread runs next; if there is none the process is over.
Dispatch == IF Runnable' = {} THEN cpu' = NULL ELSE cpu' \in Runnable'

LifeInit ==
    /\ phase = [t \in Thread |-> IF t = Main THEN "runnable" ELSE "new"]
    /\ target = [t \in Thread |-> NULL]
    /\ cpu = Main

Spawn(t) ==
    /\ cpu # NULL
    /\ phase[t] = "new"
    /\ phase' = [phase EXCEPT ![t] = "runnable"]
    /\ UNCHANGED <<target, cpu>>

Suspend ==
    /\ cpu # NULL
    /\ phase' = [phase EXCEPT ![cpu] = "asleep"]
    /\ Dispatch
    /\ UNCHANGED target

\* A thread may wait for any thread that has begun and has not ended, itself
\* included.
WaitFor(u) ==
    /\ cpu # NULL
    /\ phase[u] \notin {"new", "ended"}
    /\ phase' = [phase EXCEPT ![cpu] = "waiting"]
    /\ target' = [target EXCEPT ![cpu] = u]
    /\ Dispatch

\* The end of a thread releases exactly the threads that wait for it.
End ==
    /\ cpu # NULL
    /\ phase' = [t \in Thread |->
                    IF t = cpu THEN "ended"
                    ELSE IF phase[t] = "waiting" /\ target[t] = cpu
                    THEN "runnable"
                    ELSE phase[t]]
    /\ target' = [t \in Thread |-> IF target[t] = cpu THEN NULL ELSE target[t]]
    /\ Dispatch

\* The CPU changes hands, after a tick has woken the threads in W.
Reschedule(W) ==
    /\ cpu # NULL
    /\ phase' = [t \in Thread |-> IF t \in W THEN "runnable" ELSE phase[t]]
    /\ Dispatch
    /\ UNCHANGED target

LifeNext ==
    \/ \E t \in Thread : Spawn(t)
    \/ Suspend
    \/ \E u \in Thread : WaitFor(u)
    \/ End
    \/ \E W \in SUBSET {t \in Thread : phase[t] = "asleep"} : Reschedule(W)

LifeSpec == LifeInit /\ [][LifeNext]_lifeVars
=============================================================================
