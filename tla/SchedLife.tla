----------------------------- MODULE SchedLife ------------------------------
(***************************************************************************)
(* Sched implements ThreadLife: the refinement mapping.                    *)
(***************************************************************************)
EXTENDS Sched

lifePhase ==
    [t \in Thread |->
        IF t \notin created THEN "new"
        ELSE IF t \in zombie_thr_list \cup dead_thr_list THEN "ended"
        ELSE IF t \in Range(sleep_thr_list) THEN "asleep"
        ELSE IF t \in Range(join_thr_list) THEN "waiting"
        ELSE "runnable"]

lifeTarget ==
    [t \in Thread |->
        IF t \in Range(join_thr_list) THEN pcb[t].join_tid ELSE NULL]

lifeCpu == IF Running THEN active_thr ELSE NULL

Life == INSTANCE ThreadLife
            WITH phase <- lifePhase, target <- lifeTarget, cpu <- lifeCpu

\* The calls and the ticks of the scheduler, seen without its queues, are
\* steps of ThreadLife: no thread is suspended by another, a thread in
\* sthread_join is released by the end of its target and by nothing else, and
\* the process ends or stops only when no thread is runnable.
ImplementsThreadLife == Life!LifeSpec
=============================================================================
