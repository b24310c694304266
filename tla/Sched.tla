------------------------------- MODULE Sched --------------------------------
(***************************************************************************)
(* The user-level scheduler of sthread_lib/sthread_user.c: one process,    *)
(* one running thread (active_thr), two run queues (active and expired)    *)
(* swapped at the end of an epoch, the sleep and join lists, and a timer   *)
(* signal whose handler calls the dispatcher.                              *)
(*                                                                         *)
(* Every scheduler call that changes shared state runs with the signal     *)
(* ignored (splx(HIGH)), and a signal that arrives while queue.c or the C  *)
(* library runs is dropped, so one call is one action, and a tick is an    *)
(* action of its own that is possible only while the signal is enabled.    *)
(* What a call leaves undone at a context switch is the splx(LOW) that     *)
(* follows sthread_switch: it is executed by the thread that is switched   *)
(* IN, and only if that thread was switched out by a call of that shape.   *)
(* The variable lowers remembers this for each thread.                     *)
(***************************************************************************)
EXTENDS Runqueue

CONSTANTS
    Thread,           \* the threads a program may create (their PCBs)
    Main,             \* the thread sthread_init makes out of the process
    NULL,             \* the null pointer
    STATIC_MAX_PRIO,  \* the last static priority: 4 in the code
    DYN_MIN_PRIO,     \* the first dynamic priority: 5 in the code
    QUANTUM_BASE,     \* ticks of a fresh quantum: 5 in the code
    MAIN_PRIO,        \* priority of the main thread: 7 in the code
    MAX_NICE,         \* largest nice value: 10 in the code
    CLOCK_TICK,       \* divisor of the sleep conversion: 100 in the code
    \* The workload: what the program's threads may ask for.
    Calls,            \* the names of the calls they make
    CreatePrios,      \* the priorities they pass to sthread_create_p
    NiceArgs,         \* the arguments they pass to sthread_nice
    SleepTimes        \* the arguments they pass to sthread_sleep

ASSUME ThreadAssumption == Main \in Thread /\ NULL \notin Thread

ASSUME ScheduleAssumption ==
    /\ STATIC_MAX_PRIO \in Nat
    /\ DYN_MIN_PRIO = STATIC_MAX_PRIO + 1
    /\ MAIN_PRIO \in DYN_MIN_PRIO .. NUM_PRIORITIES - 1
    /\ QUANTUM_BASE \in Nat \ {0}
    /\ MAX_NICE \in Nat
    /\ CLOCK_TICK \in Nat \ {0}

ASSUME WorkloadAssumption ==
    /\ Calls \subseteq {"create", "nice", "yield", "sleep", "join", "exit"}
    /\ CreatePrios \subseteq Int
    /\ NiceArgs \subseteq Int
    /\ SleepTimes \subseteq Nat

VARIABLES
    created,          \* the threads whose PCB exists
    pcb,              \* struct _sthread of each thread
    active_rq, expired_rq,
    sleep_thr_list, join_thr_list,      \* FIFO queues
    zombie_thr_list, dead_thr_list,     \* their order is never observed: sets
    active_thr,
    spl,              \* "LOW": SIGALRM runs clock_tick; "HIGH": it is ignored
    lowers,           \* t, once switched in, starts by calling splx(LOW)
    status            \* of the process: running, exited or crashed

vars == <<created, pcb, active_rq, expired_rq, sleep_thr_list, join_thr_list,
          zombie_thr_list, dead_thr_list, active_thr, spl, lowers, status>>

Running == status = "running"

MaxQuantum == 2 * QUANTUM_BASE - 1

\* wake_in is wake_time - Clock, for a sleeping thread, and 0 for the others.
PCB == [priority : Prio, base_priority : Prio, quantum : 0 .. MaxQuantum,
        nice : 0 .. MAX_NICE, wake_in : Nat, join_tid : Thread \cup {NULL}]

NewPCB(p) == [priority |-> p, base_priority |-> p, quantum |-> QUANTUM_BASE,
              nice |-> 0, wake_in |-> 0, join_tid |-> NULL]

Clamp(n, lo, hi) == IF n < lo THEN lo ELSE IF n > hi THEN hi ELSE n

-----------------------------------------------------------------------------
(* Quantum and priority of the next epoch.                                 *)

\* Mutant: the result is not brought back into the range.
NextPriorityUnclamped(p, qpu) == p.base_priority - qpu + p.nice

\* The dynamic priority of a thread that leaves qpu ticks unused.
NextPriority(p, qpu) ==
    Clamp(p.base_priority - qpu + p.nice, DYN_MIN_PRIO, NUM_PRIORITIES - 1)

\* Mutants: a static thread is recalculated too; the fresh ticks are not added;
\* the unused ticks are kept instead of being halved.
RecalcularAll(p) ==
    [p EXCEPT !.quantum = QUANTUM_BASE + p.quantum \div 2,
              !.priority = NextPriority(p, p.quantum)]
RecalcularNoBase(p) ==
    IF p.priority <= STATIC_MAX_PRIO
    THEN p
    ELSE [p EXCEPT !.quantum = p.quantum \div 2,
                   !.priority = NextPriority(p, p.quantum)]
RecalcularKeeps(p) ==
    IF p.priority <= STATIC_MAX_PRIO
    THEN p
    ELSE [p EXCEPT !.quantum = QUANTUM_BASE + p.quantum,
                   !.priority = NextPriority(p, p.quantum)]

\* recalcular: a static thread is left alone, quantum included.
Recalcular(p) ==
    IF p.priority <= STATIC_MAX_PRIO
    THEN p
    ELSE [p EXCEPT !.quantum = QUANTUM_BASE + p.quantum \div 2,
                   !.priority = NextPriority(p, p.quantum)]

-----------------------------------------------------------------------------
(* Context switch.                                                         *)

\* Mutant: the queues are swapped one thread too early.
EpochOverEarly(a) == Cardinality(rq_threads(a)) <= 1

\* The queues are swapped when the active one is empty.
EpochOver(a) == rq_vazia(a)

(***************************************************************************)
(* if (rq_vazia(active_rq)) trocar_runqueues();                            *)
(* active_thr = rq_retirar(active_rq);                                     *)
(* sthread_switch(old->saved_ctx, active_thr->saved_ctx);                  *)
(*                                                                         *)
(* from run queues a and e, at interrupt level `level'.  When both are     *)
(* empty rq_retirar returns NULL and the read of active_thr->saved_ctx     *)
(* faults.  lowers' must be given by the caller.                           *)
(***************************************************************************)
RunNext(a, e, level) ==
    LET act == IF EpochOver(a) THEN e ELSE a
        exp == IF EpochOver(a) THEN a ELSE e
    IN  /\ expired_rq' = exp
        /\ IF rq_vazia(act)
           THEN /\ active_rq' = act
                /\ active_thr' = NULL
                /\ status' = "crashed"
                /\ spl' = level
           ELSE /\ active_rq' = rq_resto(act)
                /\ active_thr' = rq_primeira(act)
                /\ status' = status
                /\ spl' = IF lowers'[rq_primeira(act)] THEN "LOW" ELSE level

Calling(call) == Running /\ call \in Calls

-----------------------------------------------------------------------------
(* sthread_init, with the clock started and the main thread running.       *)

Init ==
    /\ created = {Main}
    /\ pcb = [t \in Thread |-> NewPCB(MAIN_PRIO)]
    /\ active_rq = criar_runqueue
    /\ expired_rq = criar_runqueue
    /\ sleep_thr_list = << >>
    /\ join_thr_list = << >>
    /\ zombie_thr_list = {}
    /\ dead_thr_list = {}
    /\ active_thr = Main
    /\ spl = "LOW"
    /\ lowers = [t \in Thread |-> TRUE]    \* sthread_aux_start does
    /\ status = "running"

-----------------------------------------------------------------------------
(* The calls of the running thread.                                        *)

\* sthread_create_p; sthread_create is the case p = 7.  The new thread is
\* ready, and the running one goes on.
Create(t, p) ==
    /\ Calling("create")
    /\ t \notin created
    /\ LET prio == Clamp(p, 0, NUM_PRIORITIES - 1)
       IN  /\ pcb' = [pcb EXCEPT ![t] = NewPCB(prio)]
           /\ active_rq' = rq_inserir(active_rq, t, prio)
    /\ created' = created \cup {t}
    /\ spl' = "LOW"
    /\ UNCHANGED <<expired_rq, sleep_thr_list, join_thr_list, zombie_thr_list,
                   dead_thr_list, active_thr, lowers, status>>

\* sthread_nice: it makes no other change than that of the nice value.
Nice(n) ==
    /\ Calling("nice")
    /\ pcb' = [pcb EXCEPT ![active_thr].nice = Clamp(n, 0, MAX_NICE)]
    /\ UNCHANGED <<created, active_rq, expired_rq, sleep_thr_list,
                   join_thr_list, zombie_thr_list, dead_thr_list, active_thr,
                   spl, lowers, status>>

\* sthread_yield: recalculated as if blocked, and back among the active ones.
Yield ==
    /\ Calling("yield")
    /\ LET p == Recalcular(pcb[active_thr])
       IN  /\ pcb' = [pcb EXCEPT ![active_thr] = p]
           /\ lowers' = [lowers EXCEPT ![active_thr] = TRUE]
           /\ RunNext(rq_inserir(active_rq, active_thr, p.priority),
                      expired_rq, "HIGH")
    /\ UNCHANGED <<created, sleep_thr_list, join_thr_list, zombie_thr_list,
                   dead_thr_list>>

\* sthread_sleep.  The conversion of the code: 10 * time / CLOCK_TICK ticks.
NumTicks(time) == (10 * time) \div CLOCK_TICK

SleepNot(time) ==
    /\ Calling("sleep")
    /\ NumTicks(time) = 0
    /\ spl' = "LOW"
    /\ UNCHANGED <<created, pcb, active_rq, expired_rq, sleep_thr_list,
                   join_thr_list, zombie_thr_list, dead_thr_list, active_thr,
                   lowers, status>>

Sleep(time) ==
    /\ Calling("sleep")
    /\ NumTicks(time) # 0
    /\ pcb' = [pcb EXCEPT ![active_thr].wake_in = NumTicks(time)]
    /\ sleep_thr_list' = Append(sleep_thr_list, active_thr)
    /\ lowers' = [lowers EXCEPT ![active_thr] = TRUE]
    /\ RunNext(active_rq, expired_rq, "HIGH")
    /\ UNCHANGED <<created, join_thr_list, zombie_thr_list, dead_thr_list>>

\* The threads sthread_join finds alive: the ones the scheduler holds.
Alive == {active_thr} \cup rq_threads(active_rq) \cup rq_threads(expired_rq)
         \cup Range(sleep_thr_list) \cup Range(join_thr_list)

\* sthread_join of a thread that ended and that nobody waited for: it returns.
JoinZombie(u) ==
    /\ Calling("join")
    /\ u \in zombie_thr_list
    /\ zombie_thr_list' = zombie_thr_list \ {u}
    /\ dead_thr_list' = dead_thr_list \cup {u}
    /\ spl' = "LOW"
    /\ UNCHANGED <<created, pcb, active_rq, expired_rq, sleep_thr_list,
                   join_thr_list, active_thr, lowers, status>>

\* sthread_join of a thread found in no queue: it returns -1.
JoinNotFound(u) ==
    /\ Calling("join")
    /\ u \in created
    /\ u \notin zombie_thr_list
    /\ u \notin Alive
    /\ spl' = "LOW"
    /\ UNCHANGED <<created, pcb, active_rq, expired_rq, sleep_thr_list,
                   join_thr_list, zombie_thr_list, dead_thr_list, active_thr,
                   lowers, status>>

\* sthread_join of a live thread (the caller itself included): it waits.
Join(u) ==
    /\ Calling("join")
    /\ u \in created
    /\ u \notin zombie_thr_list
    /\ u \in Alive
    /\ pcb' = [pcb EXCEPT ![active_thr].join_tid = u]
    /\ join_thr_list' = Append(join_thr_list, active_thr)
    /\ lowers' = [lowers EXCEPT ![active_thr] = TRUE]
    /\ RunNext(active_rq, expired_rq, "HIGH")
    /\ UNCHANGED <<created, sleep_thr_list, zombie_thr_list, dead_thr_list>>

\* Mutant: the search of the join list stops at the first match.
FirstJoiner ==
    LET w == KeepOnly(join_thr_list,
                      {t \in Thread : pcb[t].join_tid = active_thr})
    IN  IF w = << >> THEN {} ELSE {Head(w)}

\* The threads that sthread_exit takes out of the join list.
Joiners == {t \in Thread : pcb[t].join_tid = active_thr}

\* Mutant: the expired queue is forgotten.
NoneActive(act) == rq_vazia(act)

\* The process has no ready thread, act being the active queue.
NoneReady(act) == rq_vazia(act) /\ rq_vazia(expired_rq)

\* sthread_exit, or the return of the start routine: whoever waits for the
\* thread becomes ready; a thread nobody waits for is left as a zombie.  With
\* no ready thread the process ends, whoever may be sleeping or waiting.
Exit ==
    LET released == KeepOnly(join_thr_list, Joiners)
        act == rq_inserir_todas(active_rq, released,
                                [t \in Thread |-> pcb[t].priority])
    IN  /\ Calling("exit")
        /\ join_thr_list' = KeepOnly(join_thr_list, Thread \ Joiners)
        /\ IF released = << >>
           THEN /\ zombie_thr_list' = zombie_thr_list \cup {active_thr}
                /\ UNCHANGED dead_thr_list
           ELSE /\ dead_thr_list' = dead_thr_list \cup {active_thr}
                /\ UNCHANGED zombie_thr_list
        /\ UNCHANGED <<created, pcb, sleep_thr_list, lowers>>
        /\ IF NoneReady(act)
           THEN /\ status' = "exited"
                /\ spl' = "HIGH"
                /\ UNCHANGED <<active_rq, expired_rq, active_thr>>
           ELSE RunNext(act, expired_rq, "HIGH")

-----------------------------------------------------------------------------
(* The dispatcher, called by the handler of a clock tick.                  *)

\* Mutant: a sleeper is woken one tick late.
DueLate == {t \in Range(sleep_thr_list) : pcb[t].wake_in < 1}

\* The sleepers whose time comes with this tick.
Due == {t \in Range(sleep_thr_list) : pcb[t].wake_in <= 1}

\* The PCBs after Clock++ and after the sleepers that are due were woken.
TickedPCB ==
    [t \in Thread |->
        IF t \in Due
        THEN [pcb[t] EXCEPT !.wake_in = 0, !.quantum = QUANTUM_BASE]
        ELSE IF t \in Range(sleep_thr_list)
        THEN [pcb[t] EXCEPT !.wake_in = @ - 1]
        ELSE pcb[t]]

\* Mutant: a sleeper goes to the queue of its base priority.
WokenRqByBase == rq_inserir_todas(active_rq, KeepOnly(sleep_thr_list, Due),
                                  [t \in Thread |-> pcb[t].base_priority])

\* The active run queue once the sleepers that are due were inserted.
WokenRq == rq_inserir_todas(active_rq, KeepOnly(sleep_thr_list, Due),
                            [t \in Thread |-> pcb[t].priority])

\* Mutant: the sleepers that this tick woke are not looked at.
BetterWasReady == /\ ~rq_vazia(active_rq)
                  /\ rq_melhor_prio(active_rq) < pcb[active_thr].priority

\* A better thread is ready.
BetterReady == /\ ~rq_vazia(WokenRq)
               /\ rq_melhor_prio(WokenRq) < pcb[active_thr].priority

\* Mutant: the sleepers that are woken stay in the sleep list.
TickWakesCopies ==
    /\ Running
    /\ spl = "LOW"
    /\ UNCHANGED <<created, sleep_thr_list, join_thr_list, zombie_thr_list,
                   dead_thr_list>>

TickWakes ==
    /\ Running
    /\ spl = "LOW"
    /\ sleep_thr_list' = KeepOnly(sleep_thr_list, Thread \ Due)
    /\ UNCHANGED <<created, join_thr_list, zombie_thr_list, dead_thr_list>>

\* The running thread has quantum left and nobody better is ready.
TickKeep ==
    /\ TickWakes
    /\ pcb[active_thr].quantum > 1
    /\ ~BetterReady
    /\ pcb' = [TickedPCB EXCEPT ![active_thr].quantum = @ - 1]
    /\ active_rq' = WokenRq
    /\ UNCHANGED <<expired_rq, active_thr, spl, lowers, status>>

\* It has quantum left but is preempted: back to the active ones as it is.
TickPreempt ==
    /\ TickWakes
    /\ pcb[active_thr].quantum > 1
    /\ BetterReady
    /\ pcb' = [TickedPCB EXCEPT ![active_thr].quantum = @ - 1]
    /\ lowers' = [lowers EXCEPT ![active_thr] = FALSE]
    /\ RunNext(rq_inserir(WokenRq, active_thr, pcb[active_thr].priority),
               expired_rq, "LOW")

\* Mutant: the running thread, with PCB p, goes back to the active ones.
RetireToActive(p) ==
    RunNext(rq_inserir(WokenRq, active_thr, p.priority), expired_rq, "LOW")

\* The running thread, with PCB p, goes to the expired ones and another one runs.
Retire(p) ==
    RunNext(WokenRq, rq_inserir(expired_rq, active_thr, p.priority), "LOW")

\* Its quantum is used up: recalculated and moved to the expired ones.
TickExpire ==
    /\ TickWakes
    /\ pcb[active_thr].quantum <= 1
    /\ LET p == Recalcular([pcb[active_thr] EXCEPT !.quantum = 0])
       IN  /\ pcb' = [TickedPCB EXCEPT ![active_thr] = p]
           /\ lowers' = [lowers EXCEPT ![active_thr] = FALSE]
           /\ Retire(p)

Tick == TickKeep \/ TickPreempt \/ TickExpire

-----------------------------------------------------------------------------
\* The process is over.
Over == ~Running /\ UNCHANGED vars

Next ==
    \/ \E t \in Thread, p \in CreatePrios : Create(t, p)
    \/ \E n \in NiceArgs : Nice(n)
    \/ Yield
    \/ \E time \in SleepTimes : SleepNot(time)
    \/ \E time \in SleepTimes : Sleep(time)
    \/ \E u \in Thread : JoinZombie(u)
    \/ \E u \in Thread : JoinNotFound(u)
    \/ \E u \in Thread : Join(u)
    \/ Exit
    \/ Tick
    \/ Over

Spec == Init /\ [][Next]_vars

\* The timer is periodic, so a tick that stays possible is not put off for
\* ever (a thread is not always inside the C library).
FairSpec == Spec /\ WF_vars(Tick)

-----------------------------------------------------------------------------
(* What the scheduler guarantees.                                          *)

TypeOK ==
    /\ created \subseteq Thread
    /\ pcb \in [Thread -> PCB]
    /\ active_rq \in [Prio -> Seq(Thread)]
    /\ expired_rq \in [Prio -> Seq(Thread)]
    /\ sleep_thr_list \in Seq(Thread)
    /\ join_thr_list \in Seq(Thread)
    /\ zombie_thr_list \subseteq Thread
    /\ dead_thr_list \subseteq Thread
    /\ active_thr \in Thread \cup {NULL}
    /\ Running => active_thr \in Thread
    /\ spl \in {"LOW", "HIGH"}
    /\ lowers \in [Thread -> BOOLEAN]
    /\ status \in {"running", "exited", "crashed"}

\* The places that hold threads.
Holders == [cpu     |-> IF Running THEN {active_thr} ELSE {},
            active  |-> rq_threads(active_rq),
            expired |-> rq_threads(expired_rq),
            sleep   |-> Range(sleep_thr_list),
            join    |-> Range(join_thr_list),
            zombie  |-> zombie_thr_list,
            dead    |-> dead_thr_list]

\* No thread is lost and none is scheduled twice: every created thread is in
\* exactly one place, once, whatever the order of calls and ticks.  The code
\* moves PCBs by hand between seven queues and a pointer.
OnePlace ==
    /\ UNION {Holders[h] : h \in DOMAIN Holders} = created
    /\ \A g, h \in DOMAIN Holders : g # h => Holders[g] \cap Holders[h] = {}
    /\ NoDuplicates(sleep_thr_list) /\ NoDuplicates(join_thr_list)
    /\ \A p \in Prio : NoDuplicates(active_rq[p]) /\ NoDuplicates(expired_rq[p])

\* A queued thread is in the queue of its current priority: no recalculation
\* or wake-up changes the priority of a thread that is already queued.
QueuedByPriority ==
    \A p \in Prio : \A t \in Range(active_rq[p]) \cup Range(expired_rq[p]) :
        pcb[t].priority = p

\* sthread.h: priorities up to STATIC_MAX_PRIO are static, the others are
\* dynamic; no sequence of yields, nices and epochs moves a thread from one
\* band to the other or changes a static priority.
PriorityBands ==
    \A t \in created :
        IF pcb[t].base_priority <= STATIC_MAX_PRIO
        THEN pcb[t].priority = pcb[t].base_priority
        ELSE pcb[t].priority >= DYN_MIN_PRIO

\* A dynamic thread that has not ended always has a tick left to use: it is
\* never made ready, or put to sleep, with an empty quantum.
DynamicHaveQuantum ==
    \A t \in created \ (zombie_thr_list \cup dead_thr_list) :
        pcb[t].priority > STATIC_MAX_PRIO => pcb[t].quantum > 0

\* Nobody waits in sthread_join for a thread that has ended: an exit releases
\* every thread that waits for it, and a join that comes later does not wait.
NoLostJoin ==
    \A t \in Range(join_thr_list) :
        pcb[t].join_tid \in created \ (zombie_thr_list \cup dead_thr_list)

\* A sleeping thread leaves the sleep list in the tick its time has come,
\* neither earlier nor later.
WakesOnTime ==
    [][\A t \in Range(sleep_thr_list) :
          t \notin Range(sleep_thr_list') <=> (Tick /\ pcb[t].wake_in = 1)]_vars

\* Epochs: expired threads become ready again all together, and only when no
\* active thread is ready.
EpochDiscipline ==
    [][(\E t \in rq_threads(expired_rq) : t \notin rq_threads(expired_rq'))
          => /\ rq_vazia(active_rq)
             /\ rq_threads(expired_rq) \cap rq_threads(expired_rq') = {}]_vars

\* After a tick, and after every switch, no ready thread of the epoch is
\* better than the running one.
BestThreadRuns ==
    [][(Tick \/ active_thr' # active_thr) /\ Running'
          => \A u \in rq_threads(active_rq') :
                pcb'[u].priority >= pcb'[active_thr'].priority]_vars

\* No starvation among threads that compute: a ready thread gets the CPU.
ReadyThreadsRun ==
    \A t \in Thread :
        t \in rq_threads(active_rq) \cup rq_threads(expired_rq) ~> active_thr = t

-----------------------------------------------------------------------------
(* What the header and the comments promise, and the code does not do.     *)

\* sthread.h, sthread_sleep: the caller sleeps for a time, then goes on.
SleepersWake ==
    \A t \in Thread : t \in Range(sleep_thr_list)
                      ~> t \notin Range(sleep_thr_list) \/ ~Running
=============================================================================
