-------------------------------- MODULE Sync --------------------------------
(***************************************************************************)
(* The mutexes and monitors of sthread_lib/sthread_user.c, on top of the   *)
(* scheduler.  A mutex is a word l taken by test-and-set for the length of *)
(* each operation, an owner thr and a FIFO of waiters; a monitor adds a    *)
(* FIFO of threads in sthread_monitor_wait.  Every mutex here belongs to a *)
(* monitor; a plain mutex is one nobody waits on.                          *)
(*                                                                         *)
(* Unlike the scheduler's own calls these operations run with the clock    *)
(* enabled, so they are broken into the steps between which a tick can be  *)
(* taken: pc says where in an operation each thread is.  Steps inside the  *)
(* section guarded by l are merged up to the atomic_clear that ends it:    *)
(* whoever else needs the section can only spin until then.                *)
(***************************************************************************)
EXTENDS Sched

CONSTANTS
    Mon,           \* the monitors of the program
    SyncCalls      \* what its threads do with them

ASSUME MonAssumption == NULL \notin Mon

ASSUME SyncCallsAssumption ==
    SyncCalls \subseteq {"lock", "unlock", "wait", "signal"}

VARIABLES
    l,             \* the test-and-set word of each mutex
    thr,           \* its owner
    queue,         \* the threads blocked in sthread_mutex_lock, and signalled
    cond,          \* the threads in sthread_monitor_wait, not yet signalled
    blocked_list,  \* threads listed as blocked by sthread_dump
    pc,            \* the step each thread is at
    on,            \* the monitor of the operation it is in, NULL outside
    inWait,        \* the operation is sthread_monitor_wait
    holds          \* history: the monitors a thread has entered and not left

monVars == <<l, thr, queue, cond, blocked_list>>
threadVars == <<pc, on, inWait, holds>>
syncVars == <<l, thr, queue, cond, blocked_list, pc, on, inWait, holds>>
allVars == <<vars, syncVars>>

Label == {"user",                            \* outside these operations
          "lockSpin", "lockBody",            \* sthread_mutex_lock
          "unlSpin", "unlBody", "unlYield",  \* sthread_mutex_unlock
          "unlPick", "unlSwitch",
          "sigSpin", "sigBody",              \* sthread_monitor_signal
          "park", "parked"}                  \* giving the CPU up, blocked

SyncInit ==
    /\ Init
    /\ l = [m \in Mon |-> 0]
    /\ thr = [m \in Mon |-> NULL]
    /\ queue = [m \in Mon |-> << >>]
    /\ cond = [m \in Mon |-> << >>]
    /\ blocked_list = << >>
    /\ pc = [t \in Thread |-> "user"]
    /\ on = [t \in Thread |-> NULL]
    /\ inWait = [t \in Thread |-> FALSE]
    /\ holds = [t \in Thread |-> {}]

-----------------------------------------------------------------------------
\* The stack of a thread at "unlSwitch" is running though active_thr is
\* already another one.
Switching == \E t \in Thread : pc[t] = "unlSwitch"

\* The running thread is at a label.
At(label) == Running /\ ~Switching /\ pc[active_thr] = label

MyMon == on[active_thr]

Goto(label) == pc' = [pc EXCEPT ![active_thr] = label]

\* The running thread starts an operation on monitor m.  Unlock, wait and signal
\* by a thread that does not own the mutex print a message and return: they
\* change nothing, and have no action here.
Begin(label, m) ==
    /\ Goto(label)
    /\ on' = [on EXCEPT ![active_thr] = m]

\* It comes back from one.
Return == Begin("user", NULL)

\* atomic_test_and_set(&l) succeeds; while it does not the thread spins.
TestAndSet(spin, body) ==
    /\ At(spin)
    /\ l[MyMon] = 0
    /\ l' = [l EXCEPT ![MyMon] = 1]
    /\ Goto(body)
    /\ UNCHANGED <<vars, thr, queue, cond, blocked_list, on, inWait, holds>>

\* The loop around it: it changes nothing, and goes on while a tick does not
\* take the CPU away.
Spin ==
    /\ \E spin \in {"lockSpin", "unlSpin", "sigSpin"} : At(spin)
    /\ l[MyMon] = 1
    /\ UNCHANGED allVars

AtomicClear == l' = [l EXCEPT ![MyMon] = 0]

-----------------------------------------------------------------------------
(* sthread_mutex_lock and sthread_monitor_enter.                           *)

\* A thread does not lock a mutex it holds.
CallLock(m) ==
    /\ At("user")
    /\ "lock" \in SyncCalls
    /\ m \notin holds[active_thr]
    /\ Begin("lockSpin", m)
    /\ UNCHANGED <<vars, monVars, inWait, holds>>

\* Mutant: the owner is not looked at.
MutexFreeAlways == TRUE

MutexFree == thr[MyMon] = NULL

LockTAS == TestAndSet("lockSpin", "lockBody")

LockFree ==
    /\ At("lockBody")
    /\ MutexFree
    /\ thr' = [thr EXCEPT ![MyMon] = active_thr]
    /\ AtomicClear
    /\ holds' = [holds EXCEPT ![active_thr] = @ \cup {MyMon}]
    /\ Return
    /\ UNCHANGED <<vars, queue, cond, blocked_list, inWait>>

LockBusy ==
    /\ At("lockBody")
    /\ ~MutexFree
    /\ pcb' = [pcb EXCEPT ![active_thr] = Recalcular(@)]
    /\ queue' = [queue EXCEPT ![MyMon] = Append(@, active_thr)]
    /\ blocked_list' = Append(blocked_list, active_thr)
    /\ AtomicClear
    /\ Goto("park")
    /\ UNCHANGED <<created, active_rq, expired_rq, sleep_thr_list,
                   join_thr_list, zombie_thr_list, dead_thr_list, active_thr,
                   spl, lowers, status, thr, cond, on, inWait, holds>>

\* splx(HIGH), the switch, and for the thread switched in what it left undone.
Park ==
    /\ At("park")
    /\ lowers' = [lowers EXCEPT ![active_thr] = TRUE]
    /\ RunNext(active_rq, expired_rq, "HIGH")
    /\ Goto("parked")
    /\ UNCHANGED <<created, pcb, sleep_thr_list, join_thr_list,
                   zombie_thr_list, dead_thr_list, monVars, on, inWait, holds>>

\* The blocked thread runs again: lock, or wait, returns inside the monitor.
Unpark ==
    /\ At("parked")
    /\ holds' = [holds EXCEPT ![active_thr] = @ \cup {MyMon}]
    /\ inWait' = [inWait EXCEPT ![active_thr] = FALSE]
    /\ Return
    /\ UNCHANGED <<vars, monVars>>

-----------------------------------------------------------------------------
(* sthread_mutex_unlock and sthread_monitor_exit.                          *)

CallUnlock(m) ==
    /\ At("user")
    /\ "unlock" \in SyncCalls
    /\ m \in holds[active_thr]
    /\ thr[m] = active_thr
    /\ holds' = [holds EXCEPT ![active_thr] = @ \ {m}]
    /\ Begin("unlSpin", m)
    /\ UNCHANGED <<vars, monVars, inWait>>

UnlockTAS == TestAndSet("unlSpin", "unlBody")

\* Back to the caller, which is sthread_monitor_wait or the program.
UnlockReturns(t) ==
    /\ pc' = [pc EXCEPT ![t] = IF inWait[t] THEN "park" ELSE "user"]
    /\ on' = [on EXCEPT ![t] = IF inWait[t] THEN @ ELSE NULL]

\* Mutant: the queue is not looked at.
NobodyQueuedAlways == TRUE

NobodyQueued == queue[MyMon] = << >>

UnlockFree ==
    /\ At("unlBody")
    /\ NobodyQueued
    /\ thr' = [thr EXCEPT ![MyMon] = NULL]
    /\ AtomicClear
    /\ UnlockReturns(active_thr)
    /\ UNCHANGED <<vars, queue, cond, blocked_list, inWait, holds>>

\* Mutant: the thread is not made ready.
ReadyNot(t) == UNCHANGED active_rq

Ready(t) == active_rq' = rq_inserir(active_rq, t, pcb[t].priority)

\* Mutant: the thread stays listed.
UnlistNot(t) == UNCHANGED blocked_list

\* The list is rebuilt without t.
Unlist(t) == blocked_list' = KeepOnly(blocked_list, Thread \ {t})

\* The mutex is handed to the first waiter, which becomes ready; if it is
\* better than the running thread that one is about to give the CPU up.
UnlockHandOff ==
    /\ At("unlBody")
    /\ ~NobodyQueued
    /\ LET t == Head(queue[MyMon])
       IN  /\ queue' = [queue EXCEPT ![MyMon] = Tail(@)]
           /\ Unlist(t)
           /\ thr' = [thr EXCEPT ![MyMon] = t]
           /\ Ready(t)
           /\ IF pcb[t].priority < pcb[active_thr].priority
              THEN Goto("unlYield") /\ UNCHANGED on
              ELSE UnlockReturns(active_thr)
    /\ AtomicClear
    /\ UNCHANGED <<created, pcb, expired_rq, sleep_thr_list, join_thr_list,
                   zombie_thr_list, dead_thr_list, active_thr, spl, lowers,
                   status, cond, inWait, holds>>

UnlockYield ==
    /\ At("unlYield")
    /\ Ready(active_thr)
    /\ Goto("unlPick")
    /\ UNCHANGED <<created, pcb, expired_rq, sleep_thr_list, join_thr_list,
                   zombie_thr_list, dead_thr_list, active_thr, spl, lowers,
                   status, monVars, on, inWait, holds>>

\* active_thr = rq_retirar(active_rq), with no look at the expired queue.
UnlockPick ==
    /\ At("unlPick")
    /\ IF rq_vazia(active_rq)
       THEN /\ active_thr' = NULL
            /\ status' = "crashed"
            /\ UNCHANGED <<active_rq, pc, on>>
       ELSE /\ active_thr' = rq_primeira(active_rq)
            /\ active_rq' = rq_resto(active_rq)
            /\ UNCHANGED status
            /\ IF active_thr' = active_thr
               THEN UnlockReturns(active_thr)
               ELSE Goto("unlSwitch") /\ UNCHANGED on
    /\ UNCHANGED <<created, pcb, expired_rq, sleep_thr_list, join_thr_list,
                   zombie_thr_list, dead_thr_list, spl, lowers,
                   monVars, inWait, holds>>

\* sthread_switch: the stack of active_thr runs now.  Nothing was done to the
\* clock, and t will do nothing to it when it returns.
UnlockSwitch(t) ==
    /\ Running
    /\ pc[t] = "unlSwitch"
    /\ lowers' = [lowers EXCEPT ![t] = FALSE]
    /\ spl' = IF lowers[active_thr] THEN "LOW" ELSE spl
    /\ UnlockReturns(t)
    /\ UNCHANGED <<created, pcb, active_rq, expired_rq, sleep_thr_list,
                   join_thr_list, zombie_thr_list, dead_thr_list, active_thr,
                   status, monVars, inWait, holds>>

-----------------------------------------------------------------------------
(* sthread_monitor_wait and sthread_monitor_signal.                        *)

\* The caller registers itself, then calls sthread_mutex_unlock.
CallWait(m) ==
    /\ At("user")
    /\ "wait" \in SyncCalls
    /\ m \in holds[active_thr]
    /\ thr[m] = active_thr
    /\ pcb' = [pcb EXCEPT ![active_thr] = Recalcular(@)]
    /\ cond' = [cond EXCEPT ![m] = Append(@, active_thr)]
    /\ blocked_list' = Append(blocked_list, active_thr)
    /\ inWait' = [inWait EXCEPT ![active_thr] = TRUE]
    /\ holds' = [holds EXCEPT ![active_thr] = @ \ {m}]
    /\ Begin("unlSpin", m)
    /\ UNCHANGED <<created, active_rq, expired_rq, sleep_thr_list,
                   join_thr_list, zombie_thr_list, dead_thr_list, active_thr,
                   spl, lowers, status, l, thr, queue>>

CallSignal(m) ==
    /\ At("user")
    /\ "signal" \in SyncCalls
    /\ m \in holds[active_thr]
    /\ thr[m] = active_thr
    /\ Begin("sigSpin", m)
    /\ UNCHANGED <<vars, monVars, inWait, holds>>

SignalTAS == TestAndSet("sigSpin", "sigBody")

\* Mutant: the thread that is signalled is dropped.
RequeueNot(t) == UNCHANGED queue

Requeue(t) == queue' = [queue EXCEPT ![MyMon] = Append(@, t)]

\* The first waiter, if any, goes on to wait for the mutex.
SignalBody ==
    /\ At("sigBody")
    /\ IF cond[MyMon] = << >>
       THEN UNCHANGED <<queue, cond, blocked_list>>
       ELSE LET t == Head(cond[MyMon])
            IN  /\ cond' = [cond EXCEPT ![MyMon] = Tail(@)]
                /\ Unlist(t)
                /\ Requeue(t)
    /\ AtomicClear
    /\ Return
    /\ UNCHANGED <<vars, thr, inWait, holds>>

-----------------------------------------------------------------------------
(* The rest of the program, and the clock.                                 *)

\* The scheduler's calls, from outside the operations above.  A thread ends,
\* or waits for another one to end, only outside every monitor.
SchedCall ==
    /\ At("user")
    /\ \/ \E t \in Thread, p \in CreatePrios : Create(t, p)
       \/ \E n \in NiceArgs : Nice(n)
       \/ Yield
       \/ \E time \in SleepTimes : Sleep(time) \/ SleepNot(time)
       \/ /\ holds[active_thr] = {}
          /\ \/ Exit
             \/ \E u \in Thread : Join(u) \/ JoinZombie(u) \/ JoinNotFound(u)
    /\ UNCHANGED syncVars

ClockTick ==
    /\ ~Switching
    /\ Tick
    /\ UNCHANGED syncVars

\* A tick between the assignment of active_thr in sthread_mutex_unlock and the
\* switch: the dispatcher takes active_thr for the thread that runs, and a
\* switch there saves the running stack in the wrong PCB.  What the program
\* does from then on is not modelled.
TickWhileSwitching ==
    /\ Running
    /\ spl = "LOW"
    /\ Switching
    /\ status' = "crashed"
    /\ UNCHANGED <<created, pcb, active_rq, expired_rq, sleep_thr_list,
                   join_thr_list, zombie_thr_list, dead_thr_list, active_thr,
                   spl, lowers, syncVars>>

\* The steps of the running thread inside an operation.
OpStep ==
    \/ LockTAS \/ LockFree \/ LockBusy \/ Park \/ Unpark
    \/ UnlockTAS \/ UnlockFree \/ UnlockHandOff \/ UnlockYield \/ UnlockPick
    \/ \E t \in Thread : UnlockSwitch(t)
    \/ SignalTAS \/ SignalBody

SyncCall == \E m \in Mon : CallLock(m) \/ CallUnlock(m) \/ CallWait(m)
                           \/ CallSignal(m)

SyncOver == ~Running /\ UNCHANGED allVars

SyncNext ==
    \/ SyncCall
    \/ OpStep
    \/ Spin
    \/ SchedCall
    \/ ClockTick
    \/ TickWhileSwitching
    \/ SyncOver

SyncSpec == SyncInit /\ [][SyncNext]_allVars

\* The program's side of fairness: a thread that is given the CPU again and
\* again executes steps (a tick period is many instructions), and the workload
\* does not compute for ever between two operations.  The timer is periodic.
ThreadStep(t) == active_thr = t /\ (SyncCall \/ OpStep)

SyncFairSpec == /\ SyncSpec
                /\ \A t \in Thread : SF_allVars(ThreadStep(t))
                /\ WF_allVars(ClockTick)

-----------------------------------------------------------------------------
(* What the monitors guarantee.                                            *)

SyncTypeOK ==
    /\ TypeOK
    /\ l \in [Mon -> {0, 1}]
    /\ thr \in [Mon -> Thread \cup {NULL}]
    /\ queue \in [Mon -> Seq(Thread)]
    /\ cond \in [Mon -> Seq(Thread)]
    /\ blocked_list \in Seq(Thread)
    /\ pc \in [Thread -> Label]
    /\ on \in [Thread -> Mon \cup {NULL}]
    /\ inWait \in [Thread -> BOOLEAN]
    /\ holds \in [Thread -> SUBSET Mon]

\* A thread that was let into a monitor and has not left it owns its mutex,
\* even while it is preempted: two threads are never inside at once.
MutualExclusion ==
    \A t \in Thread : \A m \in holds[t] : thr[m] = t

\* A free mutex has no waiters: the unlock that frees it saw every thread
\* that found it taken.
NoStrandedWaiter ==
    \A m \in Mon : thr[m] = NULL => queue[m] = << >>

\* How many times t is about to be given the CPU, or has it.
Tokens(t) == Occurrences(active_rq, t) + Occurrences(expired_rq, t)
             + One(active_thr = t)
             + One(t \in Range(sleep_thr_list) \cup Range(join_thr_list))

Awaiting(t) == \E m \in Mon : t \in Range(queue[m]) \cup Range(cond[m])

\* t is listed as a waiter, or back in the run queue, and still has the CPU to
\* give up for it.
OwesPark(t) == \/ pc[t] = "park"
               \/ inWait[t] /\ pc[t] \in {"unlSpin", "unlBody", "unlYield",
                                        "unlPick", "unlSwitch"}
OwesPick(t) == pc[t] = "unlPick"

\* No wake-up is lost and none is spent twice.  A thread that puts itself in
\* the queue of a mutex can be preempted, or handed the mutex, before it
\* parks, so it can be both queued to run and a waiter, and it can be queued
\* to run twice; the number of turns it gets is always what it needs.
TurnsBalance ==
    Running => \A t \in created \ (zombie_thr_list \cup dead_thr_list) :
        Tokens(t) + One(Awaiting(t)) = 1 + One(OwesPark(t)) + One(OwesPick(t))

\* The dump never lists as blocked a thread that waits for nothing, nor lists
\* one twice.
ListedAreBlocked ==
    /\ \A t \in Range(blocked_list) : Awaiting(t)
    /\ NoDuplicates(blocked_list)

\* The two ways the preemption in sthread_mutex_unlock breaks down: it finds no
\* active thread to switch to, or a tick comes before the switch.
UnlockFails ==
    status = "crashed" /\ \E t \in Thread : pc[t] \in {"unlPick", "unlSwitch"}

\* A thread that was handed a mutex gets into the monitor, unless the process
\* ends first or the preemption of an unlock breaks down: the other threads
\* never come to block with no thread left to switch to meanwhile.
HandedOverEnters ==
    \A t \in Thread : \A m \in Mon :
        thr[m] = t /\ pc[t] \in {"park", "parked"}
            ~> m \in holds[t] \/ status = "exited" \/ UnlockFails

\* The monitor m, as Monitor sees it.  A thread that has called wait counts as
\* waiting once it is not the owner.
Mtr(m) == INSTANCE Monitor
              WITH owner <- thr[m], entry <- queue[m],
                   waiting <- KeepOnly(cond[m], Thread \ {thr[m]})

MonitorsInit == \A m \in Mon : Mtr(m)!MonitorInit

MonitorsStep ==
    \A m \in Mon : Mtr(m)!MonitorNext \/ UNCHANGED Mtr(m)!monitorVars

\* Each monitor implements Monitor: seen at the points where l is cleared,
\* every operation is atomic, hand-over is FIFO and signals are not lost.
ImplementsMonitor == MonitorsInit /\ [][MonitorsStep]_allVars

-----------------------------------------------------------------------------
(* What the comments and the header promise, and the code does not do.     *)

\* sthread_ctx.c, sthread_switch: "save the currently running thread context
\* into old".  The dispatcher runs in the thread that active_thr names.
TickSeesRunningThread == [][~TickWhileSwitching]_allVars
=============================================================================
