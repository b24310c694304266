------------------------------ MODULE SyncProofs -----------------------------
(***************************************************************************)
(* Proofs about mutexes and monitors, for any number of threads, monitors  *)
(* and priorities: no two threads are inside a monitor at once, and no     *)
(* wake-up is lost or spent twice, wherever ticks fall.                    *)
(***************************************************************************)
EXTENDS Sync, SchedProofs

-----------------------------------------------------------------------------
(* The inductive invariant.                                                *)

\* The threads that have begun and not ended, and those that sleep or join.
Live == created \ (zombie_thr_list \cup dead_thr_list)
Suspended == Range(sleep_thr_list) \cup Range(join_thr_list)

\* The labels between the call of sthread_mutex_unlock and its return.
Unlocking == {"unlSpin", "unlBody", "unlYield", "unlPick", "unlSwitch"}

\* A thread that has listed itself as a waiter and is not back yet.
Blocked(t) == OwesPark(t) \/ pc[t] = "parked"

\* What the label of a thread says of its monitor.
LabelsOK ==
    \A t \in Thread :
        /\ pc[t] = "user" <=> on[t] = NULL
        /\ inWait[t] => pc[t] \in Unlocking \cup {"park", "parked"}
        /\ pc[t] \notin {"user", "sigSpin", "sigBody"} => on[t] \notin holds[t]
        /\ pc[t] \in {"unlSpin", "unlBody", "sigSpin", "sigBody"} => thr[on[t]] = t

\* The lists of a monitor hold blocked threads of it, each in one place.
ListedBlock ==
    \A m \in Mon : /\ NoDuplicates(queue[m]) /\ NoDuplicates(cond[m])
                   /\ Range(queue[m]) \cap Range(cond[m]) = {}
                   /\ \A t \in Range(queue[m]) \cup Range(cond[m]) :
                         t \in Thread /\ on[t] = m /\ Blocked(t)

\* A blocked thread is in such a list or was handed the mutex.
BlockedListed ==
    \A t \in Thread : Blocked(t) => \/ thr[on[t]] = t
                                    \/ t \in Range(queue[on[t]]) \cup Range(cond[on[t]])

\* One that has just called wait, and still has the mutex, is in cond.
WaiterListed ==
    \A t \in Thread : inWait[t] /\ pc[t] \in {"unlSpin", "unlBody"}
                         => t \in Range(cond[on[t]])

ListsOK == ListedBlock /\ BlockedListed /\ WaiterListed

\* A mutex is owned by a thread in the monitor, or that goes, or that was blocked.
OwnersOK ==
    \A m \in Mon, t \in Thread :
        thr[m] = t => \/ m \in holds[t]
                      \/ on[t] = m /\ (pc[t] \in {"unlSpin", "unlBody"} \/ Blocked(t))

MonInv == /\ LabelsOK
          /\ ListsOK
          /\ OwnersOK
          /\ MutualExclusion
          /\ NoStrandedWaiter
          /\ ListedAreBlocked

TurnsInv == /\ NoDuplicates(sleep_thr_list) /\ NoDuplicates(join_thr_list)
            /\ Range(sleep_thr_list) \cap Range(join_thr_list) = {}
            /\ zombie_thr_list \cup dead_thr_list \subseteq created
            /\ \A t \in Thread \ Live : Tokens(t) = 0 /\ pc[t] = "user"
            /\ TurnsBalance

SyncInv == SyncTypeOK /\ MonInv /\ (Running => TurnsInv)

-----------------------------------------------------------------------------
(* Types.                                                                  *)

\* The thread that acts, and the monitor it is in.
LEMMA Actor ==
  ASSUME SyncTypeOK, LabelsOK, NEW label, At(label)
  PROVE  /\ Running /\ ~Switching
         /\ active_thr \in Thread /\ pc[active_thr] = label
         /\ label # "user" => MyMon \in Mon
         /\ label = "user" => on[active_thr] = NULL /\ ~inWait[active_thr]
<1>1. Running => active_thr \in Thread
  BY DEF SyncTypeOK, TypeOK
<1> QED
  BY <1>1 DEF At, LabelsOK, SyncTypeOK, MyMon, Unlocking

\* A step that leaves the scheduler alone.
LEMMA SchedUntouched ==
  ASSUME TypeOK, UNCHANGED vars
  PROVE  TypeOK'
BY DEF TypeOK, vars, Running

\* The PCB of the running thread is recalculated when it blocks.
LEMMA BlockedPCB ==
  ASSUME TypeOK, active_thr \in Thread
  PROVE  [pcb EXCEPT ![active_thr] = Recalcular(@)] \in [Thread -> PCB]
<1>1. pcb[active_thr] \in PCB /\ pcb \in [Thread -> PCB]
  BY DEF TypeOK
<1>2. Recalcular(pcb[active_thr]) \in PCB
  BY <1>1, RecalcularProperties
<1> QED
  BY <1>1, <1>2

\* A thread that is made ready goes to a queue of its priority.
LEMMA ReadyType ==
  ASSUME TypeOK, NEW t \in Thread
  PROVE  rq_inserir(active_rq, t, pcb[t].priority) \in Runqueues
<1>1. active_rq \in [Prio -> Seq(Thread)] /\ pcb[t].priority \in Prio
  BY PCBFields DEF TypeOK
<1> QED
  BY <1>1, InserirRange DEF Runqueues

LEMMA SyncTypeNext ==
  ASSUME SyncTypeOK, LabelsOK, [SyncNext]_allVars
  PROVE  SyncTypeOK'
<1> USE DEF SyncTypeOK
<1>1. ASSUME NEW m \in Mon, CallLock(m) \/ CallUnlock(m) \/ CallSignal(m)
      PROVE  SyncTypeOK'
  <2>1. TypeOK'
    BY <1>1, SchedUntouched DEF CallLock, CallUnlock, CallSignal
  <2>2. active_thr \in Thread
    BY <1>1, Actor DEF CallLock, CallUnlock, CallSignal
  <2>3. UNCHANGED <<l, thr, queue, cond, blocked_list, inWait>>
    BY <1>1 DEF CallLock, CallUnlock, CallSignal, monVars
  <2>4. pc' \in [Thread -> Label]
    <3>1. {"lockSpin", "unlSpin", "sigSpin"} \subseteq Label
      BY DEF Label
    <3>2. \E label \in Label : pc' = [pc EXCEPT ![active_thr] = label]
      BY <1>1, <3>1 DEF CallLock, CallUnlock, CallSignal, Begin, Goto
    <3> QED
      BY <3>2
  <2>5. on' \in [Thread -> Mon \cup {NULL}]
    <3>1. on' = [on EXCEPT ![active_thr] = m]
      BY <1>1 DEF CallLock, CallUnlock, CallSignal, Begin
    <3> QED
      BY <3>1
  <2>6. holds' \in [Thread -> SUBSET Mon]
    <3>1. holds' = holds \/ holds' = [holds EXCEPT ![active_thr] = @ \ {m}]
      BY <1>1 DEF CallLock, CallUnlock, CallSignal
    <3> QED
      BY <2>2, <3>1
  <2> QED
    BY <2>1, <2>3, <2>4, <2>5, <2>6
<1>2. ASSUME NEW m \in Mon, CallWait(m)
      PROVE  SyncTypeOK'
  <2>1. active_thr \in Thread /\ Running
    BY <1>2, Actor DEF CallWait
  <2>2. TypeOK'
    BY <1>2, <2>1, BlockedPCB DEF CallWait, TypeOK, Running
  <2>3. Append(cond[m], active_thr) \in Seq(Thread)
        /\ Append(blocked_list, active_thr) \in Seq(Thread)
    BY <2>1, AppendRange
  <2> QED
    BY <1>2, <2>1, <2>2, <2>3 DEF CallWait, Begin, Goto, Label
<1>3. CASE LockTAS \/ UnlockTAS \/ SignalTAS
  <2>1. PICK spin \in {"lockSpin", "unlSpin", "sigSpin"}, body \in {"lockBody", "unlBody", "sigBody"} :
          TestAndSet(spin, body)
    BY <1>3 DEF LockTAS, UnlockTAS, SignalTAS
  <2>2. active_thr \in Thread
    BY <2>1, Actor DEF TestAndSet
  <2>3. TypeOK'
    BY <2>1, SchedUntouched DEF TestAndSet
  <2> QED
    BY <2>1, <2>2, <2>3 DEF TestAndSet, Goto, Label
<1>4. CASE LockFree
  <2>1. active_thr \in Thread /\ MyMon \in Mon
    BY <1>4, Actor DEF LockFree
  <2>2. TypeOK'
    BY <1>4, SchedUntouched DEF LockFree
  <2> QED
    BY <1>4, <2>1, <2>2 DEF LockFree, AtomicClear, Return, Begin, Goto, Label
<1>5. CASE LockBusy
  <2>1. active_thr \in Thread /\ Running /\ MyMon \in Mon
    BY <1>5, Actor DEF LockBusy
  <2>2. TypeOK'
    BY <1>5, <2>1, BlockedPCB DEF LockBusy, TypeOK, Running
  <2>3. Append(queue[MyMon], active_thr) \in Seq(Thread)
        /\ Append(blocked_list, active_thr) \in Seq(Thread)
    BY <2>1, AppendRange
  <2> QED
    BY <1>5, <2>1, <2>2, <2>3 DEF LockBusy, AtomicClear, Goto, Label
<1>6. CASE Park
  <2>1. active_thr \in Thread /\ Running
    BY <1>6, Actor DEF Park
  <2>2. active_rq \in Runqueues /\ expired_rq \in Runqueues
    BY DEF TypeOK, Runqueues
  <2>3. TypeOK'
    BY <1>6, <2>1, <2>2, RunNextType DEF Park, TypeOK, Runqueues
  <2> QED
    BY <1>6, <2>1, <2>3 DEF Park, Goto, Label, monVars
<1>7. CASE Unpark
  <2>1. active_thr \in Thread /\ MyMon \in Mon
    BY <1>7, Actor DEF Unpark
  <2>2. TypeOK'
    BY <1>7, SchedUntouched DEF Unpark
  <2> QED
    BY <1>7, <2>1, <2>2 DEF Unpark, Return, Begin, Goto, Label, monVars
<1>8. CASE UnlockFree
  <2>1. active_thr \in Thread /\ MyMon \in Mon
    BY <1>8, Actor DEF UnlockFree
  <2>2. TypeOK'
    BY <1>8, SchedUntouched DEF UnlockFree
  <2> QED
    BY <1>8, <2>1, <2>2 DEF UnlockFree, AtomicClear, UnlockReturns, Label
<1>9. CASE UnlockHandOff
  <2> DEFINE t == Head(queue[MyMon])
  <2>1. active_thr \in Thread /\ MyMon \in Mon /\ Running
    BY <1>9, Actor DEF UnlockHandOff
  <2>2. t \in Thread /\ Tail(queue[MyMon]) \in Seq(Thread)
    BY <1>9, <2>1, TailRange DEF UnlockHandOff, NobodyQueued
  <2>3. TypeOK'
    <3>1. active_rq' \in Runqueues
      BY <1>9, <2>2, ReadyType DEF UnlockHandOff, Ready
    <3> QED
      BY <1>9, <2>1, <3>1 DEF UnlockHandOff, TypeOK, Running, Runqueues
  <2>4. blocked_list' \in Seq(Thread)
    BY <1>9, KeepOnlyRange DEF UnlockHandOff, Unlist
  <2> HIDE DEF t
  <2>5. pc' \in [Thread -> Label] /\ on' \in [Thread -> Mon \cup {NULL}]
    BY <1>9, <2>1 DEF UnlockHandOff, UnlockReturns, Goto, Label
  <2>6. /\ thr' = [thr EXCEPT ![MyMon] = t] /\ l' = [l EXCEPT ![MyMon] = 0]
        /\ queue' = [queue EXCEPT ![MyMon] = Tail(@)]
        /\ UNCHANGED <<cond, inWait, holds>>
    BY <1>9 DEF UnlockHandOff, AtomicClear, t
  <2> QED
    BY <2>1, <2>2, <2>3, <2>4, <2>5, <2>6
<1>10. CASE UnlockYield
  <2>1. active_thr \in Thread /\ Running
    BY <1>10, Actor DEF UnlockYield
  <2>2. active_rq' \in Runqueues
    BY <1>10, <2>1, ReadyType DEF UnlockYield, Ready
  <2>3. TypeOK'
    BY <1>10, <2>1, <2>2 DEF UnlockYield, TypeOK, Running, Runqueues
  <2> QED
    BY <1>10, <2>1, <2>3 DEF UnlockYield, Goto, Label, monVars
<1>11. CASE UnlockPick
  <2>1. active_thr \in Thread /\ Running /\ MyMon \in Mon
    BY <1>11, Actor DEF UnlockPick
  <2>2. active_rq \in Runqueues
    BY DEF TypeOK, Runqueues
  <2>3. ~rq_vazia(active_rq) => rq_primeira(active_rq) \in Thread
                                /\ rq_resto(active_rq) \in Runqueues
    BY <2>2, RetirarRange DEF Runqueues
  <2>4. TypeOK'
    BY <1>11, <2>1, <2>2, <2>3 DEF UnlockPick, TypeOK, Running, Runqueues
  <2>5. pc' \in [Thread -> Label] /\ on' \in [Thread -> Mon \cup {NULL}]
    BY <1>11, <2>1 DEF UnlockPick, UnlockReturns, Goto, Label
  <2> QED
    BY <1>11, <2>4, <2>5 DEF UnlockPick, monVars
<1>12. ASSUME NEW t \in Thread, UnlockSwitch(t)
       PROVE  SyncTypeOK'
  <2>1. TypeOK'
    BY <1>12 DEF UnlockSwitch, TypeOK, Running
  <2> QED
    BY <1>12, <2>1 DEF UnlockSwitch, UnlockReturns, Label, monVars
<1>13. CASE SignalBody
  <2>1. active_thr \in Thread /\ MyMon \in Mon
    BY <1>13, Actor DEF SignalBody
  <2>2. TypeOK'
    BY <1>13, SchedUntouched DEF SignalBody
  <2>3. cond[MyMon] # << >> =>
          /\ Tail(cond[MyMon]) \in Seq(Thread)
          /\ Append(queue[MyMon], Head(cond[MyMon])) \in Seq(Thread)
          /\ KeepOnly(blocked_list, Thread \ {Head(cond[MyMon])}) \in Seq(Thread)
    BY <2>1, TailRange, AppendRange, KeepOnlyRange
  <2>4. /\ queue' \in [Mon -> Seq(Thread)] /\ cond' \in [Mon -> Seq(Thread)]
        /\ blocked_list' \in Seq(Thread)
    BY <1>13, <2>1, <2>3 DEF SignalBody, Unlist, Requeue
  <2> QED
    BY <1>13, <2>1, <2>2, <2>4 DEF SignalBody, AtomicClear, Return, Begin, Goto, Label
<1>14. CASE SchedCall \/ ClockTick
  <2>1. Next /\ UNCHANGED syncVars
    BY <1>14 DEF SchedCall, ClockTick, Next
  <2>2. TypeOK'
    BY <2>1, NextType
  <2> QED
    BY <2>1, <2>2 DEF syncVars
<1>15. CASE TickWhileSwitching
  <2>1. TypeOK'
    BY <1>15 DEF TickWhileSwitching, TypeOK, Running
  <2> QED
    BY <1>15, <2>1 DEF TickWhileSwitching, syncVars
<1>16. CASE UNCHANGED allVars
  <2>1. TypeOK'
    BY <1>16, SchedUntouched DEF allVars
  <2> QED
    BY <1>16, <2>1 DEF allVars, syncVars
<1> QED
  BY <1>1, <1>2, <1>3, <1>4, <1>5, <1>6, <1>7, <1>8, <1>9, <1>10, <1>11, <1>12, <1>13,
     <1>14, <1>15, <1>16 DEF SyncNext, SyncCall, OpStep, Spin, SyncOver

-----------------------------------------------------------------------------
(* Monitors: one lemma for each step of a thread.                          *)

\* A thread that is in no operation is blocked nowhere, and not listed.
LEMMA NotAwaiting ==
  ASSUME ListsOK, NEW t, ~Blocked(t)
  PROVE  ~Awaiting(t) /\ \A m \in Mon : t \notin Range(queue[m]) /\ t \notin Range(cond[m])
BY DEF ListsOK, ListedBlock, Awaiting

\* A thread that waits is at its monitor, in one list of it.
LEMMA AwaitsAtItsMonitor ==
  ASSUME ListsOK, NEW t, Awaiting(t)
  PROVE  /\ Blocked(t) /\ on[t] \in Mon
         /\ t \in Range(queue[on[t]]) \cup Range(cond[on[t]])
BY DEF ListsOK, ListedBlock, Awaiting

\* A step that changes neither the lists, nor who owns and holds what.
LEMMA ListsStay ==
  ASSUME SyncTypeOK, MonInv, NEW a \in Thread,
         UNCHANGED <<thr, queue, cond, blocked_list, inWait, holds>>,
         NEW label \in Label, pc' = [pc EXCEPT ![a] = label],
         (Blocked(a))' <=> Blocked(a),
         pc[a] # "user", label # "user", UNCHANGED on,
         on[a] \in holds[a] => label \in {"sigSpin", "sigBody"},
         inWait[a] => label \in Unlocking \cup {"park", "parked"},
         label \in {"unlSpin", "unlBody"} <=> pc[a] \in {"unlSpin", "unlBody"},
         label \in {"sigSpin", "sigBody"} <=> pc[a] \in {"sigSpin", "sigBody"}
  PROVE  MonInv'
<1> USE DEF SyncTypeOK, MonInv
<1>1. \A t \in Thread : (Blocked(t))' <=> Blocked(t)
  BY DEF Blocked, OwesPark
<1>2. LabelsOK'
  BY DEF LabelsOK, Unlocking
<1>3. (\A t : Awaiting(t)' = Awaiting(t)) /\ ListedAreBlocked' /\ MutualExclusion' /\ NoStrandedWaiter'
  BY DEF Awaiting, ListedAreBlocked, MutualExclusion, NoStrandedWaiter
<1>4. OwnersOK'
  BY <1>1 DEF OwnersOK
<1>5. ListsOK'
  BY <1>1 DEF ListsOK, ListedBlock, BlockedListed, WaiterListed
<1> QED
  BY <1>2, <1>3, <1>4, <1>5

\* The running thread, and the monitor it is in, as constants.
LEMMA ActorNamed ==
  ASSUME SyncTypeOK, LabelsOK, NEW label, At(label)
  PROVE  \E a \in Thread : /\ a = active_thr /\ on[a] = MyMon /\ pc[a] = label
                           /\ label # "user" => MyMon \in Mon
                           /\ label = "user" => on[a] = NULL /\ ~inWait[a]
BY Actor DEF MyMon

LEMMA TestAndSetMon ==
  ASSUME SyncTypeOK, MonInv, LockTAS \/ UnlockTAS \/ SignalTAS
  PROVE  MonInv'
<1>1. PICK spin \in {"lockSpin", "unlSpin", "sigSpin"}, body \in {"lockBody", "unlBody", "sigBody"} :
        /\ TestAndSet(spin, body)
        /\ \/ spin = "lockSpin" /\ body = "lockBody"
           \/ spin = "unlSpin" /\ body = "unlBody"
           \/ spin = "sigSpin" /\ body = "sigBody"
  BY DEF LockTAS, UnlockTAS, SignalTAS
<1>2. PICK a \in Thread : a = active_thr /\ pc[a] = spin
  BY <1>1, ActorNamed DEF TestAndSet, MonInv
<1>3. pc' = [pc EXCEPT ![a] = body]
      /\ UNCHANGED <<thr, queue, cond, blocked_list, on, inWait, holds>>
  BY <1>1, <1>2 DEF TestAndSet, Goto
<1>4. (Blocked(a))' <=> Blocked(a)
  BY <1>1, <1>2, <1>3 DEF Blocked, OwesPark, SyncTypeOK
<1>5. /\ on[a] \in holds[a] => body \in {"sigSpin", "sigBody"}
      /\ inWait[a] => body \in Unlocking \cup {"park", "parked"}
  BY <1>1, <1>2 DEF MonInv, LabelsOK, Unlocking
<1> QED
  BY <1>1, <1>2, <1>3, <1>4, <1>5, ListsStay DEF Label

LEMMA CallLockMon ==
  ASSUME SyncTypeOK, MonInv, NEW m \in Mon, CallLock(m)
  PROVE  MonInv'
<1> USE DEF SyncTypeOK, MonInv
<1>1. PICK a \in Thread : a = active_thr /\ pc[a] = "user" /\ on[a] = NULL /\ ~inWait[a]
  BY ActorNamed DEF CallLock
<1>2. /\ pc' = [pc EXCEPT ![a] = "lockSpin"]
      /\ on' = [on EXCEPT ![a] = m]
      /\ m \notin holds[a] /\ m # NULL
      /\ UNCHANGED <<thr, queue, cond, blocked_list, inWait, holds>>
  BY <1>1, MonAssumption DEF CallLock, Begin, Goto, monVars
<1>3. ~Blocked(a) /\ ~(Blocked(a))'
      /\ \A t \in Thread : t # a => ((Blocked(t))' <=> Blocked(t))
  BY <1>1, <1>2 DEF Blocked, OwesPark
<1>4. LabelsOK'
  BY <1>1, <1>2 DEF LabelsOK, Unlocking
<1>5. (\A t : Awaiting(t)' = Awaiting(t)) /\ ListedAreBlocked' /\ MutualExclusion' /\ NoStrandedWaiter'
  BY <1>2 DEF Awaiting, ListedAreBlocked, MutualExclusion, NoStrandedWaiter
<1>6. OwnersOK'
  BY <1>1, <1>2, <1>3 DEF OwnersOK
<1>7. ListedBlock'
  BY <1>1, <1>2, <1>3 DEF ListsOK, ListedBlock
<1>8. BlockedListed' /\ WaiterListed'
  BY <1>1, <1>2, <1>3 DEF ListsOK, BlockedListed, WaiterListed
<1> QED
  BY <1>4, <1>5, <1>6, <1>7, <1>8 DEF ListsOK

LEMMA CallUnlockMon ==
  ASSUME SyncTypeOK, MonInv, NEW m \in Mon, CallUnlock(m)
  PROVE  MonInv'
<1> USE DEF SyncTypeOK, MonInv
<1>1. PICK a \in Thread : a = active_thr /\ pc[a] = "user" /\ on[a] = NULL /\ ~inWait[a]
  BY ActorNamed DEF CallUnlock
<1>2. /\ pc' = [pc EXCEPT ![a] = "unlSpin"]
      /\ on' = [on EXCEPT ![a] = m]
      /\ holds' = [holds EXCEPT ![a] = @ \ {m}]
      /\ thr[m] = a /\ m # NULL
      /\ UNCHANGED <<thr, queue, cond, blocked_list, inWait>>
  BY <1>1, MonAssumption DEF CallUnlock, Begin, Goto, monVars
<1>3. ~Blocked(a) /\ ~(Blocked(a))'
      /\ \A t \in Thread : t # a => ((Blocked(t))' <=> Blocked(t))
  BY <1>1, <1>2 DEF Blocked, OwesPark
<1>4. LabelsOK'
  BY <1>1, <1>2 DEF LabelsOK, Unlocking
<1>5. (\A t : Awaiting(t)' = Awaiting(t)) /\ ListedAreBlocked' /\ MutualExclusion' /\ NoStrandedWaiter'
  BY <1>2 DEF Awaiting, ListedAreBlocked, MutualExclusion, NoStrandedWaiter
<1>6. OwnersOK'
  BY <1>1, <1>2, <1>3 DEF OwnersOK
<1>7. ListedBlock'
  BY <1>1, <1>2, <1>3 DEF ListsOK, ListedBlock
<1>8. BlockedListed' /\ WaiterListed'
  BY <1>1, <1>2, <1>3 DEF ListsOK, BlockedListed, WaiterListed
<1> QED
  BY <1>4, <1>5, <1>6, <1>7, <1>8 DEF ListsOK

LEMMA CallSignalMon ==
  ASSUME SyncTypeOK, MonInv, NEW m \in Mon, CallSignal(m)
  PROVE  MonInv'
<1> USE DEF SyncTypeOK, MonInv
<1>1. PICK a \in Thread : a = active_thr /\ pc[a] = "user" /\ on[a] = NULL /\ ~inWait[a]
  BY ActorNamed DEF CallSignal
<1>2. /\ pc' = [pc EXCEPT ![a] = "sigSpin"]
      /\ on' = [on EXCEPT ![a] = m]
      /\ thr[m] = a /\ m # NULL
      /\ UNCHANGED <<thr, queue, cond, blocked_list, inWait, holds>>
  BY <1>1, MonAssumption DEF CallSignal, Begin, Goto, monVars
<1>3. ~Blocked(a) /\ ~(Blocked(a))'
      /\ \A t \in Thread : t # a => ((Blocked(t))' <=> Blocked(t))
  BY <1>1, <1>2 DEF Blocked, OwesPark
<1>4. LabelsOK'
  BY <1>1, <1>2 DEF LabelsOK, Unlocking
<1>5. (\A t : Awaiting(t)' = Awaiting(t)) /\ ListedAreBlocked' /\ MutualExclusion' /\ NoStrandedWaiter'
  BY <1>2 DEF Awaiting, ListedAreBlocked, MutualExclusion, NoStrandedWaiter
<1>6. OwnersOK'
  BY <1>1, <1>2, <1>3 DEF OwnersOK
<1>7. ListedBlock'
  BY <1>1, <1>2, <1>3 DEF ListsOK, ListedBlock
<1>8. BlockedListed' /\ WaiterListed'
  BY <1>1, <1>2, <1>3 DEF ListsOK, BlockedListed, WaiterListed
<1> QED
  BY <1>4, <1>5, <1>6, <1>7, <1>8 DEF ListsOK

LEMMA LockFreeMon ==
  ASSUME SyncTypeOK, MonInv, LockFree
  PROVE  MonInv'
<1> USE DEF SyncTypeOK, MonInv
<1>1. PICK a \in Thread : a = active_thr /\ on[a] = MyMon /\ pc[a] = "lockBody" /\ MyMon \in Mon
  BY ActorNamed DEF LockFree
<1>2. PICK m \in Mon : m = MyMon
  BY <1>1
<1>3. ~inWait[a] /\ on[a] = m /\ m \notin holds[a] /\ m # NULL /\ a # NULL
  BY <1>1, <1>2, MonAssumption, ThreadAssumption DEF LabelsOK, Unlocking
<1>4. /\ pc' = [pc EXCEPT ![a] = "user"]
      /\ on' = [on EXCEPT ![a] = NULL]
      /\ holds' = [holds EXCEPT ![a] = @ \cup {m}]
      /\ thr' = [thr EXCEPT ![m] = a]
      /\ thr[m] = NULL
      /\ UNCHANGED <<queue, cond, blocked_list, inWait>>
  BY <1>1, <1>2 DEF LockFree, Return, Begin, Goto, MutexFree
<1>5. ~Blocked(a) /\ ~(Blocked(a))'
      /\ \A t \in Thread : t # a => ((Blocked(t))' <=> Blocked(t))
  BY <1>1, <1>3, <1>4 DEF Blocked, OwesPark
<1>6. LabelsOK'
  BY <1>1, <1>3, <1>4, ThreadAssumption DEF LabelsOK, Unlocking
<1>7. (\A t : Awaiting(t)' = Awaiting(t)) /\ ListedAreBlocked'
  BY <1>4 DEF Awaiting, ListedAreBlocked
<1>8. MutualExclusion' /\ NoStrandedWaiter'
  BY <1>3, <1>4, ThreadAssumption DEF MutualExclusion, NoStrandedWaiter
<1>9. OwnersOK'
  BY <1>1, <1>3, <1>4, <1>5 DEF OwnersOK
<1>10. ListedBlock'
  BY <1>1, <1>4, <1>5 DEF ListsOK, ListedBlock
<1>11. WaiterListed'
  BY <1>3, <1>4 DEF ListsOK, WaiterListed
<1>12. BlockedListed'
  <2> SUFFICES ASSUME NEW t \in Thread, (Blocked(t))'
               PROVE  thr'[on'[t]] = t \/ t \in Range(queue'[on'[t]]) \cup Range(cond'[on'[t]])
    BY DEF BlockedListed
  <2>1. t # a /\ Blocked(t) /\ on'[t] = on[t]
    BY <1>4, <1>5
  <2>2. thr[on[t]] = t \/ t \in Range(queue[on[t]]) \cup Range(cond[on[t]])
    BY <2>1 DEF ListsOK, BlockedListed
  <2>3. thr[on[t]] = t => thr'[on[t]] = t
    BY <1>4, ThreadAssumption
  <2> QED
    BY <1>4, <2>1, <2>2, <2>3
<1> QED
  BY <1>6, <1>7, <1>8, <1>9, <1>10, <1>11, <1>12 DEF ListsOK

LEMMA LockBusyMon ==
  ASSUME SyncTypeOK, MonInv, LockBusy
  PROVE  MonInv'
<1> USE DEF SyncTypeOK, MonInv
<1>1. PICK a \in Thread : a = active_thr /\ on[a] = MyMon /\ pc[a] = "lockBody" /\ MyMon \in Mon
  BY ActorNamed DEF LockBusy
<1>2. PICK m \in Mon : m = MyMon
  BY <1>1
<1>3. ~inWait[a] /\ on[a] = m /\ m \notin holds[a] /\ m # NULL
  BY <1>1, <1>2, MonAssumption DEF LabelsOK, Unlocking
<1>4. /\ pc' = [pc EXCEPT ![a] = "park"]
      /\ queue' = [queue EXCEPT ![m] = Append(@, a)]
      /\ blocked_list' = Append(blocked_list, a)
      /\ thr[m] # NULL
      /\ UNCHANGED <<thr, cond, on, inWait, holds>>
  BY <1>1, <1>2 DEF LockBusy, Goto, MutexFree
<1>5. ~Blocked(a) /\ (Blocked(a))'
      /\ \A t \in Thread : t # a => ((Blocked(t))' <=> Blocked(t))
  BY <1>1, <1>3, <1>4 DEF Blocked, OwesPark
<1>6. ~Awaiting(a) /\ \A n \in Mon : a \notin Range(queue[n]) /\ a \notin Range(cond[n])
  BY <1>5, NotAwaiting
<1>7. /\ Range(queue'[m]) = Range(queue[m]) \cup {a} /\ NoDuplicates(queue'[m])
      /\ queue'[m] # << >>
      /\ \A n \in Mon : n # m => queue'[n] = queue[n]
  <2>1. NoDuplicates(queue[m]) /\ queue[m] \in Seq(Thread) /\ m \in Mon
    BY <1>1, <1>2 DEF ListsOK, ListedBlock
  <2>2. /\ Range(Append(queue[m], a)) = Range(queue[m]) \cup {a}
        /\ NoDuplicates(Append(queue[m], a)) /\ Append(queue[m], a) # << >>
    BY <1>6, <2>1, AppendRange
  <2>3. queue'[m] = Append(queue[m], a) /\ \A n \in Mon : n # m => queue'[n] = queue[n]
    BY <1>4, <2>1
  <2> QED
    BY <2>2, <2>3
<1>8. /\ Range(blocked_list') = Range(blocked_list) \cup {a}
      /\ NoDuplicates(blocked_list')
  BY <1>4, <1>6, AppendRange DEF ListedAreBlocked
<1>9. LabelsOK'
  BY <1>1, <1>3, <1>4 DEF LabelsOK, Unlocking
<1>10. \A t : Awaiting(t)' <=> Awaiting(t) \/ t = a
  BY <1>4, <1>7 DEF Awaiting
<1>11. ListedAreBlocked'
  BY <1>8, <1>10 DEF ListedAreBlocked
<1>12. MutualExclusion' /\ NoStrandedWaiter'
  BY <1>4, <1>7 DEF MutualExclusion, NoStrandedWaiter
<1>13. OwnersOK'
  BY <1>1, <1>4, <1>5 DEF OwnersOK
<1>14. ListedBlock'
  BY <1>3, <1>4, <1>5, <1>6, <1>7 DEF ListsOK, ListedBlock
<1>15. BlockedListed' /\ WaiterListed'
  BY <1>3, <1>4, <1>5, <1>7 DEF ListsOK, BlockedListed, WaiterListed
<1> QED
  BY <1>9, <1>11, <1>12, <1>13, <1>14, <1>15 DEF ListsOK

LEMMA ParkMon ==
  ASSUME SyncTypeOK, MonInv, Park
  PROVE  MonInv'
<1>1. PICK a \in Thread : a = active_thr /\ pc[a] = "park"
  BY ActorNamed DEF Park, MonInv
<1>2. pc' = [pc EXCEPT ![a] = "parked"]
      /\ UNCHANGED <<thr, queue, cond, blocked_list, on, inWait, holds>>
  BY <1>1 DEF Park, Goto, monVars
<1>3. (Blocked(a))' <=> Blocked(a)
  BY <1>1, <1>2 DEF Blocked, OwesPark, SyncTypeOK
<1>4. on[a] \notin holds[a]
  BY <1>1 DEF MonInv, LabelsOK, Unlocking
<1> QED
  BY <1>1, <1>2, <1>3, <1>4, ListsStay DEF Label

LEMMA UnlockYieldMon ==
  ASSUME SyncTypeOK, MonInv, UnlockYield
  PROVE  MonInv'
<1>1. PICK a \in Thread : a = active_thr /\ pc[a] = "unlYield"
  BY ActorNamed DEF UnlockYield, MonInv
<1>2. pc' = [pc EXCEPT ![a] = "unlPick"]
      /\ UNCHANGED <<thr, queue, cond, blocked_list, on, inWait, holds>>
  BY <1>1 DEF UnlockYield, Goto, monVars
<1>3. (Blocked(a))' <=> Blocked(a)
  BY <1>1, <1>2 DEF Blocked, OwesPark, SyncTypeOK
<1>4. on[a] \notin holds[a]
  BY <1>1 DEF MonInv, LabelsOK, Unlocking
<1> QED
  BY <1>1, <1>2, <1>3, <1>4, ListsStay DEF Label, Unlocking

LEMMA CallWaitMon ==
  ASSUME SyncTypeOK, MonInv, NEW m \in Mon, CallWait(m)
  PROVE  MonInv'
<1> USE DEF SyncTypeOK, MonInv
<1>1. PICK a \in Thread : a = active_thr /\ pc[a] = "user" /\ on[a] = NULL /\ ~inWait[a]
  BY ActorNamed DEF CallWait
<1>2. /\ pc' = [pc EXCEPT ![a] = "unlSpin"]
      /\ on' = [on EXCEPT ![a] = m]
      /\ inWait' = [inWait EXCEPT ![a] = TRUE]
      /\ holds' = [holds EXCEPT ![a] = @ \ {m}]
      /\ cond' = [cond EXCEPT ![m] = Append(@, a)]
      /\ blocked_list' = Append(blocked_list, a)
      /\ thr[m] = a /\ m # NULL
      /\ UNCHANGED <<thr, queue>>
  BY <1>1, MonAssumption DEF CallWait, Begin, Goto
<1>3. ~Blocked(a) /\ (Blocked(a))'
      /\ \A t \in Thread : t # a => ((Blocked(t))' <=> Blocked(t))
  BY <1>1, <1>2 DEF Blocked, OwesPark
<1>4. ~Awaiting(a) /\ \A n \in Mon : a \notin Range(queue[n]) /\ a \notin Range(cond[n])
  BY <1>3, NotAwaiting
<1>5. /\ Range(cond'[m]) = Range(cond[m]) \cup {a} /\ NoDuplicates(cond'[m])
      /\ \A n \in Mon : n # m => cond'[n] = cond[n]
  <2>1. NoDuplicates(cond[m]) /\ cond[m] \in Seq(Thread)
    BY DEF ListsOK, ListedBlock
  <2>2. Range(Append(cond[m], a)) = Range(cond[m]) \cup {a} /\ NoDuplicates(Append(cond[m], a))
    BY <1>4, <2>1, AppendRange
  <2>3. cond'[m] = Append(cond[m], a) /\ \A n \in Mon : n # m => cond'[n] = cond[n]
    BY <1>2, <2>1
  <2> QED
    BY <2>2, <2>3
<1>6. /\ Range(blocked_list') = Range(blocked_list) \cup {a}
      /\ NoDuplicates(blocked_list')
  BY <1>2, <1>4, AppendRange DEF ListedAreBlocked
<1>7. LabelsOK'
  BY <1>1, <1>2 DEF LabelsOK, Unlocking
<1>8. \A t : Awaiting(t)' <=> Awaiting(t) \/ t = a
  BY <1>2, <1>5 DEF Awaiting
<1>9. ListedAreBlocked'
  BY <1>6, <1>8 DEF ListedAreBlocked
<1>10. MutualExclusion' /\ NoStrandedWaiter'
  BY <1>2 DEF MutualExclusion, NoStrandedWaiter
<1>11. OwnersOK'
  BY <1>1, <1>2, <1>3 DEF OwnersOK
<1>12. ListedBlock'
  BY <1>1, <1>2, <1>3, <1>4, <1>5 DEF ListsOK, ListedBlock
<1>13. \A t \in Thread : on'[t] # m => cond'[on'[t]] = cond[on'[t]]
  BY <1>2
<1>14. a \in Range(cond'[m]) /\ Range(cond[m]) \subseteq Range(cond'[m])
  BY <1>5
<1>15. BlockedListed'
  <2> SUFFICES ASSUME NEW t \in Thread, (Blocked(t))', t # a
               PROVE  thr'[on'[t]] = t \/ t \in Range(queue'[on'[t]]) \cup Range(cond'[on'[t]])
    BY <1>2, <1>14 DEF BlockedListed
  <2>1. Blocked(t) /\ on'[t] = on[t]
    BY <1>2, <1>3
  <2>2. thr[on[t]] = t \/ t \in Range(queue[on[t]]) \cup Range(cond[on[t]])
    BY <2>1 DEF ListsOK, BlockedListed
  <2> QED
    BY <1>2, <1>13, <1>14, <2>1, <2>2
<1>16. WaiterListed'
  <2> SUFFICES ASSUME NEW t \in Thread, inWait'[t], pc'[t] \in {"unlSpin", "unlBody"}, t # a
               PROVE  t \in Range(cond'[on'[t]])
    BY <1>2, <1>14 DEF WaiterListed
  <2>1. t \in Range(cond[on[t]]) /\ on'[t] = on[t]
    BY <1>2 DEF ListsOK, WaiterListed
  <2> QED
    BY <1>13, <1>14, <2>1
<1> QED
  BY <1>7, <1>9, <1>10, <1>11, <1>12, <1>15, <1>16 DEF ListsOK

\* A thread that runs again after it was blocked was handed the mutex.
LEMMA UnparkMon ==
  ASSUME SyncTypeOK, MonInv, Unpark, ~Awaiting(active_thr)
  PROVE  MonInv'
<1> USE DEF SyncTypeOK, MonInv
<1>1. PICK a \in Thread : a = active_thr /\ on[a] = MyMon /\ pc[a] = "parked" /\ MyMon \in Mon
  BY ActorNamed DEF Unpark
<1>2. PICK m \in Mon : m = MyMon
  BY <1>1
<1>3. on[a] = m /\ m # NULL /\ ~Awaiting(a)
  BY <1>1, <1>2, MonAssumption
<1>4. /\ pc' = [pc EXCEPT ![a] = "user"]
      /\ on' = [on EXCEPT ![a] = NULL]
      /\ holds' = [holds EXCEPT ![a] = @ \cup {m}]
      /\ inWait' = [inWait EXCEPT ![a] = FALSE]
      /\ UNCHANGED <<thr, queue, cond, blocked_list>>
  BY <1>1, <1>2 DEF Unpark, Return, Begin, Goto, monVars
<1>5. /\ Blocked(a) /\ ~(Blocked(a))'
      /\ \A t \in Thread : t # a => ((Blocked(t))' <=> Blocked(t))
  BY <1>1, <1>4 DEF Blocked, OwesPark
<1>6. thr[m] = a
  BY <1>3, <1>5 DEF ListsOK, BlockedListed, Awaiting
<1>7. LabelsOK'
  BY <1>1, <1>4 DEF LabelsOK, Unlocking
<1>8. (\A t : Awaiting(t)' = Awaiting(t)) /\ ListedAreBlocked' /\ NoStrandedWaiter'
  BY <1>4 DEF Awaiting, ListedAreBlocked, NoStrandedWaiter
<1>9. MutualExclusion'
  BY <1>4, <1>6 DEF MutualExclusion
<1>10. OwnersOK'
  BY <1>1, <1>3, <1>4, <1>5 DEF OwnersOK
<1>11. ListedBlock'
  BY <1>3, <1>4, <1>5 DEF ListsOK, ListedBlock, Awaiting
<1>12. BlockedListed' /\ WaiterListed'
  BY <1>4, <1>5 DEF ListsOK, BlockedListed, WaiterListed
<1> QED
  BY <1>7, <1>8, <1>9, <1>10, <1>11, <1>12 DEF ListsOK

LEMMA UnlockFreeMon ==
  ASSUME SyncTypeOK, MonInv, UnlockFree
  PROVE  MonInv'
<1> USE DEF SyncTypeOK, MonInv
<1>1. PICK a \in Thread : a = active_thr /\ on[a] = MyMon /\ pc[a] = "unlBody" /\ MyMon \in Mon
  BY ActorNamed DEF UnlockFree
<1>2. PICK m \in Mon : m = MyMon
  BY <1>1
<1>3. on[a] = m /\ m # NULL /\ a # NULL /\ thr[m] = a /\ m \notin holds[a]
      /\ (inWait[a] => a \in Range(cond[m]))
  BY <1>1, <1>2, MonAssumption, ThreadAssumption DEF LabelsOK, ListsOK, WaiterListed
<1>4. /\ pc' = [pc EXCEPT ![a] = IF inWait[a] THEN "park" ELSE "user"]
      /\ on' = [on EXCEPT ![a] = IF inWait[a] THEN @ ELSE NULL]
      /\ thr' = [thr EXCEPT ![m] = NULL]
      /\ queue[m] = << >>
      /\ UNCHANGED <<queue, cond, blocked_list, inWait, holds>>
  BY <1>1, <1>2 DEF UnlockFree, UnlockReturns, NobodyQueued
<1>5. \A t \in Thread : (Blocked(t))' <=> Blocked(t)
  BY <1>1, <1>4 DEF Blocked, OwesPark
<1>6. Blocked(a) <=> inWait[a]
  BY <1>1 DEF Blocked, OwesPark
<1>7. LabelsOK'
  BY <1>1, <1>3, <1>4 DEF LabelsOK, Unlocking
<1>8. (\A t : Awaiting(t)' = Awaiting(t)) /\ ListedAreBlocked'
  BY <1>4 DEF Awaiting, ListedAreBlocked
<1>9. MutualExclusion' /\ NoStrandedWaiter'
  BY <1>3, <1>4 DEF MutualExclusion, NoStrandedWaiter
<1>10. OwnersOK'
  BY <1>1, <1>3, <1>4, <1>5, ThreadAssumption DEF OwnersOK
<1>11. ListedBlock'
  BY <1>3, <1>4, <1>5, <1>6 DEF ListsOK, ListedBlock
<1>12. BlockedListed'
  <2> SUFFICES ASSUME NEW t \in Thread, (Blocked(t))'
               PROVE  thr'[on'[t]] = t \/ t \in Range(queue'[on'[t]]) \cup Range(cond'[on'[t]])
    BY DEF BlockedListed
  <2>1. Blocked(t) /\ on'[t] = on[t]
    BY <1>4, <1>5, <1>6
  <2>2. thr[on[t]] = t \/ t \in Range(queue[on[t]]) \cup Range(cond[on[t]])
    BY <2>1 DEF ListsOK, BlockedListed
  <2>3. on[t] # m => thr'[on[t]] = thr[on[t]]
    BY <1>4
  <2>4. on[t] = m /\ thr[m] = t => t \in Range(cond[m])
    BY <1>3, <1>6, <2>1
  <2> QED
    BY <1>4, <2>1, <2>2, <2>3, <2>4
<1>13. WaiterListed'
  BY <1>1, <1>4 DEF ListsOK, WaiterListed
<1> QED
  BY <1>7, <1>8, <1>9, <1>10, <1>11, <1>12, <1>13 DEF ListsOK

LEMMA UnlockHandOffMon ==
  ASSUME SyncTypeOK, MonInv, UnlockHandOff
  PROVE  MonInv'
<1> USE DEF SyncTypeOK, MonInv
<1>1. PICK a \in Thread : a = active_thr /\ on[a] = MyMon /\ pc[a] = "unlBody" /\ MyMon \in Mon
  BY ActorNamed DEF UnlockHandOff
<1>2. PICK m \in Mon : m = MyMon
  BY <1>1
<1>3. on[a] = m /\ m # NULL /\ thr[m] = a /\ m \notin holds[a]
      /\ (inWait[a] => a \in Range(cond[m]))
  BY <1>1, <1>2, MonAssumption DEF LabelsOK, ListsOK, WaiterListed
<1>4. PICK t \in Thread :
        /\ t = Head(queue[m])
        /\ t \in Range(queue[m]) /\ Tail(queue[m]) \in Seq(Thread)
        /\ Range(queue[m]) = {t} \cup Range(Tail(queue[m]))
        /\ t \notin Range(Tail(queue[m])) /\ NoDuplicates(Tail(queue[m]))
  <2>1. queue[m] # << >> /\ queue[m] \in Seq(Thread)
    BY <1>2 DEF UnlockHandOff, NobodyQueued
  <2>2. NoDuplicates(queue[m])
    BY DEF ListsOK, ListedBlock
  <2> QED
    BY <2>1, <2>2, TailRange
<1>5. /\ thr' = [thr EXCEPT ![m] = t]
      /\ queue' = [queue EXCEPT ![m] = Tail(@)]
      /\ blocked_list' = KeepOnly(blocked_list, Thread \ {t})
      /\ UNCHANGED <<cond, inWait, holds>>
  BY <1>2, <1>4 DEF UnlockHandOff, Unlist
<1>6. PICK label \in {"unlYield", "park", "user"}, o \in {m, NULL} :
        /\ pc' = [pc EXCEPT ![a] = label] /\ on' = [on EXCEPT ![a] = o]
        /\ label = "user" <=> o = NULL
        /\ label = "user" => ~inWait[a]
        /\ label = "park" => inWait[a]
  <2>1. \/ Goto("unlYield") /\ UNCHANGED on
        \/ UnlockReturns(a)
    BY <1>1 DEF UnlockHandOff
  <2> QED
    BY <1>1, <1>3, <2>1 DEF UnlockReturns, Goto
<1>7. \A u \in Thread : (Blocked(u))' <=> Blocked(u)
  BY <1>1, <1>5, <1>6 DEF Blocked, OwesPark
<1>8. Blocked(a) <=> inWait[a]
  BY <1>1 DEF Blocked, OwesPark
<1>9. /\ t # a /\ on[t] = m /\ Blocked(t) /\ t # NULL
      /\ \A n \in Mon : t \notin Range(cond[n]) /\ (n # m => t \notin Range(queue[n]))
  <2>1. on[t] = m /\ Blocked(t) /\ t # NULL
    BY <1>4, ThreadAssumption DEF ListsOK, ListedBlock
  <2>2. Range(queue[m]) \cap Range(cond[m]) = {}
    BY DEF ListsOK, ListedBlock
  <2>3. t # a
    BY <1>3, <1>4, <1>8, <2>1, <2>2
  <2>4. ASSUME NEW n \in Mon, t \in Range(cond[n]) \cup Range(queue[n])
        PROVE  n = m
    BY <2>1, <2>4 DEF ListsOK, ListedBlock
  <2> QED
    BY <1>4, <2>1, <2>2, <2>3, <2>4
<1>10. /\ Range(queue'[m]) = Range(queue[m]) \ {t} /\ NoDuplicates(queue'[m])
       /\ \A n \in Mon : n # m => queue'[n] = queue[n]
  BY <1>4, <1>5
<1>11. \A u : Awaiting(u)' <=> Awaiting(u) /\ u # t
  <2>1. ASSUME NEW n \in Mon
        PROVE  Range(queue'[n]) \cup Range(cond'[n])
                 = (Range(queue[n]) \cup Range(cond[n])) \ {t}
    <3>1. CASE n = m
      BY <1>5, <1>9, <1>10, <3>1
    <3>2. CASE n # m
      BY <1>5, <1>9, <1>10, <3>2
    <3> QED
      BY <3>1, <3>2
  <2> QED
    BY <2>1 DEF Awaiting
<1>12. Range(blocked_list') = Range(blocked_list) \ {t} /\ NoDuplicates(blocked_list')
  <2>1. /\ Range(blocked_list') = Range(blocked_list) \cap (Thread \ {t})
        /\ NoDuplicates(blocked_list')
    BY <1>5, KeepOnlyRange DEF ListedAreBlocked
  <2>2. Range(blocked_list) \subseteq Thread
    BY DEF Range
  <2> QED
    BY <2>1, <2>2
<1>13. LabelsOK'
  BY <1>1, <1>3, <1>5, <1>6 DEF LabelsOK, Unlocking
<1>14. ListedAreBlocked'
  BY <1>11, <1>12 DEF ListedAreBlocked
<1>15. MutualExclusion' /\ NoStrandedWaiter'
  BY <1>3, <1>5, <1>9, <1>10 DEF MutualExclusion, NoStrandedWaiter
<1>16. OwnersOK'
  <2> SUFFICES ASSUME NEW n \in Mon, NEW u \in Thread, thr'[n] = u
               PROVE  \/ n \in holds[u]
                      \/ on'[u] = n /\ (pc'[u] \in {"unlSpin", "unlBody"} \/ (Blocked(u))')
    BY <1>5 DEF OwnersOK
  <2>1. CASE n = m
    BY <1>5, <1>6, <1>7, <1>9, <2>1
  <2>2. CASE n # m
    BY <1>3, <1>5, <1>6, <1>7, <2>2 DEF OwnersOK
  <2> QED
    BY <2>1, <2>2
<1>17. ListedBlock'
  <2> SUFFICES ASSUME NEW n \in Mon
               PROVE  /\ NoDuplicates(queue'[n]) /\ NoDuplicates(cond'[n])
                      /\ Range(queue'[n]) \cap Range(cond'[n]) = {}
                      /\ \A u \in Range(queue'[n]) \cup Range(cond'[n]) :
                            u \in Thread /\ on'[u] = n /\ (Blocked(u))'
    BY DEF ListedBlock
  <2>1. Range(queue'[n]) \subseteq Range(queue[n]) /\ NoDuplicates(queue'[n])
        /\ cond'[n] = cond[n]
    BY <1>5, <1>10 DEF ListsOK, ListedBlock
  <2>2. \A u \in Range(queue[n]) \cup Range(cond[n]) : u \in Thread /\ on[u] = n /\ Blocked(u)
    BY DEF ListsOK, ListedBlock
  <2>3. \A u \in Thread : Blocked(u) => on'[u] = on[u]
    BY <1>3, <1>6, <1>8
  <2> QED
    BY <1>7, <2>1, <2>2, <2>3 DEF ListsOK, ListedBlock
<1>18. BlockedListed'
  <2> SUFFICES ASSUME NEW u \in Thread, (Blocked(u))', u # t
               PROVE  thr'[on'[u]] = u \/ u \in Range(queue'[on'[u]]) \cup Range(cond'[on'[u]])
    BY <1>5, <1>6, <1>9 DEF BlockedListed
  <2>1. Blocked(u) /\ on'[u] = on[u]
    BY <1>3, <1>6, <1>7, <1>8
  <2>2. thr[on[u]] = u \/ u \in Range(queue[on[u]]) \cup Range(cond[on[u]])
    BY <2>1 DEF ListsOK, BlockedListed
  <2>3. CASE on[u] = m
    <3>1. u \in Range(queue[m]) \cup Range(cond[m])
      BY <1>3, <1>8, <2>1, <2>2, <2>3
    <3> QED
      BY <1>5, <1>10, <2>1, <2>3, <3>1
  <2>4. CASE on[u] # m
    <3>1. queue'[on[u]] = queue[on[u]] /\ thr'[on[u]] = thr[on[u]]
      BY <1>5, <2>4
    <3> QED
      BY <1>5, <2>1, <2>2, <3>1
  <2> QED
    BY <2>3, <2>4
<1>19. WaiterListed'
  BY <1>5, <1>6 DEF ListsOK, WaiterListed
<1> QED
  BY <1>13, <1>14, <1>15, <1>16, <1>17, <1>18, <1>19 DEF ListsOK

\* sthread_mutex_unlock comes back after a preemption.
LEMMA UnlockReturnsMon ==
  ASSUME SyncTypeOK, MonInv, NEW a \in Thread, pc[a] \in {"unlPick", "unlSwitch"},
         UnlockReturns(a),
         UNCHANGED <<thr, queue, cond, blocked_list, inWait, holds>>
  PROVE  MonInv'
<1> USE DEF SyncTypeOK, MonInv
<1>1. on[a] \notin holds[a] /\ on[a] # NULL
  BY DEF LabelsOK
<1>2. /\ pc' = [pc EXCEPT ![a] = IF inWait[a] THEN "park" ELSE "user"]
      /\ on' = [on EXCEPT ![a] = IF inWait[a] THEN @ ELSE NULL]
  BY DEF UnlockReturns
<1>3. \A t \in Thread : (Blocked(t))' <=> Blocked(t)
  BY <1>2 DEF Blocked, OwesPark
<1>4. Blocked(a) <=> inWait[a]
  BY DEF Blocked, OwesPark
<1>5. \A t \in Thread : Blocked(t) => on'[t] = on[t]
  BY <1>2, <1>4
<1>6. LabelsOK'
  BY <1>1, <1>2 DEF LabelsOK, Unlocking
<1>7. (\A t : Awaiting(t)' = Awaiting(t)) /\ ListedAreBlocked' /\ MutualExclusion' /\ NoStrandedWaiter'
  BY DEF Awaiting, ListedAreBlocked, MutualExclusion, NoStrandedWaiter
<1>8. OwnersOK'
  BY <1>2, <1>3, <1>4 DEF OwnersOK
<1>9. ListedBlock'
  BY <1>3, <1>5 DEF ListsOK, ListedBlock
<1>10. BlockedListed'
  BY <1>3, <1>5 DEF ListsOK, BlockedListed
<1>11. WaiterListed'
  BY <1>2 DEF ListsOK, WaiterListed
<1> QED
  BY <1>6, <1>7, <1>8, <1>9, <1>10, <1>11 DEF ListsOK

\* A step that leaves the monitors, and where the threads are in them, alone.
LEMMA MonUntouched ==
  ASSUME MonInv, UNCHANGED syncVars
  PROVE  MonInv'
<1>1. (\A t : Awaiting(t)' = Awaiting(t)) /\ (\A t : (Blocked(t))' <=> Blocked(t))
  BY DEF Awaiting, Blocked, OwesPark, syncVars
<1>2. LabelsOK' /\ OwnersOK' /\ MutualExclusion'
  BY <1>1 DEF MonInv, LabelsOK, OwnersOK, MutualExclusion, syncVars
<1>3. NoStrandedWaiter' /\ ListedAreBlocked'
  BY <1>1 DEF MonInv, NoStrandedWaiter, ListedAreBlocked, syncVars
<1>4. ListsOK'
  BY <1>1 DEF MonInv, ListsOK, ListedBlock, BlockedListed, WaiterListed, syncVars
<1> QED
  BY <1>2, <1>3, <1>4 DEF MonInv

LEMMA UnlockPickMon ==
  ASSUME SyncTypeOK, MonInv, UnlockPick
  PROVE  MonInv'
<1>1. PICK a \in Thread : a = active_thr /\ pc[a] = "unlPick"
  BY ActorNamed DEF UnlockPick, MonInv
<1>2. UNCHANGED <<l, thr, queue, cond, blocked_list, inWait, holds>>
  BY DEF UnlockPick, monVars
<1>3. CASE UNCHANGED <<pc, on>>
  BY <1>2, <1>3, MonUntouched DEF syncVars
<1>4. CASE UnlockReturns(a)
  BY <1>1, <1>2, <1>4, UnlockReturnsMon
<1>5. CASE pc' = [pc EXCEPT ![a] = "unlSwitch"] /\ UNCHANGED on
  <2>1. (Blocked(a))' <=> Blocked(a)
    BY <1>1, <1>2, <1>5 DEF Blocked, OwesPark, SyncTypeOK
  <2>2. on[a] \notin holds[a]
    BY <1>1 DEF MonInv, LabelsOK, Unlocking
  <2> QED
    BY <1>1, <1>2, <1>5, <2>1, <2>2, ListsStay DEF Label, Unlocking
<1> QED
  BY <1>1, <1>3, <1>4, <1>5 DEF UnlockPick, Goto

LEMMA UnlockSwitchMon ==
  ASSUME SyncTypeOK, MonInv, NEW t \in Thread, UnlockSwitch(t)
  PROVE  MonInv'
BY UnlockReturnsMon DEF UnlockSwitch, monVars

LEMMA SignalBodyMon ==
  ASSUME SyncTypeOK, MonInv, SignalBody
  PROVE  MonInv'
<1> USE DEF SyncTypeOK, MonInv
<1>1. PICK a \in Thread : a = active_thr /\ on[a] = MyMon /\ pc[a] = "sigBody" /\ MyMon \in Mon
  BY ActorNamed DEF SignalBody
<1>2. PICK m \in Mon : m = MyMon
  BY <1>1
<1>3. on[a] = m /\ m # NULL /\ thr[m] = a /\ ~inWait[a] /\ a # NULL
  BY <1>1, <1>2, MonAssumption, ThreadAssumption DEF LabelsOK, Unlocking
<1>4. /\ pc' = [pc EXCEPT ![a] = "user"]
      /\ on' = [on EXCEPT ![a] = NULL]
      /\ UNCHANGED <<thr, inWait, holds>>
  BY <1>1 DEF SignalBody, Return, Begin, Goto
<1>5. ~Blocked(a) /\ ~(Blocked(a))'
      /\ \A u \in Thread : (Blocked(u))' <=> Blocked(u)
  BY <1>1, <1>3, <1>4 DEF Blocked, OwesPark
<1>6. \A n \in Mon : a \notin Range(queue[n]) \cup Range(cond[n])
  BY <1>5, NotAwaiting
<1>7. LabelsOK'
  BY <1>1, <1>3, <1>4 DEF LabelsOK, Unlocking
<1>8. MutualExclusion'
  BY <1>4 DEF MutualExclusion
<1>9. OwnersOK'
  BY <1>1, <1>3, <1>4, <1>5 DEF OwnersOK
<1>10. CASE cond[m] = << >>
  <2>1. UNCHANGED <<queue, cond, blocked_list>>
    BY <1>2, <1>10 DEF SignalBody
  <2>2. (\A u : Awaiting(u)' = Awaiting(u)) /\ ListedAreBlocked' /\ NoStrandedWaiter'
    BY <1>4, <2>1 DEF Awaiting, ListedAreBlocked, NoStrandedWaiter
  <2>3. ListedBlock'
    BY <1>4, <1>5, <1>6, <2>1 DEF ListsOK, ListedBlock
  <2>4. BlockedListed' /\ WaiterListed'
    BY <1>4, <1>5, <2>1 DEF ListsOK, BlockedListed, WaiterListed
  <2> QED
    BY <1>7, <1>8, <1>9, <2>2, <2>3, <2>4 DEF ListsOK
<1>11. CASE cond[m] # << >>
  <2>1. PICK t \in Thread :
          /\ t = Head(cond[m])
          /\ t \in Range(cond[m]) /\ Tail(cond[m]) \in Seq(Thread)
          /\ Range(cond[m]) = {t} \cup Range(Tail(cond[m]))
          /\ t \notin Range(Tail(cond[m])) /\ NoDuplicates(Tail(cond[m]))
    <3>1. NoDuplicates(cond[m]) /\ cond[m] \in Seq(Thread)
      BY DEF ListsOK, ListedBlock
    <3> QED
      BY <1>11, <3>1, TailRange
  <2>2. /\ cond' = [cond EXCEPT ![m] = Tail(@)]
        /\ queue' = [queue EXCEPT ![m] = Append(@, t)]
        /\ blocked_list' = KeepOnly(blocked_list, Thread \ {t})
    BY <1>2, <1>11, <2>1 DEF SignalBody, Unlist, Requeue
  <2>3. /\ t # a /\ on[t] = m /\ Blocked(t) /\ t \notin Range(queue[m])
        /\ NoDuplicates(queue[m]) /\ queue[m] \in Seq(Thread)
    BY <1>6, <2>1 DEF ListsOK, ListedBlock
  <2>4. /\ Range(Append(queue[m], t)) = Range(queue[m]) \cup {t}
        /\ NoDuplicates(Append(queue[m], t))
    BY <2>3, AppendRange
  <2>5. /\ Range(queue'[m]) = Range(queue[m]) \cup {t} /\ NoDuplicates(queue'[m])
        /\ Range(cond'[m]) = Range(cond[m]) \ {t} /\ NoDuplicates(cond'[m])
        /\ \A n \in Mon : n # m => queue'[n] = queue[n] /\ cond'[n] = cond[n]
    BY <2>1, <2>2, <2>4
  <2>6. \A u : Awaiting(u)' <=> Awaiting(u)
    BY <2>1, <2>5 DEF Awaiting
  <2>7. Range(blocked_list') \subseteq Range(blocked_list) /\ NoDuplicates(blocked_list')
    BY <2>2, KeepOnlyRange DEF ListedAreBlocked
  <2>8. ListedAreBlocked'
    BY <2>6, <2>7 DEF ListedAreBlocked
  <2>9. NoStrandedWaiter'
    BY <1>3, <1>4, <2>5 DEF NoStrandedWaiter
  <2>10. ListedBlock'
    <3> SUFFICES ASSUME NEW n \in Mon
                 PROVE  /\ NoDuplicates(queue'[n]) /\ NoDuplicates(cond'[n])
                        /\ Range(queue'[n]) \cap Range(cond'[n]) = {}
                        /\ \A u \in Range(queue'[n]) \cup Range(cond'[n]) :
                              u \in Thread /\ on'[u] = n /\ (Blocked(u))'
      BY DEF ListedBlock
    <3>1. Range(queue'[n]) \cup Range(cond'[n]) = Range(queue[n]) \cup Range(cond[n])
      BY <2>1, <2>5
    <3>2. \A u \in Thread : u # a => on'[u] = on[u]
      BY <1>4
    <3>3. NoDuplicates(queue'[n]) /\ NoDuplicates(cond'[n])
          /\ Range(queue'[n]) \cap Range(cond'[n]) = {}
      <4>1. NoDuplicates(queue[n]) /\ NoDuplicates(cond[n])
            /\ Range(queue[n]) \cap Range(cond[n]) = {}
        BY DEF ListsOK, ListedBlock
      <4>2. CASE n = m
        BY <2>5, <4>1, <4>2
      <4>3. CASE n # m
        BY <2>5, <4>1, <4>3
      <4> QED
        BY <4>2, <4>3
    <3>4. ASSUME NEW u \in Range(queue[n]) \cup Range(cond[n])
          PROVE  u \in Thread /\ on'[u] = n /\ (Blocked(u))'
      <4>1. u \in Thread /\ on[u] = n /\ Blocked(u)
        BY DEF ListsOK, ListedBlock
      <4> QED
        BY <1>5, <1>6, <3>2, <4>1
    <3> QED
      BY <3>1, <3>3, <3>4
  <2>11. BlockedListed'
    <3> SUFFICES ASSUME NEW u \in Thread, (Blocked(u))'
                 PROVE  thr'[on'[u]] = u \/ u \in Range(queue'[on'[u]]) \cup Range(cond'[on'[u]])
      BY DEF BlockedListed
    <3>1. Blocked(u) /\ on'[u] = on[u]
      BY <1>4, <1>5
    <3>2. thr[on[u]] = u \/ u \in Range(queue[on[u]]) \cup Range(cond[on[u]])
      BY <3>1 DEF ListsOK, BlockedListed
    <3>3. \A n : n \notin Mon => n # m
      OBVIOUS
    <3>4. \A n : n # m => queue'[n] = queue[n] /\ cond'[n] = cond[n]
      BY <2>2
    <3> QED
      BY <1>4, <2>5, <3>1, <3>2, <3>4
  <2>12. WaiterListed'
    <3> SUFFICES ASSUME NEW u \in Thread, inWait'[u], pc'[u] \in {"unlSpin", "unlBody"}
                 PROVE  u \in Range(cond'[on'[u]])
      BY DEF WaiterListed
    <3>1. u # a /\ inWait[u] /\ pc[u] \in {"unlSpin", "unlBody"} /\ on'[u] = on[u]
      BY <1>4
    <3>2. thr[on[u]] = u /\ u \in Range(cond[on[u]])
      BY <3>1 DEF LabelsOK, ListsOK, WaiterListed
    <3>3. on[u] # m
      BY <1>3, <3>1, <3>2
    <3> QED
      BY <2>2, <3>1, <3>2, <3>3
  <2> QED
    BY <1>7, <1>8, <1>9, <2>8, <2>9, <2>10, <2>11, <2>12 DEF ListsOK
<1> QED
  BY <1>10, <1>11

-----------------------------------------------------------------------------
(* Turns: how often a thread is queued to run, or runs, and what it needs. *)

Turns(t) == Occurrences(active_rq, t) + Occurrences(expired_rq, t)
            + One(active_thr = t)

\* The turns that t needs, and those the lists of a monitor will give it.
Needs(t) == 1 + One(OwesPark(t)) + One(OwesPick(t))
Balanced(t) == Tokens(t) + One(Awaiting(t)) = Needs(t)

\* The counts are natural numbers.
LEMMA TurnsType ==
  ASSUME TypeOK, NEW t
  PROVE  /\ Occurrences(active_rq, t) \in Nat /\ Occurrences(expired_rq, t) \in Nat
         /\ Turns(t) \in Nat /\ Tokens(t) \in Nat
         /\ Tokens(t) = Turns(t) + One(t \in Suspended)
         /\ active_thr = t => Turns(t) > 0
<1>1. Occurrences(active_rq, t) \in Nat /\ Occurrences(expired_rq, t) \in Nat
  BY OccurrencesType DEF TypeOK
<1>2. One(active_thr = t) \in {0, 1} /\ One(t \in Suspended) \in {0, 1}
      /\ (active_thr = t => One(active_thr = t) = 1)
  BY DEF One
<1>3. Tokens(t) = Turns(t) + One(t \in Suspended)
  BY DEF Tokens, Turns, Suspended
<1> QED
  BY <1>1, <1>2, <1>3 DEF Turns

\* The threads that are queued together get a turn each.
LEMMA QueuedTurns ==
  ASSUME NEW rq \in [Prio -> Seq(Thread)], NEW s \in Seq(Thread), NoDuplicates(s),
         NEW prio \in [Thread -> Prio]
  PROVE  \A t : Occurrences(rq_inserir_todas(rq, s, prio), t)
                  = Occurrences(rq, t) + One(t \in Range(s))
BY InserirTodasOccurrences

\* A switch gives the CPU to a thread in place of one of its turns.
LEMMA RunNextTurns ==
  ASSUME NEW a \in Runqueues, NEW e \in Runqueues, NEW level, Running, Running',
         RunNext(a, e, level), NEW t
  PROVE  Turns(t)' = Occurrences(a, t) + Occurrences(e, t)
<1> DEFINE act == IF EpochOver(a) THEN e ELSE a
           exp == IF EpochOver(a) THEN a ELSE e
<1>1. /\ ~rq_vazia(act) /\ expired_rq' = exp /\ active_rq' = rq_resto(act)
      /\ active_thr' = rq_primeira(act)
  BY DEF RunNext, Running
<1>2. Occurrences(act, t) = Occurrences(rq_resto(act), t) + One(rq_primeira(act) = t)
  <2>1. act \in [Prio -> Seq(Thread)] /\ ~rq_vazia(act)
    BY <1>1 DEF Runqueues
  <2> HIDE DEF act
  <2>2. Occurrences(act, t) = Occurrences(rq_resto(act), t)
                             + (IF rq_primeira(act) = t THEN 1 ELSE 0)
    BY <2>1, RetirarOccurrences
  <2> QED
    BY <2>2 DEF One
<1>3. rq_resto(act) \in Runqueues
  BY <1>1, RetirarRange DEF Runqueues
<1>4. /\ Occurrences(a, t) \in Nat /\ Occurrences(e, t) \in Nat
      /\ Occurrences(rq_resto(act), t) \in Nat
  BY <1>3, OccurrencesType DEF Runqueues
<1>5. Occurrences(act, t) + Occurrences(exp, t) = Occurrences(a, t) + Occurrences(e, t)
  BY <1>4
<1>6. One(rq_primeira(act) = t) \in {0, 1}
  BY DEF One
<1>7. Turns(t)' = Occurrences(rq_resto(act), t) + Occurrences(exp, t) + One(rq_primeira(act) = t)
  BY <1>1 DEF Turns
<1>8. Occurrences(exp, t) \in Nat
  BY <1>4
<1> HIDE DEF act, exp
<1> QED
  BY <1>2, <1>4, <1>5, <1>6, <1>7, <1>8

\* The thread that runs is live, and one that is in the middle of an operation too.
LEMMA InOperationIsLive ==
  ASSUME SyncTypeOK, Running, TurnsInv, NEW t \in Thread, pc[t] # "user" \/ active_thr = t
  PROVE  t \in Live /\ Balanced(t)
<1>1. t \in Live
  <2>1. CASE pc[t] # "user"
    BY <2>1 DEF TurnsInv
  <2>2. CASE active_thr = t
    <3>1. Tokens(t) > 0
      <4>1. Turns(t) \in Nat /\ Turns(t) > 0 /\ Tokens(t) = Turns(t) + One(t \in Suspended)
        BY <2>2, TurnsType DEF SyncTypeOK
      <4> QED
        BY <4>1 DEF One
    <3> QED
      BY <3>1 DEF TurnsInv
  <2> QED
    BY <2>1, <2>2
<1> QED
  BY <1>1 DEF TurnsInv, TurnsBalance, Balanced, Needs, Live

\* A thread that has the CPU does not wait, unless it owes it, and does not
\* sleep or join; between two operations it is not queued to run either.
LEMMA RunningTurn ==
  ASSUME SyncTypeOK, Running, TurnsInv, NEW a \in Thread, active_thr = a,
         ~OwesPark(a), ~OwesPick(a)
  PROVE  /\ ~Awaiting(a) /\ a \notin Suspended /\ Tokens(a) = 1 /\ Turns(a) = 1
         /\ Occurrences(active_rq, a) = 0 /\ Occurrences(expired_rq, a) = 0
<1>1. Balanced(a)
  BY InOperationIsLive
<1>2. /\ Occurrences(active_rq, a) \in Nat /\ Occurrences(expired_rq, a) \in Nat
      /\ Turns(a) = Occurrences(active_rq, a) + Occurrences(expired_rq, a) + 1
      /\ Tokens(a) = Turns(a) + One(a \in Suspended)
  BY TurnsType DEF SyncTypeOK, Turns, One
<1>3. Tokens(a) + One(Awaiting(a)) = 1
  BY <1>1 DEF Balanced, Needs, One
<1>4. /\ One(Awaiting(a)) \in {0, 1} /\ (Awaiting(a) => One(Awaiting(a)) = 1)
      /\ One(a \in Suspended) \in {0, 1} /\ (a \in Suspended => One(a \in Suspended) = 1)
  BY DEF One
<1> QED
  BY <1>2, <1>3, <1>4

\* A step of a thread inside an operation keeps the balance when, for each
\* thread, what changes of its turns makes up for what changes of its needs.
LEMMA OperationTurns ==
  ASSUME SyncTypeOK, Running, TurnsInv,
         UNCHANGED <<created, sleep_thr_list, join_thr_list, zombie_thr_list, dead_thr_list>>,
         \A t \in Thread \ Live : Turns(t)' = Turns(t) /\ pc'[t] = pc[t],
         \A t \in Live : /\ Turns(t)' \in Nat
                         /\ Turns(t)' + One(Awaiting(t))' + Needs(t)
                               = Turns(t) + One(Awaiting(t)) + Needs(t)'
  PROVE  TurnsInv'
<1>1. \A t \in Thread : Tokens(t) = Turns(t) + One(t \in Suspended) /\ Turns(t) \in Nat
  BY TurnsType DEF SyncTypeOK
<1>2. \A t : Tokens(t)' = Turns(t)' + One(t \in Suspended)'
  BY DEF Tokens, Turns, Suspended
<1>3. Live' = Live /\ Suspended' = Suspended
  BY DEF Live, Suspended
<1>4. \A t : One(t \in Suspended)' = One(t \in Suspended) /\ One(t \in Suspended) \in {0, 1}
  BY <1>3 DEF One
<1>5. \A t : /\ One(Awaiting(t)) \in {0, 1} /\ One(Awaiting(t))' \in {0, 1}
            /\ Needs(t) \in Nat /\ Needs(t)' \in Nat
  BY DEF One, Needs
<1>6. TurnsBalance'
  <2> SUFFICES ASSUME NEW t \in Live PROVE Tokens(t)' + One(Awaiting(t))' = Needs(t)'
    BY <1>3 DEF TurnsBalance, Needs, Live
  <2>1. t \in Thread
    BY DEF Live, SyncTypeOK, TypeOK
  <2>2. Tokens(t) + One(Awaiting(t)) = Needs(t)
    BY DEF TurnsInv, TurnsBalance, Live, Needs
  <2> QED
    BY <1>1, <1>2, <1>4, <1>5, <2>1, <2>2
<1>7. \A t \in Thread \ Live : Tokens(t)' = 0 /\ pc'[t] = "user"
  BY <1>1, <1>2, <1>4 DEF TurnsInv
<1> QED
  BY <1>3, <1>6, <1>7 DEF TurnsInv

\* A step of the scheduler keeps it when no turn is lost or made but that of
\* a new thread, and a thread that ends has none left.
LEMMA SchedulerTurns ==
  ASSUME SyncTypeOK, Running, MonInv, TurnsInv, UNCHANGED syncVars,
         created' \subseteq Thread,
         NoDuplicates(sleep_thr_list'), NoDuplicates(join_thr_list'),
         Range(sleep_thr_list') \cap Range(join_thr_list') = {},
         zombie_thr_list' \cup dead_thr_list' \subseteq created',
         \A t \in Thread : IF t \in Live'
                           THEN Tokens(t)' = IF t \in Live THEN Tokens(t) ELSE 1
                           ELSE Tokens(t)' = 0 /\ pc[t] = "user"
  PROVE  TurnsInv'
<1>1. \A t : /\ One(Awaiting(t))' = One(Awaiting(t))
            /\ Needs(t)' = Needs(t)
  BY DEF One, Needs, Awaiting, OwesPark, OwesPick, syncVars
<1>2. ASSUME NEW t \in Thread \ Live
      PROVE  One(Awaiting(t)) = 0 /\ Needs(t) = 1
  <2>1. pc[t] = "user"
    BY <1>2 DEF TurnsInv
  <2>2. ~inWait[t]
    BY <2>1 DEF MonInv, LabelsOK, Unlocking
  <2>3. ~OwesPark(t) /\ ~OwesPick(t) /\ ~Blocked(t)
    BY <2>1, <2>2 DEF OwesPark, OwesPick, Blocked
  <2>4. ~Awaiting(t)
    BY <2>3, NotAwaiting DEF MonInv
  <2> QED
    BY <2>3, <2>4 DEF One, Needs
<1>3. TurnsBalance'
  <2> SUFFICES ASSUME NEW t \in Live' PROVE Tokens(t)' + One(Awaiting(t))' = Needs(t)'
    BY DEF TurnsBalance, Needs, Live
  <2>1. t \in Thread
    BY DEF Live
  <2>2. CASE t \in Live
    <3>1. Tokens(t) + One(Awaiting(t)) = Needs(t)
      BY <2>2 DEF TurnsInv, TurnsBalance, Live, Needs
    <3> QED
      BY <1>1, <2>1, <2>2, <3>1
  <2>3. CASE t \notin Live
    BY <1>1, <1>2, <2>1, <2>3
  <2> QED
    BY <2>2, <2>3
<1>4. \A t \in Thread \ Live' : Tokens(t)' = 0 /\ pc'[t] = "user"
  BY DEF syncVars
<1> QED
  BY <1>3, <1>4 DEF TurnsInv

\* A step that changes no turn and no need.
LEMMA OperationKeepsTurns ==
  ASSUME SyncTypeOK, Running, TurnsInv, NEW a \in Live,
         UNCHANGED <<created, active_rq, expired_rq, sleep_thr_list, join_thr_list,
                     zombie_thr_list, dead_thr_list, active_thr>>,
         \A t \in Thread : t # a => pc'[t] = pc[t] /\ inWait'[t] = inWait[t],
         \A t \in Thread \ {a} : Awaiting(t)' <=> Awaiting(t),
         One(Awaiting(a))' + Needs(a) = One(Awaiting(a)) + Needs(a)'
  PROVE  TurnsInv'
<1>1. \A t : Turns(t)' = Turns(t)
  BY DEF Turns, One
<1>2. \A t \in Thread \ {a} : Needs(t)' = Needs(t) /\ One(Awaiting(t))' = One(Awaiting(t))
  BY DEF Needs, One, OwesPark, OwesPick
<1>3. \A t \in Thread \ Live : Turns(t)' = Turns(t) /\ pc'[t] = pc[t]
  BY <1>1
<1>4. ASSUME NEW t \in Live
      PROVE  /\ Turns(t)' \in Nat
             /\ Turns(t)' + One(Awaiting(t))' + Needs(t)
                   = Turns(t) + One(Awaiting(t)) + Needs(t)'
  <2>1. t \in Thread
    BY DEF Live, SyncTypeOK, TypeOK
  <2>2. /\ Turns(t)' = Turns(t) /\ Turns(t) \in Nat
        /\ One(Awaiting(t)) \in {0, 1} /\ One(Awaiting(t))' \in {0, 1}
        /\ Needs(t) \in Nat /\ Needs(t)' \in Nat
    BY <1>1, <2>1, TurnsType DEF SyncTypeOK, Needs, One
  <2>3. One(Awaiting(t))' + Needs(t) = One(Awaiting(t)) + Needs(t)'
    BY <1>2, <2>1
  <2> QED
    BY <2>2, <2>3
<1> QED
  BY <1>3, <1>4, OperationTurns

\* Calls that start no wait.
LEMMA CallTurns ==
  ASSUME SyncTypeOK, Running, MonInv, TurnsInv, NEW m \in Mon,
         CallLock(m) \/ CallUnlock(m) \/ CallSignal(m)
  PROVE  TurnsInv'
<1>1. PICK a \in Thread : a = active_thr /\ pc[a] = "user" /\ on[a] = NULL /\ ~inWait[a]
  BY ActorNamed DEF CallLock, CallUnlock, CallSignal, MonInv
<1>2. a \in Live
  BY <1>1, InOperationIsLive
<1>3. UNCHANGED vars /\ UNCHANGED <<queue, cond, inWait>>
      /\ \E label \in {"lockSpin", "unlSpin", "sigSpin"} : pc' = [pc EXCEPT ![a] = label]
  BY <1>1 DEF CallLock, CallUnlock, CallSignal, Begin, Goto, monVars
<1>4. \A t : One(Awaiting(t))' = One(Awaiting(t)) /\ (Awaiting(t)' <=> Awaiting(t))
  BY <1>3 DEF Awaiting, One
<1>5. Needs(a)' = Needs(a)
  BY <1>1, <1>3 DEF Needs, One, OwesPark, OwesPick, SyncTypeOK
<1> QED
  BY <1>2, <1>3, <1>4, <1>5, OperationKeepsTurns DEF vars, SyncTypeOK

LEMMA TestAndSetTurns ==
  ASSUME SyncTypeOK, Running, MonInv, TurnsInv, LockTAS \/ UnlockTAS \/ SignalTAS
  PROVE  TurnsInv'
<1>1. PICK spin \in {"lockSpin", "unlSpin", "sigSpin"}, body \in {"lockBody", "unlBody", "sigBody"} :
        /\ TestAndSet(spin, body)
        /\ \/ spin = "lockSpin" /\ body = "lockBody"
           \/ spin = "unlSpin" /\ body = "unlBody"
           \/ spin = "sigSpin" /\ body = "sigBody"
  BY DEF LockTAS, UnlockTAS, SignalTAS
<1>2. PICK a \in Thread : a = active_thr /\ pc[a] = spin
  BY <1>1, ActorNamed DEF TestAndSet, MonInv
<1>3. a \in Live
  BY <1>2, InOperationIsLive
<1>4. UNCHANGED vars /\ UNCHANGED <<queue, cond, inWait>> /\ pc' = [pc EXCEPT ![a] = body]
  BY <1>1, <1>2 DEF TestAndSet, Goto
<1>5. \A t : One(Awaiting(t))' = One(Awaiting(t)) /\ (Awaiting(t)' <=> Awaiting(t))
  BY <1>4 DEF Awaiting, One
<1>6. Needs(a)' = Needs(a)
  BY <1>1, <1>2, <1>4 DEF Needs, One, OwesPark, OwesPick, SyncTypeOK
<1> QED
  BY <1>3, <1>4, <1>5, <1>6, OperationKeepsTurns DEF vars, SyncTypeOK

\* A thread that gets into a monitor, or comes out of one with nobody to let in.
LEMMA EnterLeaveTurns ==
  ASSUME SyncTypeOK, Running, MonInv, TurnsInv, LockFree \/ Unpark \/ UnlockFree
  PROVE  TurnsInv'
<1>1. PICK a \in Thread : a = active_thr /\ pc[a] \in {"lockBody", "parked", "unlBody"}
        /\ (LockFree => pc[a] = "lockBody") /\ (Unpark => pc[a] = "parked")
        /\ (UnlockFree => pc[a] = "unlBody")
  <2> USE DEF MonInv
  <2>1. CASE LockFree
    BY <2>1, ActorNamed DEF LockFree, Unpark, UnlockFree, At
  <2>2. CASE Unpark
    BY <2>2, ActorNamed DEF LockFree, Unpark, UnlockFree, At
  <2>3. CASE UnlockFree
    BY <2>3, ActorNamed DEF LockFree, Unpark, UnlockFree, At
  <2> QED
    BY <2>1, <2>2, <2>3
<1>2. a \in Live
  BY <1>1, InOperationIsLive
<1>3. UNCHANGED vars /\ UNCHANGED <<queue, cond>>
  BY DEF LockFree, Unpark, UnlockFree, monVars
<1>4. /\ pc'[a] = IF inWait[a] /\ pc[a] = "unlBody" THEN "park" ELSE "user"
      /\ pc[a] # "parked" => inWait'[a] = inWait[a]
      /\ \A t \in Thread : t # a => pc'[t] = pc[t] /\ inWait'[t] = inWait[t]
      /\ pc[a] = "parked" => ~inWait'[a]
  BY <1>1 DEF LockFree, Unpark, UnlockFree, UnlockReturns, Return, Begin, Goto, SyncTypeOK
<1>5. \A t : One(Awaiting(t))' = One(Awaiting(t)) /\ (Awaiting(t)' <=> Awaiting(t))
  BY <1>3 DEF Awaiting, One
<1>6. Needs(a)' = Needs(a)
  BY <1>1, <1>4 DEF Needs, One, OwesPark, OwesPick, SyncTypeOK
<1> QED
  BY <1>2, <1>3, <1>4, <1>5, <1>6, OperationKeepsTurns DEF vars, SyncTypeOK

LEMMA UnlockSwitchTurns ==
  ASSUME SyncTypeOK, Running, MonInv, TurnsInv, NEW a \in Thread, UnlockSwitch(a)
  PROVE  TurnsInv'
<1>1. pc[a] = "unlSwitch" /\ a \in Live
  BY InOperationIsLive DEF UnlockSwitch
<1>2. /\ UNCHANGED <<created, active_rq, expired_rq, sleep_thr_list, join_thr_list,
                     zombie_thr_list, dead_thr_list, active_thr, queue, cond, inWait>>
      /\ pc' = [pc EXCEPT ![a] = IF inWait[a] THEN "park" ELSE "user"]
  BY DEF UnlockSwitch, UnlockReturns, monVars
<1>3. \A t : One(Awaiting(t))' = One(Awaiting(t)) /\ (Awaiting(t)' <=> Awaiting(t))
  BY <1>2 DEF Awaiting, One
<1>4. Needs(a)' = Needs(a)
  BY <1>1, <1>2 DEF Needs, One, OwesPark, OwesPick, SyncTypeOK
<1> QED
  BY <1>1, <1>2, <1>3, <1>4, OperationKeepsTurns DEF SyncTypeOK

\* The thread that is signalled waits on, for the mutex.
LEMMA SignalBodyTurns ==
  ASSUME SyncTypeOK, Running, MonInv, TurnsInv, SignalBody
  PROVE  TurnsInv'
<1>1. PICK a \in Thread : a = active_thr /\ on[a] = MyMon /\ pc[a] = "sigBody" /\ MyMon \in Mon
  BY ActorNamed DEF SignalBody, MonInv
<1>2. PICK m \in Mon : m = MyMon
  BY <1>1
<1>3. a \in Live
  BY <1>1, InOperationIsLive
<1>4. UNCHANGED vars /\ UNCHANGED inWait /\ pc' = [pc EXCEPT ![a] = "user"]
  BY <1>1 DEF SignalBody, Return, Begin, Goto
<1>5. \A t : Awaiting(t)' <=> Awaiting(t)
  <2>1. CASE cond[m] = << >>
    BY <1>2, <2>1 DEF SignalBody, Awaiting
  <2>2. CASE cond[m] # << >>
    <3>1. /\ cond' = [cond EXCEPT ![m] = Tail(@)]
          /\ queue' = [queue EXCEPT ![m] = Append(@, Head(cond[m]))]
      BY <1>2, <2>2 DEF SignalBody, Requeue
    <3>2. Range(cond[m]) = {Head(cond[m])} \cup Range(Tail(cond[m]))
      BY <2>2, TailRange DEF SyncTypeOK
    <3>3. Range(Append(queue[m], Head(cond[m]))) = Range(queue[m]) \cup {Head(cond[m])}
      <4>1. Head(cond[m]) \in Thread
        BY <2>2, TailRange DEF SyncTypeOK
      <4> QED
        BY <4>1, AppendRange DEF SyncTypeOK
    <3>4. \A n \in Mon : Range(queue'[n]) \cup Range(cond'[n]) = Range(queue[n]) \cup Range(cond[n])
      BY <3>1, <3>2, <3>3 DEF SyncTypeOK
    <3> QED
      BY <3>4 DEF Awaiting
  <2> QED
    BY <2>1, <2>2
<1>6. \A t : One(Awaiting(t))' = One(Awaiting(t))
  BY <1>5 DEF One
<1>7. Needs(a)' = Needs(a)
  BY <1>1, <1>4 DEF Needs, One, OwesPark, OwesPick, SyncTypeOK, MonInv, LabelsOK, Unlocking
<1> QED
  BY <1>3, <1>4, <1>5, <1>6, <1>7, OperationKeepsTurns DEF vars, SyncTypeOK

\* A thread that lists itself as a waiter owes a turn for the one it will get.
LEMMA StartWaitTurns ==
  ASSUME SyncTypeOK, Running, MonInv, TurnsInv,
         LockBusy \/ \E m \in Mon : CallWait(m)
  PROVE  TurnsInv'
<1>1. PICK a \in Thread : a = active_thr /\ pc[a] \in {"lockBody", "user"}
        /\ (LockBusy => pc[a] = "lockBody" /\ on[a] = MyMon /\ MyMon \in Mon)
        /\ ((\E m \in Mon : CallWait(m)) => pc[a] = "user")
  <2> USE DEF MonInv
  <2>1. CASE LockBusy
    BY <2>1, ActorNamed DEF LockBusy, CallWait, At
  <2>2. CASE \E m \in Mon : CallWait(m)
    BY <2>2, ActorNamed DEF LockBusy, CallWait, At
  <2> QED
    BY <2>1, <2>2
<1>2. a \in Live /\ ~inWait[a] /\ ~Blocked(a)
  BY <1>1, InOperationIsLive DEF MonInv, LabelsOK, Unlocking, Blocked, OwesPark
<1>3. ~Awaiting(a)
  BY <1>2, NotAwaiting DEF MonInv
<1>4. UNCHANGED <<created, active_rq, expired_rq, sleep_thr_list, join_thr_list,
                  zombie_thr_list, dead_thr_list, active_thr>>
  BY DEF LockBusy, CallWait
<1>5. /\ \A t \in Thread : t # a => pc'[t] = pc[t] /\ inWait'[t] = inWait[t]
      /\ pc'[a] = "park" \/ (pc'[a] = "unlSpin" /\ inWait'[a])
  <2> USE DEF SyncTypeOK
  <2>1. CASE LockBusy
    <3>1. pc' = [pc EXCEPT ![a] = "park"] /\ UNCHANGED inWait
      BY <1>1, <2>1 DEF LockBusy, Goto
    <3> QED
      BY <1>1, <3>1
  <2>2. CASE \E m \in Mon : CallWait(m)
    BY <1>1, <2>2 DEF CallWait, Begin, Goto
  <2> QED
    BY <2>1, <2>2
<1>6. \E m \in Mon : \/ queue' = [queue EXCEPT ![m] = Append(@, a)] /\ UNCHANGED cond
                     \/ cond' = [cond EXCEPT ![m] = Append(@, a)] /\ UNCHANGED queue
  BY <1>1 DEF LockBusy, CallWait
<1>7. \A t : Awaiting(t)' <=> Awaiting(t) \/ t = a
  <2>1. PICK m \in Mon : \/ queue' = [queue EXCEPT ![m] = Append(@, a)] /\ UNCHANGED cond
                         \/ cond' = [cond EXCEPT ![m] = Append(@, a)] /\ UNCHANGED queue
    BY <1>6
  <2>2. /\ Range(Append(queue[m], a)) = Range(queue[m]) \cup {a}
        /\ Range(Append(cond[m], a)) = Range(cond[m]) \cup {a}
    BY AppendRange DEF SyncTypeOK
  <2>3. \A n \in Mon : Range(queue'[n]) \cup Range(cond'[n])
                          = Range(queue[n]) \cup Range(cond[n]) \cup (IF n = m THEN {a} ELSE {})
    BY <2>1, <2>2 DEF SyncTypeOK
  <2> QED
    BY <2>3 DEF Awaiting
<1>8. One(Awaiting(a)) = 0 /\ One(Awaiting(a))' = 1
  BY <1>3, <1>7 DEF One
<1>9. Needs(a) = 1 /\ Needs(a)' = 2
  BY <1>1, <1>2, <1>5 DEF Needs, One, OwesPark, OwesPick
<1> QED
  BY <1>2, <1>4, <1>5, <1>7, <1>8, <1>9, OperationKeepsTurns

LEMMA ParkTurns ==
  ASSUME SyncTypeOK, Running, MonInv, TurnsInv, Park, Running'
  PROVE  TurnsInv'
<1>1. PICK a \in Thread : a = active_thr /\ pc[a] = "park"
  BY ActorNamed DEF Park, MonInv
<1>2. /\ UNCHANGED <<created, sleep_thr_list, join_thr_list, zombie_thr_list,
                     dead_thr_list, queue, cond, inWait>>
      /\ pc' = [pc EXCEPT ![a] = "parked"]
      /\ RunNext(active_rq, expired_rq, "HIGH")
  BY <1>1 DEF Park, Goto, monVars
<1>3. \A t : Turns(t)' = Occurrences(active_rq, t) + Occurrences(expired_rq, t)
  BY <1>2, RunNextTurns DEF SyncTypeOK, TypeOK, Runqueues
<1>4. \A t : Turns(t)' + One(t = a) = Turns(t) /\ Turns(t)' \in Nat
  BY <1>1, <1>3, TurnsType DEF Turns, One, SyncTypeOK
<1>5. \A t : One(Awaiting(t))' = One(Awaiting(t)) /\ One(Awaiting(t)) \in {0, 1}
  BY <1>2 DEF Awaiting, One
<1>6. \A t \in Thread : Needs(t) = Needs(t)' + One(t = a) /\ Needs(t)' \in Nat
  BY <1>1, <1>2 DEF Needs, One, OwesPark, OwesPick, SyncTypeOK
<1>7. a \in Live /\ Live \subseteq Thread
  BY <1>1, InOperationIsLive DEF Live, SyncTypeOK, TypeOK
<1>8. \A t \in Thread \ Live : Turns(t)' = Turns(t) /\ pc'[t] = pc[t]
  BY <1>2, <1>4, <1>7 DEF One, SyncTypeOK
<1>9. \A t : One(t = a) \in {0, 1}
  BY DEF One
<1>10. ASSUME NEW t \in Live
       PROVE  /\ Turns(t)' \in Nat
              /\ Turns(t)' + One(Awaiting(t))' + Needs(t)
                    = Turns(t) + One(Awaiting(t)) + Needs(t)'
  <2>1. t \in Thread /\ Turns(t) \in Nat
    BY <1>7, TurnsType DEF SyncTypeOK
  <2> QED
    BY <1>4, <1>5, <1>6, <1>9, <2>1
<1> QED
  BY <1>2, <1>8, <1>10, OperationTurns

\* The waiter that is let in gets its turn.
LEMMA UnlockHandOffTurns ==
  ASSUME SyncTypeOK, Running, MonInv, TurnsInv, UnlockHandOff
  PROVE  TurnsInv'
<1>1. PICK a \in Thread : a = active_thr /\ on[a] = MyMon /\ pc[a] = "unlBody" /\ MyMon \in Mon
  BY ActorNamed DEF UnlockHandOff, MonInv
<1>2. PICK m \in Mon : m = MyMon
  BY <1>1
<1>3. PICK t \in Thread :
        /\ t = Head(queue[m]) /\ t \in Range(queue[m])
        /\ Range(queue[m]) = {t} \cup Range(Tail(queue[m]))
        /\ t \notin Range(Tail(queue[m]))
  <2>1. queue[m] # << >> /\ queue[m] \in Seq(Thread)
    BY <1>2 DEF UnlockHandOff, NobodyQueued, SyncTypeOK
  <2>2. NoDuplicates(queue[m])
    BY DEF MonInv, ListsOK, ListedBlock
  <2> QED
    BY <2>1, <2>2, TailRange
<1>4. /\ queue' = [queue EXCEPT ![m] = Tail(@)]
      /\ active_rq' = rq_inserir(active_rq, t, pcb[t].priority)
      /\ UNCHANGED <<created, expired_rq, sleep_thr_list, join_thr_list, zombie_thr_list,
                     dead_thr_list, active_thr, cond, inWait>>
  BY <1>2, <1>3 DEF UnlockHandOff, Ready
<1>5. /\ pc'[a] \in {"unlYield"} \cup {IF inWait[a] THEN "park" ELSE "user"}
      /\ \A u \in Thread : u # a => pc'[u] = pc[u]
  BY <1>1 DEF UnlockHandOff, UnlockReturns, Goto, SyncTypeOK
<1>6. \A n \in Mon : t \notin Range(cond[n]) /\ (n # m => t \notin Range(queue[n]))
  BY <1>3 DEF MonInv, ListsOK, ListedBlock
<1>7. \A u : (Awaiting(u)' <=> Awaiting(u) /\ u # t) /\ Awaiting(t)
  <2>1. \A n \in Mon : Range(queue'[n]) = Range(queue[n]) \ (IF n = m THEN {t} ELSE {})
    BY <1>3, <1>4 DEF SyncTypeOK
  <2> QED
    BY <1>3, <1>4, <1>6, <2>1 DEF Awaiting
<1>8. \A u : /\ One(Awaiting(u))' + One(u = t) = One(Awaiting(u))
             /\ One(Awaiting(u))' \in {0, 1} /\ One(u = t) \in {0, 1}
  BY <1>7 DEF One
<1>9. \A u \in Thread : Needs(u)' = Needs(u) /\ Needs(u) \in Nat
  BY <1>1, <1>4, <1>5 DEF Needs, One, OwesPark, OwesPick
<1>10. \A u : Turns(u)' = Turns(u) + One(u = t) /\ Turns(u) \in Nat
  <2>1. pcb[t].priority \in Prio /\ active_rq \in [Prio -> Seq(Thread)]
    BY PCBFields DEF SyncTypeOK, TypeOK
  <2> SUFFICES ASSUME NEW u PROVE Turns(u)' = Turns(u) + One(u = t) /\ Turns(u) \in Nat
    OBVIOUS
  <2>2. Occurrences(active_rq', u) = Occurrences(active_rq, u) + One(u = t)
    BY <1>4, <2>1, InserirOccurrences DEF One
  <2>3. /\ Turns(u) = Occurrences(active_rq, u) + Occurrences(expired_rq, u)
                        + One(active_thr = u)
               /\ Turns(u)' = Occurrences(active_rq', u) + Occurrences(expired_rq, u)
                        + One(active_thr = u)
    BY <1>4 DEF Turns
  <2>4. /\ Occurrences(active_rq, u) \in Nat /\ Occurrences(expired_rq, u) \in Nat
               /\ Turns(u) \in Nat /\ One(active_thr = u) \in {0, 1}
    BY TurnsType DEF SyncTypeOK, One
  <2>5. One(u = t) \in {0, 1}
    BY DEF One
  <2> QED
    BY <2>2, <2>3, <2>4, <2>5
<1>11. a \in Live /\ t \in Live /\ Live \subseteq Thread
  <2>1. Blocked(t)
    BY <1>3 DEF MonInv, ListsOK, ListedBlock
  <2>2. pc[t] # "user"
    BY <2>1 DEF Blocked, OwesPark
  <2> QED
    BY <1>1, <2>2, InOperationIsLive DEF Live, SyncTypeOK, TypeOK
<1>12. \A u \in Thread \ Live : Turns(u)' = Turns(u) /\ pc'[u] = pc[u]
  BY <1>5, <1>10, <1>11 DEF One
<1>13. ASSUME NEW u \in Live
       PROVE  /\ Turns(u)' \in Nat
              /\ Turns(u)' + One(Awaiting(u))' + Needs(u)
                    = Turns(u) + One(Awaiting(u)) + Needs(u)'
  BY <1>8, <1>9, <1>10, <1>11
<1> QED
  BY <1>4, <1>12, <1>13, OperationTurns

\* A thread that lets a better one in queues itself, and has the CPU to give up.
LEMMA UnlockYieldTurns ==
  ASSUME SyncTypeOK, Running, MonInv, TurnsInv, UnlockYield
  PROVE  TurnsInv'
<1>1. PICK a \in Thread : a = active_thr /\ pc[a] = "unlYield"
  BY ActorNamed DEF UnlockYield, MonInv
<1>2. /\ active_rq' = rq_inserir(active_rq, a, pcb[a].priority)
      /\ pc' = [pc EXCEPT ![a] = "unlPick"]
      /\ UNCHANGED <<created, expired_rq, sleep_thr_list, join_thr_list, zombie_thr_list,
                     dead_thr_list, active_thr, queue, cond, inWait>>
  BY <1>1 DEF UnlockYield, Ready, Goto, monVars
<1>3. \A u : One(Awaiting(u))' = One(Awaiting(u)) /\ One(Awaiting(u)) \in {0, 1}
             /\ One(u = a) \in {0, 1}
  BY <1>2 DEF Awaiting, One
<1>4. \A u \in Thread : Needs(u)' = Needs(u) + One(u = a) /\ Needs(u) \in Nat
  BY <1>1, <1>2 DEF Needs, One, OwesPark, OwesPick, SyncTypeOK
<1>5. \A u : Turns(u)' = Turns(u) + One(u = a) /\ Turns(u) \in Nat
  <2>1. pcb[a].priority \in Prio /\ active_rq \in [Prio -> Seq(Thread)]
    BY PCBFields DEF SyncTypeOK, TypeOK
  <2> SUFFICES ASSUME NEW u PROVE Turns(u)' = Turns(u) + One(u = a) /\ Turns(u) \in Nat
    OBVIOUS
  <2>2. Occurrences(active_rq', u) = Occurrences(active_rq, u) + One(u = a)
    BY <1>2, <2>1, InserirOccurrences DEF One
  <2>3. /\ Turns(u) = Occurrences(active_rq, u) + Occurrences(expired_rq, u)
                        + One(active_thr = u)
               /\ Turns(u)' = Occurrences(active_rq', u) + Occurrences(expired_rq, u)
                        + One(active_thr = u)
    BY <1>2 DEF Turns
  <2>4. /\ Occurrences(active_rq, u) \in Nat /\ Occurrences(expired_rq, u) \in Nat
               /\ Turns(u) \in Nat /\ One(active_thr = u) \in {0, 1}
    BY TurnsType DEF SyncTypeOK, One
  <2>5. One(u = a) \in {0, 1}
    BY DEF One
  <2> QED
    BY <2>2, <2>3, <2>4, <2>5
<1>6. a \in Live /\ Live \subseteq Thread
  BY <1>1, InOperationIsLive DEF Live, SyncTypeOK, TypeOK
<1>7. \A u \in Thread \ Live : Turns(u)' = Turns(u) /\ pc'[u] = pc[u]
  BY <1>2, <1>5, <1>6 DEF One, SyncTypeOK
<1>8. ASSUME NEW u \in Live
      PROVE  /\ Turns(u)' \in Nat
             /\ Turns(u)' + One(Awaiting(u))' + Needs(u)
                   = Turns(u) + One(Awaiting(u)) + Needs(u)'
  BY <1>3, <1>4, <1>5, <1>6
<1> QED
  BY <1>2, <1>7, <1>8, OperationTurns

\* It takes the next thread out of the active queue, or itself.
LEMMA UnlockPickTurns ==
  ASSUME SyncTypeOK, Running, MonInv, TurnsInv, UnlockPick, Running'
  PROVE  TurnsInv'
<1>1. PICK a \in Thread : a = active_thr /\ pc[a] = "unlPick"
  BY ActorNamed DEF UnlockPick, MonInv
<1>2. /\ ~rq_vazia(active_rq) /\ active_thr' = rq_primeira(active_rq)
      /\ active_rq' = rq_resto(active_rq)
      /\ UnlockReturns(a) \/ Goto("unlSwitch")
      /\ UNCHANGED <<created, expired_rq, sleep_thr_list, join_thr_list, zombie_thr_list,
                     dead_thr_list, queue, cond, inWait>>
  BY <1>1 DEF UnlockPick, Running, monVars
<1>3. /\ pc'[a] \in {"unlSwitch"} \cup {IF inWait[a] THEN "park" ELSE "user"}
      /\ \A u \in Thread : u # a => pc'[u] = pc[u]
  BY <1>1, <1>2 DEF UnlockReturns, Goto, SyncTypeOK
<1>4. \A u : One(Awaiting(u))' = One(Awaiting(u)) /\ One(Awaiting(u)) \in {0, 1}
             /\ One(u = a) \in {0, 1}
  BY <1>2 DEF Awaiting, One
<1>5. \A u \in Thread : Needs(u) = Needs(u)' + One(u = a) /\ Needs(u)' \in Nat
  BY <1>1, <1>2, <1>3 DEF Needs, One, OwesPark, OwesPick
<1>6. \A u : Turns(u)' + One(u = a) = Turns(u) /\ Turns(u)' \in Nat
  <2>1. active_rq \in [Prio -> Seq(Thread)] /\ rq_resto(active_rq) \in [Prio -> Seq(Thread)]
    BY <1>2, RetirarRange DEF SyncTypeOK, TypeOK
  <2>2. \A u : Occurrences(active_rq, u) = Occurrences(active_rq', u) + One(active_thr' = u)
    BY <1>2, <2>1, RetirarOccurrences DEF One
  <2>3. \A u : /\ Turns(u) = Occurrences(active_rq, u) + Occurrences(expired_rq, u)
                             + One(u = a)
               /\ Turns(u)' = Occurrences(active_rq', u) + Occurrences(expired_rq, u)
                             + One(active_thr' = u)
    BY <1>1, <1>2 DEF Turns, One
  <2>4. \A u : /\ Occurrences(active_rq', u) \in Nat /\ Occurrences(expired_rq, u) \in Nat
               /\ One(active_thr' = u) \in {0, 1}
    BY <1>2, <2>1, TurnsType, OccurrencesType DEF SyncTypeOK, One
  <2> QED
    BY <1>4, <2>2, <2>3, <2>4
<1>7. a \in Live /\ Live \subseteq Thread
  BY <1>1, InOperationIsLive DEF Live, SyncTypeOK, TypeOK
<1>8. \A u \in Thread \ Live : Turns(u)' = Turns(u) /\ pc'[u] = pc[u]
  BY <1>3, <1>4, <1>6, <1>7 DEF One
<1>9. ASSUME NEW u \in Live
      PROVE  /\ Turns(u)' \in Nat
             /\ Turns(u)' + One(Awaiting(u))' + Needs(u)
                   = Turns(u) + One(Awaiting(u)) + Needs(u)'
  BY <1>4, <1>5, <1>6, <1>7
<1> QED
  BY <1>2, <1>8, <1>9, OperationTurns

\* A step of the scheduler after which every thread has the turns it had.
LEMMA TurnsMove ==
  ASSUME SyncTypeOK, Running, MonInv, TurnsInv, UNCHANGED syncVars,
         UNCHANGED created,
         NoDuplicates(sleep_thr_list'), NoDuplicates(join_thr_list'),
         Range(sleep_thr_list') \cap Range(join_thr_list') = {},
         zombie_thr_list' \cup dead_thr_list' = zombie_thr_list \cup dead_thr_list,
         \A t \in Thread : Turns(t)' + One(t \in Suspended)' = Turns(t) + One(t \in Suspended)
  PROVE  TurnsInv'
<1>1. Live' = Live /\ Live \subseteq Thread /\ created \subseteq Thread
  BY DEF Live, SyncTypeOK, TypeOK
<1>2. \A t \in Thread : Tokens(t)' = Tokens(t)
  <2>1. \A t : Tokens(t)' = Turns(t)' + One(t \in Suspended)'
    BY DEF Tokens, Turns, Suspended
  <2>2. \A t \in Thread : Tokens(t) = Turns(t) + One(t \in Suspended)
    BY TurnsType DEF SyncTypeOK
  <2> QED
    BY <2>1, <2>2
<1>3. \A t \in Thread \ Live : Tokens(t) = 0 /\ pc[t] = "user"
  BY DEF TurnsInv
<1>4. zombie_thr_list' \cup dead_thr_list' \subseteq created'
  BY DEF TurnsInv
<1>5. \A t \in Thread : IF t \in Live'
                        THEN Tokens(t)' = IF t \in Live THEN Tokens(t) ELSE 1
                        ELSE Tokens(t)' = 0 /\ pc[t] = "user"
  BY <1>1, <1>2, <1>3
<1> QED
  BY <1>1, <1>4, <1>5, SchedulerTurns

\* The running thread, between two operations.
LEMMA CallerTurn ==
  ASSUME SyncTypeOK, MonInv, TurnsInv, SchedCall
  PROVE  \E a \in Thread :
           /\ Running /\ a = active_thr /\ pc[a] = "user" /\ a \in Live
           /\ a \notin Suspended /\ Turns(a) = 1
           /\ Occurrences(active_rq, a) = 0 /\ Occurrences(expired_rq, a) = 0
<1>1. At("user")
  BY DEF SchedCall
<1>2. PICK a \in Thread : a = active_thr /\ pc[a] = "user" /\ ~inWait[a]
  BY <1>1, ActorNamed DEF MonInv
<1>3. Running /\ ~OwesPark(a) /\ ~OwesPick(a)
  BY <1>1, <1>2 DEF At, OwesPark, OwesPick
<1>4. a \in Live
  BY <1>2, <1>3, InOperationIsLive
<1> QED
  BY <1>2, <1>3, <1>4, RunningTurn

LEMMA CreateTurns ==
  ASSUME SyncTypeOK, Running, MonInv, TurnsInv, UNCHANGED syncVars,
         NEW t \in Thread, NEW p \in CreatePrios, Create(t, p)
  PROVE  TurnsInv'
<1> DEFINE prio == Clamp(p, 0, NUM_PRIORITIES - 1)
<1>1. /\ active_rq' = rq_inserir(active_rq, t, prio) /\ created' = created \cup {t}
      /\ t \notin created
      /\ UNCHANGED <<expired_rq, sleep_thr_list, join_thr_list, zombie_thr_list,
                     dead_thr_list, active_thr>>
  BY DEF Create
<1>2. prio \in Prio
  <2>1. p \in Int /\ NUM_PRIORITIES - 1 \in Int /\ 0 \in Int /\ 0 <= NUM_PRIORITIES - 1
    BY WorkloadAssumption, PrioritiesAssumption
  <2> QED
    BY <2>1, ClampInRange DEF Prio
<1> HIDE DEF prio
<1>3. \A u : Occurrences(active_rq', u) = Occurrences(active_rq, u) + One(u = t)
  BY <1>1, <1>2, InserirOccurrences DEF One, SyncTypeOK, TypeOK
<1>4. ASSUME NEW u \in Thread
      PROVE  Tokens(u)' = Tokens(u) + One(u = t)
  <2>1. Occurrences(active_rq', u) = Occurrences(active_rq, u) + One(u = t)
    BY <1>3
  <2>2. /\ Occurrences(active_rq, u) \in Nat /\ Occurrences(expired_rq, u) \in Nat
        /\ One(u = t) \in {0, 1} /\ One(active_thr = u) \in {0, 1}
        /\ One(u \in Range(sleep_thr_list) \cup Range(join_thr_list)) \in {0, 1}
    BY TurnsType DEF One, SyncTypeOK
  <2>3. Tokens(u)' = Occurrences(active_rq', u) + Occurrences(expired_rq, u)
             + One(active_thr = u)
             + One(u \in Range(sleep_thr_list) \cup Range(join_thr_list))
    BY <1>1 DEF Tokens
  <2> QED
    BY <2>1, <2>2, <2>3 DEF Tokens
<1>5. /\ Live' = Live \cup {t} /\ t \notin Live
      /\ zombie_thr_list' \cup dead_thr_list' \subseteq created'
      /\ created' \subseteq Thread
  BY <1>1 DEF Live, TurnsInv, SyncTypeOK, TypeOK
<1>6. \A u \in Thread : IF u \in Live'
                        THEN Tokens(u)' = IF u \in Live THEN Tokens(u) ELSE 1
                        ELSE Tokens(u)' = 0 /\ pc[u] = "user"
  <2> SUFFICES ASSUME NEW u \in Thread
               PROVE  IF u \in Live'
                      THEN Tokens(u)' = IF u \in Live THEN Tokens(u) ELSE 1
                      ELSE Tokens(u)' = 0 /\ pc[u] = "user"
    OBVIOUS
  <2>1. u \notin Live => Tokens(u) = 0 /\ pc[u] = "user"
    BY DEF TurnsInv
  <2>2. Tokens(u) \in Nat
    BY TurnsType DEF SyncTypeOK
  <2>3. One(u = t) = IF u = t THEN 1 ELSE 0
    BY DEF One
  <2> QED
    BY <1>4, <1>5, <2>1, <2>2, <2>3
<1>7. /\ NoDuplicates(sleep_thr_list') /\ NoDuplicates(join_thr_list')
      /\ Range(sleep_thr_list') \cap Range(join_thr_list') = {}
  BY <1>1 DEF TurnsInv
<1> QED
  BY <1>5, <1>6, <1>7, SchedulerTurns

\* sthread_yield, and the calls that move no thread.
LEMMA StayingCallTurns ==
  ASSUME SyncTypeOK, MonInv, TurnsInv, SchedCall, Running',
         \/ Yield
         \/ \E n \in NiceArgs : Nice(n)
         \/ \E time \in SleepTimes : SleepNot(time)
         \/ \E u \in Thread : JoinZombie(u) \/ JoinNotFound(u)
  PROVE  TurnsInv'
<1>1. PICK a \in Thread : Running /\ a = active_thr
  BY CallerTurn
<1>2. /\ UNCHANGED <<created, sleep_thr_list, join_thr_list>> /\ UNCHANGED syncVars
      /\ zombie_thr_list' \cup dead_thr_list' = zombie_thr_list \cup dead_thr_list
  BY DEF SchedCall, Yield, Nice, SleepNot, JoinZombie, JoinNotFound
<1>3. \A t \in Thread : Turns(t)' = Turns(t)
  <2>1. CASE Yield
    <3> DEFINE p == Recalcular(pcb[a])
    <3>1. RunNext(rq_inserir(active_rq, a, p.priority), expired_rq, "HIGH")
      BY <1>1, <2>1 DEF Yield
    <3>2. p.priority \in Prio /\ active_rq \in [Prio -> Seq(Thread)] /\ expired_rq \in Runqueues
      <4>1. pcb[a] \in PCB
        BY <1>1 DEF SyncTypeOK, TypeOK
      <4>2. p \in PCB
        BY <4>1, RecalcularProperties
      <4> QED
        BY <4>2, PCBFields DEF SyncTypeOK, TypeOK, Runqueues
    <3> HIDE DEF p
    <3>3. rq_inserir(active_rq, a, p.priority) \in Runqueues
      BY <3>2, InserirRange DEF Runqueues
    <3>4. ASSUME NEW t \in Thread
          PROVE  Turns(t)' = Turns(t)
      <4>1. Turns(t)' = Occurrences(rq_inserir(active_rq, a, p.priority), t)
                        + Occurrences(expired_rq, t)
        BY <1>1, <3>1, <3>2, <3>3, RunNextTurns
      <4>2. Occurrences(rq_inserir(active_rq, a, p.priority), t)
               = Occurrences(active_rq, t) + One(a = t)
        BY <3>2, InserirOccurrences DEF One
      <4>3. Turns(t) = Occurrences(active_rq, t) + Occurrences(expired_rq, t) + One(a = t)
        BY <1>1 DEF Turns
      <4>4. /\ Occurrences(active_rq, t) \in Nat /\ Occurrences(expired_rq, t) \in Nat
            /\ One(a = t) \in {0, 1}
        BY TurnsType DEF One, SyncTypeOK
      <4> QED
        BY <4>1, <4>2, <4>3, <4>4
    <3> QED
      BY <3>4
  <2>2. CASE UNCHANGED <<active_rq, expired_rq, active_thr>>
    BY <2>2 DEF Turns
  <2> QED
    BY <2>1, <2>2 DEF Nice, SleepNot, JoinZombie, JoinNotFound
<1>4. Suspended' = Suspended
  BY <1>2 DEF Suspended
<1>5. /\ NoDuplicates(sleep_thr_list') /\ NoDuplicates(join_thr_list')
      /\ Range(sleep_thr_list') \cap Range(join_thr_list') = {}
  BY <1>2 DEF TurnsInv
<1> QED
  BY <1>1, <1>2, <1>3, <1>4, <1>5, TurnsMove DEF One

\* sthread_sleep and sthread_join: the caller has its turn in a list.
LEMMA SuspendTurns ==
  ASSUME SyncTypeOK, MonInv, TurnsInv, SchedCall, Running',
         \/ \E time \in SleepTimes : Sleep(time)
         \/ \E u \in Thread : Join(u)
  PROVE  TurnsInv'
<1>1. PICK a \in Thread : /\ Running /\ a = active_thr /\ a \notin Suspended
  BY CallerTurn
<1>2. /\ \/ sleep_thr_list' = Append(sleep_thr_list, a) /\ UNCHANGED join_thr_list
         \/ join_thr_list' = Append(join_thr_list, a) /\ UNCHANGED sleep_thr_list
      /\ UNCHANGED <<created, zombie_thr_list, dead_thr_list>> /\ UNCHANGED syncVars
      /\ RunNext(active_rq, expired_rq, "HIGH")
  BY <1>1 DEF SchedCall, Sleep, Join
<1>3. a \notin Range(sleep_thr_list) /\ a \notin Range(join_thr_list)
  BY <1>1 DEF Suspended
<1>4. /\ sleep_thr_list \in Seq(Thread) /\ join_thr_list \in Seq(Thread)
      /\ NoDuplicates(sleep_thr_list) /\ NoDuplicates(join_thr_list)
      /\ Range(sleep_thr_list) \cap Range(join_thr_list) = {}
  BY DEF TurnsInv, SyncTypeOK, TypeOK
<1>5. /\ Range(Append(sleep_thr_list, a)) = Range(sleep_thr_list) \cup {a}
      /\ Range(Append(join_thr_list, a)) = Range(join_thr_list) \cup {a}
      /\ NoDuplicates(Append(sleep_thr_list, a)) /\ NoDuplicates(Append(join_thr_list, a))
  BY <1>3, <1>4, AppendRange
<1>6. /\ NoDuplicates(sleep_thr_list') /\ NoDuplicates(join_thr_list')
      /\ Range(sleep_thr_list') \cap Range(join_thr_list') = {}
      /\ Suspended' = Suspended \cup {a}
  BY <1>2, <1>3, <1>4, <1>5 DEF Suspended
<1>7. ASSUME NEW t \in Thread
      PROVE  Turns(t)' + One(t \in Suspended)' = Turns(t) + One(t \in Suspended)
  <2>1. Turns(t)' = Occurrences(active_rq, t) + Occurrences(expired_rq, t)
    BY <1>1, <1>2, RunNextTurns DEF SyncTypeOK, TypeOK, Runqueues
  <2>2. Turns(t) = Occurrences(active_rq, t) + Occurrences(expired_rq, t) + One(a = t)
    BY <1>1 DEF Turns
  <2>3. One(t \in Suspended)' = One(t \in Suspended) + One(a = t)
    BY <1>1, <1>6 DEF One
  <2>4. /\ Occurrences(active_rq, t) \in Nat /\ Occurrences(expired_rq, t) \in Nat
        /\ One(a = t) \in {0, 1} /\ One(t \in Suspended) \in {0, 1}
    BY TurnsType DEF One, SyncTypeOK
  <2> QED
    BY <2>1, <2>2, <2>3, <2>4
<1> QED
  BY <1>1, <1>2, <1>6, <1>7, TurnsMove

\* sthread_exit: those that join the caller are queued to run, and the caller
\* has no turn left.
LEMMA ExitTurns ==
  ASSUME SyncTypeOK, MonInv, TurnsInv, SchedCall, Running', Exit
  PROVE  TurnsInv'
<1> DEFINE released == KeepOnly(join_thr_list, Joiners)
           prio == [t \in Thread |-> pcb[t].priority]
           act == rq_inserir_todas(active_rq, released, prio)
<1>1. PICK a \in Thread :
        /\ Running /\ a = active_thr /\ pc[a] = "user" /\ a \in Live
        /\ a \notin Suspended /\ Turns(a) = 1
        /\ Occurrences(active_rq, a) = 0 /\ Occurrences(expired_rq, a) = 0
  BY CallerTurn
<1>2. /\ join_thr_list' = KeepOnly(join_thr_list, Thread \ Joiners)
      /\ zombie_thr_list' \cup dead_thr_list' = zombie_thr_list \cup dead_thr_list \cup {a}
      /\ UNCHANGED <<created, sleep_thr_list>> /\ UNCHANGED syncVars
      /\ RunNext(act, expired_rq, "HIGH")
  BY <1>1 DEF Exit, SchedCall, Running
<1>3. /\ sleep_thr_list \in Seq(Thread) /\ join_thr_list \in Seq(Thread)
      /\ NoDuplicates(sleep_thr_list) /\ NoDuplicates(join_thr_list)
      /\ Range(sleep_thr_list) \cap Range(join_thr_list) = {}
      /\ Range(join_thr_list) \subseteq Thread
  <2>1. sleep_thr_list \in Seq(Thread) /\ join_thr_list \in Seq(Thread)
    BY DEF SyncTypeOK, TypeOK
  <2>2. Range(join_thr_list) \subseteq Thread
    BY <2>1 DEF Range
  <2> QED
    BY <2>1, <2>2 DEF TurnsInv
<1>4. /\ released \in Seq(Thread) /\ NoDuplicates(released)
      /\ Range(released) = Range(join_thr_list) \cap Joiners
      /\ Range(join_thr_list') = Range(join_thr_list) \ Joiners
      /\ NoDuplicates(join_thr_list')
  <2>1. /\ Range(join_thr_list') = Range(join_thr_list) \cap (Thread \ Joiners)
        /\ NoDuplicates(join_thr_list')
    BY <1>2, <1>3, KeepOnlyRange
  <2>2. /\ released \in Seq(Thread) /\ NoDuplicates(released)
        /\ Range(released) = Range(join_thr_list) \cap Joiners
    BY <1>3, KeepOnlyRange
  <2> QED
    BY <1>3, <2>1, <2>2
<1>5. prio \in [Thread -> Prio]
  BY PCBFields DEF SyncTypeOK, TypeOK
<1>6. active_rq \in [Prio -> Seq(Thread)] /\ expired_rq \in Runqueues
  BY DEF SyncTypeOK, TypeOK, Runqueues
<1> HIDE DEF released, prio
<1>7. act \in Runqueues
      /\ \A t : Occurrences(act, t) = Occurrences(active_rq, t) + One(t \in Range(released))
  <2>1. act \in Runqueues
    BY <1>4, <1>5, <1>6, InserirTodasRange DEF Runqueues
  <2>2. \A t : Occurrences(act, t) = Occurrences(active_rq, t) + One(t \in Range(released))
    BY <1>4, <1>5, <1>6, QueuedTurns
  <2> QED
    BY <2>1, <2>2
<1> HIDE DEF act
<1>8. ASSUME NEW t \in Thread
      PROVE  Tokens(t)' = IF t = a THEN 0 ELSE Tokens(t)
  <2>1. Turns(t)' = Occurrences(act, t) + Occurrences(expired_rq, t)
    BY <1>1, <1>2, <1>6, <1>7, RunNextTurns
  <2>2. Turns(t) = Occurrences(active_rq, t) + Occurrences(expired_rq, t) + One(a = t)
    BY <1>1 DEF Turns
  <2>3. One(t \in Suspended)' + One(t \in Range(released)) = One(t \in Suspended)
    <3>1. Suspended' = Suspended \ Range(released) /\ Range(released) \subseteq Suspended
      BY <1>2, <1>3, <1>4 DEF Suspended
    <3> QED
      BY <3>1 DEF One
  <2>4. /\ Occurrences(active_rq, t) \in Nat /\ Occurrences(expired_rq, t) \in Nat
        /\ One(t \in Range(released)) \in {0, 1}
        /\ One(t \in Suspended) \in {0, 1} /\ One(t \in Suspended)' \in {0, 1}
        /\ Tokens(t) = Turns(t) + One(t \in Suspended)
    BY TurnsType DEF One, SyncTypeOK
  <2>5. Tokens(t)' = Turns(t)' + One(t \in Suspended)'
    BY DEF Tokens, Turns, Suspended
  <2>6. Occurrences(act, t) = Occurrences(active_rq, t) + One(t \in Range(released))
    BY <1>7
  <2>7. CASE t = a
    <3>1. One(t \in Suspended) = 0
      BY <1>1, <2>7 DEF One
    <3> QED
      BY <1>1, <2>1, <2>3, <2>4, <2>5, <2>6, <2>7, <3>1
  <2>8. CASE t # a
    <3>1. One(a = t) = 0
      BY <2>8 DEF One
    <3> QED
      BY <2>1, <2>2, <2>3, <2>4, <2>5, <2>6, <2>8, <3>1
  <2> QED
    BY <2>7, <2>8
<1>9. /\ Live' = Live \ {a} /\ created' \subseteq Thread
      /\ zombie_thr_list' \cup dead_thr_list' \subseteq created'
  BY <1>1, <1>2 DEF Live, TurnsInv, SyncTypeOK, TypeOK
<1>10. \A t \in Thread \ Live : Tokens(t) = 0 /\ pc[t] = "user"
  BY DEF TurnsInv
<1>11. \A t \in Thread : IF t \in Live'
                         THEN Tokens(t)' = IF t \in Live THEN Tokens(t) ELSE 1
                         ELSE Tokens(t)' = 0 /\ pc[t] = "user"
  BY <1>1, <1>8, <1>9, <1>10
<1>12. /\ NoDuplicates(sleep_thr_list') /\ NoDuplicates(join_thr_list')
       /\ Range(sleep_thr_list') \cap Range(join_thr_list') = {}
  BY <1>2, <1>3, <1>4
<1> QED
  BY <1>1, <1>2, <1>9, <1>11, <1>12, SchedulerTurns

\* A clock tick: the sleepers that wake are queued to run, and so is the
\* running thread when another one takes its place.
LEMMA TickTurns ==
  ASSUME SyncTypeOK, MonInv, TurnsInv, ClockTick, Running'
  PROVE  TurnsInv'
<1>1. Running /\ active_thr \in Thread /\ UNCHANGED syncVars /\ Tick
  BY DEF ClockTick, Tick, TickKeep, TickPreempt, TickExpire, TickWakes, SyncTypeOK, TypeOK
<1>2. PICK a \in Thread : a = active_thr
  BY <1>1
<1>3. /\ sleep_thr_list' = KeepOnly(sleep_thr_list, Thread \ Due)
      /\ UNCHANGED <<created, join_thr_list, zombie_thr_list, dead_thr_list>>
  BY <1>1 DEF Tick, TickKeep, TickPreempt, TickExpire, TickWakes
<1>4. /\ sleep_thr_list \in Seq(Thread) /\ join_thr_list \in Seq(Thread)
      /\ NoDuplicates(sleep_thr_list) /\ NoDuplicates(join_thr_list)
      /\ Range(sleep_thr_list) \cap Range(join_thr_list) = {}
      /\ Range(sleep_thr_list) \subseteq Thread /\ Due \subseteq Range(sleep_thr_list)
  <2>1. sleep_thr_list \in Seq(Thread) /\ join_thr_list \in Seq(Thread)
    BY DEF SyncTypeOK, TypeOK
  <2>2. Range(sleep_thr_list) \subseteq Thread
    BY <2>1 DEF Range
  <2>3. Due \subseteq Range(sleep_thr_list)
    BY DEF Due
  <2> QED
    BY <1>1, <2>1, <2>2, <2>3 DEF TurnsInv
<1>5. Range(sleep_thr_list') = Range(sleep_thr_list) \ Due /\ NoDuplicates(sleep_thr_list')
  <2>1. /\ Range(sleep_thr_list') = Range(sleep_thr_list) \cap (Thread \ Due)
        /\ NoDuplicates(sleep_thr_list')
    BY <1>3, <1>4, KeepOnlyRange
  <2> QED
    BY <1>4, <2>1
<1>6. active_rq \in [Prio -> Seq(Thread)] /\ expired_rq \in [Prio -> Seq(Thread)]
      /\ WokenRq \in [Prio -> Seq(Thread)]
  BY TickedType DEF SyncTypeOK, TypeOK, Runqueues
<1>7. \A t : Occurrences(WokenRq, t) = Occurrences(active_rq, t) + One(t \in Due)
  <2> DEFINE woken == KeepOnly(sleep_thr_list, Due)
             prio == [t \in Thread |-> pcb[t].priority]
  <2>1. woken \in Seq(Thread) /\ NoDuplicates(woken) /\ Range(woken) = Due
    <3>1. /\ woken \in Seq(Thread) /\ NoDuplicates(woken)
          /\ Range(woken) = Range(sleep_thr_list) \cap Due
      BY <1>4, KeepOnlyRange
    <3> QED
      BY <1>4, <3>1
  <2>2. prio \in [Thread -> Prio]
    BY PCBFields DEF SyncTypeOK, TypeOK
  <2>3. WokenRq = rq_inserir_todas(active_rq, woken, prio)
    BY DEF WokenRq
  <2> HIDE DEF woken, prio
  <2>4. PICK w \in Seq(Thread), pr \in [Thread -> Prio] :
          /\ NoDuplicates(w) /\ Range(w) = Due
          /\ WokenRq = rq_inserir_todas(active_rq, w, pr)
    BY <2>1, <2>2, <2>3
  <2>5. \A t : Occurrences(rq_inserir_todas(active_rq, w, pr), t)
                 = Occurrences(active_rq, t) + One(t \in Range(w))
    BY <1>6, <2>4, QueuedTurns
  <2> QED
    BY <2>4, <2>5
<1>8. \A t \in Thread : Turns(t)' = Turns(t) + One(t \in Due)
  <2> SUFFICES ASSUME NEW t \in Thread PROVE Turns(t)' = Turns(t) + One(t \in Due)
    OBVIOUS
  <2>1. /\ Turns(t) = Occurrences(active_rq, t) + Occurrences(expired_rq, t) + One(a = t)
        /\ Occurrences(active_rq, t) \in Nat /\ Occurrences(expired_rq, t) \in Nat
        /\ One(a = t) \in {0, 1} /\ One(t \in Due) \in {0, 1}
    BY <1>2, TurnsType DEF Turns, One, SyncTypeOK
  <2>2. Occurrences(WokenRq, t) = Occurrences(active_rq, t) + One(t \in Due)
    BY <1>7
  <2>3. CASE TickKeep
    <3>1. Turns(t)' = Occurrences(WokenRq, t) + Occurrences(expired_rq, t) + One(a = t)
      BY <1>2, <2>3 DEF TickKeep, Turns
    <3> QED
      BY <2>1, <2>2, <3>1
  <2>4. ASSUME NEW q \in Prio, RunNext(rq_inserir(WokenRq, a, q), expired_rq, "LOW")
        PROVE  Turns(t)' = Turns(t) + One(t \in Due)
    <3>1. rq_inserir(WokenRq, a, q) \in Runqueues /\ expired_rq \in Runqueues
      BY <1>6, InserirRange DEF Runqueues
    <3>2. Turns(t)' = Occurrences(rq_inserir(WokenRq, a, q), t) + Occurrences(expired_rq, t)
      BY <1>1, <2>4, <3>1, RunNextTurns
    <3>3. Occurrences(rq_inserir(WokenRq, a, q), t) = Occurrences(WokenRq, t) + One(a = t)
      BY <1>6, InserirOccurrences DEF One
    <3> QED
      BY <2>1, <2>2, <3>2, <3>3
  <2>5. ASSUME NEW q \in Prio, RunNext(WokenRq, rq_inserir(expired_rq, a, q), "LOW")
        PROVE  Turns(t)' = Turns(t) + One(t \in Due)
    <3>1. rq_inserir(expired_rq, a, q) \in Runqueues /\ WokenRq \in Runqueues
      BY <1>6, InserirRange DEF Runqueues
    <3>2. Turns(t)' = Occurrences(WokenRq, t) + Occurrences(rq_inserir(expired_rq, a, q), t)
      BY <1>1, <2>5, <3>1, RunNextTurns
    <3>3. Occurrences(rq_inserir(expired_rq, a, q), t) = Occurrences(expired_rq, t) + One(a = t)
      <4>1. Occurrences(rq_inserir(expired_rq, a, q), t)
               = Occurrences(expired_rq, t) + (IF a = t THEN 1 ELSE 0)
        <5>1. expired_rq \in [Prio -> Seq(Thread)] /\ a \in Thread /\ q \in Prio
          BY <1>2, <1>6
        <5> QED
          BY <5>1, InserirOccurrences
      <4> QED
        BY <4>1 DEF One
    <3> QED
      BY <2>1, <2>2, <3>2, <3>3
  <2>6. CASE TickPreempt
    <3>1. pcb[a].priority \in Prio
      BY PCBFields DEF SyncTypeOK, TypeOK
    <3> QED
      BY <1>2, <2>4, <2>6, <3>1 DEF TickPreempt
  <2>7. CASE TickExpire
    <3> DEFINE p == Recalcular([pcb[a] EXCEPT !.quantum = 0])
    <3>1. p.priority \in Prio
      <4>1. pcb[a] \in PCB
        BY DEF SyncTypeOK, TypeOK
      <4>2. 0 \in 0 .. MaxQuantum
        BY ConstantsType
      <4>3. [pcb[a] EXCEPT !.quantum = 0] \in PCB
        BY <4>1, <4>2 DEF PCB
      <4>4. p \in PCB
        BY <4>3, RecalcularProperties
      <4> QED
        BY <4>4, PCBFields
    <3>2. RunNext(WokenRq, rq_inserir(expired_rq, a, p.priority), "LOW")
      BY <1>2, <2>7 DEF TickExpire, Retire
    <3> HIDE DEF p
    <3> QED
      BY <2>5, <3>1, <3>2
  <2> QED
    BY <1>1, <2>3, <2>6, <2>7 DEF Tick
<1>9. \A t : One(t \in Suspended)' + One(t \in Due) = One(t \in Suspended)
  <2>1. Suspended' = Suspended \ Due /\ Due \subseteq Suspended
    BY <1>3, <1>4, <1>5 DEF Suspended
  <2> QED
    BY <2>1 DEF One
<1>10. ASSUME NEW t \in Thread
       PROVE  Turns(t)' + One(t \in Suspended)' = Turns(t) + One(t \in Suspended)
  <2>1. /\ Turns(t) \in Nat /\ One(t \in Suspended) \in {0, 1}
        /\ One(t \in Suspended)' \in {0, 1} /\ One(t \in Due) \in {0, 1}
    BY TurnsType DEF One, SyncTypeOK
  <2>2. /\ Turns(t)' = Turns(t) + One(t \in Due)
        /\ One(t \in Suspended)' + One(t \in Due) = One(t \in Suspended)
    BY <1>8, <1>9
  <2> QED
    BY <2>1, <2>2
<1>11. Range(sleep_thr_list') \cap Range(join_thr_list') = {} /\ NoDuplicates(join_thr_list')
  BY <1>3, <1>4, <1>5
<1> QED
  BY <1>1, <1>3, <1>5, <1>10, <1>11, TurnsMove

-----------------------------------------------------------------------------
(* The invariant.                                                          *)

LEMMA SyncInitInv == SyncInit => SyncInv
<1> SUFFICES ASSUME SyncInit PROVE SyncInv
  OBVIOUS
<1>1. SyncTypeOK
  <2>1. TypeOK
    BY InitType DEF SyncInit
  <2> QED
    BY <2>1 DEF SyncInit, SyncTypeOK, Label
<1>2. \A t \in Thread : ~Blocked(t) /\ ~OwesPark(t) /\ ~OwesPick(t) /\ ~Awaiting(t)
  BY DEF SyncInit, Blocked, OwesPark, OwesPick, Awaiting, Range
<1>3. MonInv
  <2>1. LabelsOK
    BY DEF SyncInit, LabelsOK
  <2>2. ListedBlock
    BY DEF SyncInit, ListedBlock, NoDuplicates, Range
  <2>3. BlockedListed /\ WaiterListed
    BY <1>2 DEF SyncInit, BlockedListed, WaiterListed
  <2>4. OwnersOK /\ MutualExclusion /\ NoStrandedWaiter
    BY ThreadAssumption DEF SyncInit, OwnersOK, MutualExclusion, NoStrandedWaiter
  <2>5. ListedAreBlocked
    BY DEF SyncInit, ListedAreBlocked, NoDuplicates, Range
  <2> QED
    BY <2>1, <2>2, <2>3, <2>4, <2>5 DEF MonInv, ListsOK
<1>4. TurnsInv
  <2>1. /\ created = {Main} /\ active_thr = Main /\ zombie_thr_list = {} /\ dead_thr_list = {}
        /\ sleep_thr_list = << >> /\ join_thr_list = << >>
        /\ rq_vazia(active_rq) /\ rq_vazia(expired_rq)
    BY MelhorPrio DEF SyncInit, Init, criar_runqueue
  <2>2. \A t : Tokens(t) = One(t = Main)
    <3>1. \A t : Occurrences(active_rq, t) = 0 /\ Occurrences(expired_rq, t) = 0
      BY <1>1, <2>1, OccurrencesType DEF SyncTypeOK, TypeOK
    <3>2. \A t : One(t \in Range(sleep_thr_list) \cup Range(join_thr_list)) = 0
      BY <2>1 DEF One, Range
    <3> QED
      BY <2>1, <3>1, <3>2 DEF Tokens, One
  <2>3. NoDuplicates(sleep_thr_list) /\ NoDuplicates(join_thr_list)
        /\ Range(sleep_thr_list) \cap Range(join_thr_list) = {}
    BY <2>1 DEF NoDuplicates, Range
  <2>4. TurnsBalance
    BY <1>2, <2>1, <2>2, ThreadAssumption DEF TurnsBalance, One
  <2>5. \A t \in Thread \ Live : Tokens(t) = 0 /\ pc[t] = "user"
    BY <2>1, <2>2 DEF Live, One, SyncInit
  <2> QED
    BY <2>1, <2>3, <2>4, <2>5 DEF TurnsInv
<1> QED
  BY <1>1, <1>3, <1>4 DEF SyncInv

LEMMA SyncMonNext ==
  ASSUME SyncInv, [SyncNext]_allVars
  PROVE  MonInv'
<1> USE DEF SyncInv
<1>1. ASSUME NEW m \in Mon, CallLock(m) \/ CallUnlock(m) \/ CallWait(m) \/ CallSignal(m)
      PROVE  MonInv'
  BY <1>1, CallLockMon, CallUnlockMon, CallWaitMon, CallSignalMon
<1>2. CASE Unpark
  <2>1. PICK a \in Thread : a = active_thr /\ pc[a] = "parked"
    BY <1>2, ActorNamed DEF Unpark, MonInv
  <2>2. ~OwesPark(a) /\ ~OwesPick(a) /\ Running
    BY <1>2, <2>1 DEF OwesPark, OwesPick, Unpark, At
  <2>3. ~Awaiting(a)
    BY <2>1, <2>2, RunningTurn
  <2> QED
    BY <1>2, <2>1, <2>3, UnparkMon
<1>3. CASE OpStep /\ ~Unpark
  BY <1>3, TestAndSetMon, LockFreeMon, LockBusyMon, ParkMon, UnlockFreeMon, UnlockHandOffMon,
     UnlockYieldMon, UnlockPickMon, UnlockSwitchMon, SignalBodyMon DEF OpStep
<1>4. CASE UNCHANGED syncVars
  BY <1>4, MonUntouched
<1> QED
  BY <1>1, <1>2, <1>3, <1>4
     DEF SyncNext, SyncCall, Spin, SchedCall, ClockTick, TickWhileSwitching, SyncOver, allVars

LEMMA SyncTurnsNext ==
  ASSUME SyncInv, [SyncNext]_allVars, Running'
  PROVE  TurnsInv'
<1> USE DEF SyncInv
<1>1. Running
  BY DEF SyncNext, SyncCall, OpStep, Spin, SyncOver, SchedCall, ClockTick, TickWhileSwitching,
         CallLock, CallUnlock, CallWait, CallSignal, LockTAS, UnlockTAS, SignalTAS, TestAndSet,
         LockFree, LockBusy, Park, Unpark, UnlockFree, UnlockHandOff, UnlockYield, UnlockPick,
         UnlockSwitch, SignalBody, At, Tick, TickKeep, TickPreempt, TickExpire, TickWakes,
         allVars, vars, Running
<1>2. ASSUME NEW m \in Mon, CallLock(m) \/ CallUnlock(m) \/ CallWait(m) \/ CallSignal(m)
      PROVE  TurnsInv'
  BY <1>1, <1>2, CallTurns, StartWaitTurns
<1>3. CASE OpStep
  BY <1>1, <1>3, TestAndSetTurns, EnterLeaveTurns, StartWaitTurns, ParkTurns, UnlockHandOffTurns,
     UnlockYieldTurns, UnlockPickTurns, UnlockSwitchTurns, SignalBodyTurns DEF OpStep
<1>4. CASE SchedCall
  <2>1. UNCHANGED syncVars
    BY <1>4 DEF SchedCall
  <2>2. ASSUME NEW t \in Thread, NEW p \in CreatePrios, Create(t, p)
        PROVE  TurnsInv'
    BY <1>1, <2>1, <2>2, CreateTurns
  <2> QED
    BY <1>1, <1>4, <2>2, StayingCallTurns, SuspendTurns, ExitTurns DEF SchedCall
<1>5. CASE ClockTick
  BY <1>1, <1>5, TickTurns
<1>6. CASE TickWhileSwitching
  BY <1>6 DEF TickWhileSwitching, Running
<1>7. CASE UNCHANGED allVars
  <2>1. UNCHANGED vars /\ UNCHANGED syncVars
    BY <1>7 DEF allVars
  <2>2. /\ \A t : Turns(t)' = Turns(t) /\ Suspended' = Suspended
        /\ UNCHANGED <<created, sleep_thr_list, join_thr_list, zombie_thr_list, dead_thr_list>>
    BY <2>1 DEF vars, Turns, Suspended
  <2>3. /\ NoDuplicates(sleep_thr_list') /\ NoDuplicates(join_thr_list')
        /\ Range(sleep_thr_list') \cap Range(join_thr_list') = {}
    BY <1>1, <2>2 DEF TurnsInv
  <2> QED
    BY <1>1, <2>1, <2>2, <2>3, TurnsMove DEF One
<1> QED
  BY <1>2, <1>3, <1>4, <1>5, <1>6, <1>7 DEF SyncNext, SyncCall, Spin, SyncOver

\* The inductive invariant: the lists, the owners, the labels and, as long as
\* the process runs, the turns agree.
THEOREM SyncInvariant == SyncSpec => []SyncInv
<1>1. SyncInv /\ [SyncNext]_allVars => SyncInv'
  BY SyncTypeNext, SyncMonNext, SyncTurnsNext DEF SyncInv, MonInv
<1> QED
  BY SyncInitInv, <1>1, PTL DEF SyncSpec

-----------------------------------------------------------------------------
(* What the invariant gives.                                               *)

\* The variables of the mutexes and monitors keep their types, and with them
\* those of the scheduler below.
THEOREM SyncTypeCorrect == SyncSpec => []SyncTypeOK
<1>1. SyncInv => SyncTypeOK
  BY DEF SyncInv
<1> QED
  BY SyncInvariant, <1>1, PTL

\* sthread_mutex_lock, sthread_monitor_enter and sthread_monitor_wait let a
\* thread in only as the owner of the mutex, and it stays the owner until it
\* unlocks or waits, whatever ticks come: no two threads are inside at once.
THEOREM MonitorsExclude == SyncSpec => []MutualExclusion
<1>1. SyncInv => MutualExclusion
  BY DEF SyncInv, MonInv
<1> QED
  BY SyncInvariant, <1>1, PTL

\* sthread_mutex_unlock frees a mutex only when no thread is queued for it, and
\* sthread_mutex_lock queues a thread only for a mutex that is taken.
THEOREM NoWaiterIsStranded == SyncSpec => []NoStrandedWaiter
<1>1. SyncInv => NoStrandedWaiter
  BY DEF SyncInv, MonInv
<1> QED
  BY SyncInvariant, <1>1, PTL

\* However a thread is preempted between its registration as a waiter, the
\* hand-over of the mutex and the switch of sthread_mutex_lock, or in the
\* preemption inside sthread_mutex_unlock, it gets as many turns of the CPU as
\* it needs: no wake-up is lost, none is spent twice.
THEOREM TurnsAreBalanced == SyncSpec => []TurnsBalance
<1>1. SyncInv => TurnsBalance
  BY DEF SyncInv, TurnsInv, TurnsBalance
<1> QED
  BY SyncInvariant, <1>1, PTL

\* sthread_dump lists as blocked only threads that wait in a monitor, once each.
THEOREM DumpListsBlocked == SyncSpec => []ListedAreBlocked
<1>1. SyncInv => ListedAreBlocked
  BY DEF SyncInv, MonInv
<1> QED
  BY SyncInvariant, <1>1, PTL

-----------------------------------------------------------------------------
(* Each monitor implements Monitor.                                        *)

MonitorStep(m) == Mtr(m)!MonitorNext \/ UNCHANGED Mtr(m)!monitorVars

\* The threads that wait in monitor m, but for an owner that has just called
\* sthread_monitor_wait.
Waiting(m) == KeepOnly(cond[m], Thread \ {thr[m]})

\* That one is the last of the threads in wait.
OwnerLast ==
    \A m \in Mon : thr[m] \in Range(cond[m])
                      => \E s \in Seq(Thread) : cond[m] = Append(s, thr[m])

\* The owner is left out of a list it is not in, or is the last of.
LEMMA LeaveOutOwner ==
  ASSUME NEW c \in Seq(Thread), NEW o, o \notin Range(c)
  PROVE  /\ KeepOnly(c, Thread \ {o}) = c
         /\ o \in Thread => KeepOnly(Append(c, o), Thread \ {o}) = c
<1>1. Range(c) \subseteq Thread
  BY DEF Range
<1>2. Range(c) \subseteq Thread \ {o} /\ o \notin Thread \ {o}
  BY <1>1
<1> QED
  BY <1>2, KeepOnlyAll, KeepOnlyButLast

\* What a step of Monitor is, in terms of the variables of Sync.
LEMMA EntersMonitor ==
  ASSUME NEW m \in Mon, NEW t \in Thread,
         t # thr[m], t \notin Range(queue[m]) \cup Range(Waiting(m)),
         IF thr[m] = NULL
         THEN thr'[m] = t /\ queue'[m] = queue[m]
         ELSE queue'[m] = Append(queue[m], t) /\ thr'[m] = thr[m],
         Waiting(m)' = Waiting(m)
  PROVE  MonitorStep(m)
BY DEF MonitorStep, Waiting, Mtr!MonitorNext, Mtr!Enter, Mtr!Outside, Mtr!Range, Range

LEMMA HandsOverMonitor ==
  ASSUME NEW m \in Mon, thr[m] # NULL,
         IF queue[m] = << >>
         THEN thr'[m] = NULL /\ queue'[m] = queue[m]
         ELSE thr'[m] = Head(queue[m]) /\ queue'[m] = Tail(queue[m]),
         \/ Waiting(m)' = Waiting(m)
         \/ Waiting(m)' = Append(Waiting(m), thr[m])
  PROVE  MonitorStep(m)
BY DEF MonitorStep, Waiting, Mtr!MonitorNext, Mtr!Leave, Mtr!Wait, Mtr!HandOver

LEMMA SignalsMonitor ==
  ASSUME NEW m \in Mon, thr[m] # NULL, Waiting(m) # << >>,
         Waiting(m)' = Tail(Waiting(m)),
         queue'[m] = Append(queue[m], Head(Waiting(m))), thr'[m] = thr[m]
  PROVE  MonitorStep(m)
BY DEF MonitorStep, Waiting, Mtr!MonitorNext, Mtr!Signal

\* A step that changes nothing of a monitor that Monitor sees.
LEMMA SameMonitor ==
  ASSUME NEW m \in Mon, thr'[m] = thr[m], queue'[m] = queue[m], Waiting(m)' = Waiting(m)
  PROVE  MonitorStep(m)
BY DEF MonitorStep, Waiting, Mtr!monitorVars

LEMMA OtherMonitor ==
  ASSUME OwnerLast, NEW m \in Mon,
         thr'[m] = thr[m], queue'[m] = queue[m], cond'[m] = cond[m]
  PROVE  /\ MonitorStep(m)
         /\ thr'[m] \in Range(cond'[m])
               => \E s \in Seq(Thread) : cond'[m] = Append(s, thr'[m])
<1>1. Waiting(m)' = Waiting(m)
  BY DEF Waiting
<1>2. MonitorStep(m)
  BY <1>1, SameMonitor
<1> QED
  BY <1>2 DEF OwnerLast

LEMMA LockImplements ==
  ASSUME SyncInv, OwnerLast, LockFree \/ LockBusy
  PROVE  OwnerLast' /\ \A n \in Mon : MonitorStep(n)
<1> USE DEF SyncInv, SyncTypeOK, MonInv
<1>1. PICK a \in Thread : a = active_thr /\ on[a] = MyMon /\ pc[a] = "lockBody" /\ MyMon \in Mon
  <2>1. CASE LockFree
    BY <2>1, ActorNamed DEF LockFree
  <2>2. CASE LockBusy
    BY <2>2, ActorNamed DEF LockBusy
  <2> QED
    BY <2>1, <2>2
<1>2. PICK m \in Mon : m = MyMon
  BY <1>1
<1>3. on[a] = m /\ m \notin holds[a] /\ ~inWait[a] /\ a # NULL
  BY <1>1, <1>2, ThreadAssumption DEF LabelsOK, Unlocking
<1>4. ~Blocked(a)
  BY <1>1, <1>3 DEF Blocked, OwesPark
<1>5. a \notin Range(queue[m]) /\ a \notin Range(cond[m]) /\ thr[m] # a
  BY <1>1, <1>3, <1>4, NotAwaiting DEF OwnersOK
<1>6. NULL \notin Range(cond[m]) /\ Range(cond[m]) \subseteq Thread /\ cond[m] \in Seq(Thread)
  BY ThreadAssumption DEF Range
<1>7. UNCHANGED cond
      /\ IF thr[m] = NULL
         THEN thr' = [thr EXCEPT ![m] = a] /\ UNCHANGED queue
         ELSE queue' = [queue EXCEPT ![m] = Append(@, a)] /\ UNCHANGED thr
  BY <1>1, <1>2 DEF LockFree, LockBusy, MutexFree
<1>8. Waiting(m)' = Waiting(m)
  <2>1. CASE thr[m] = NULL
    <3>1. KeepOnly(cond[m], Thread \ {NULL}) = cond[m] /\ KeepOnly(cond[m], Thread \ {a}) = cond[m]
      BY <1>5, <1>6, LeaveOutOwner
    <3>2. thr'[m] = a
      BY <1>7, <2>1
    <3> QED
      BY <1>7, <2>1, <3>1, <3>2 DEF Waiting
  <2>2. CASE thr[m] # NULL
    BY <1>7, <2>2 DEF Waiting
  <2> QED
    BY <2>1, <2>2
<1>9. Range(Waiting(m)) \subseteq Range(cond[m])
  BY <1>6, KeepOnlyRange DEF Waiting
<1>10. MonitorStep(m)
  BY <1>5, <1>7, <1>8, <1>9, EntersMonitor
<1>11. thr'[m] \in Range(cond'[m])
          => \E s \in Seq(Thread) : cond'[m] = Append(s, thr'[m])
  BY <1>5, <1>7 DEF OwnerLast
<1>12. \A n \in Mon : n # m => thr'[n] = thr[n] /\ queue'[n] = queue[n] /\ cond'[n] = cond[n]
  BY <1>7
<1> QED
  BY <1>10, <1>11, <1>12, OtherMonitor DEF OwnerLast

\* sthread_monitor_wait begins: the caller is last in the list, but not waiting
\* as long as it owns the mutex.
LEMMA CallWaitImplements ==
  ASSUME SyncInv, OwnerLast, NEW m \in Mon, CallWait(m)
  PROVE  OwnerLast' /\ \A n \in Mon : MonitorStep(n)
<1> USE DEF SyncInv, SyncTypeOK, MonInv
<1>1. PICK a \in Thread : a = active_thr /\ pc[a] = "user" /\ ~inWait[a]
  BY ActorNamed DEF CallWait
<1>2. a \notin Range(cond[m])
  <2>1. ~Blocked(a)
    BY <1>1 DEF Blocked, OwesPark
  <2> QED
    BY <2>1, NotAwaiting
<1>3. cond' = [cond EXCEPT ![m] = Append(@, a)] /\ UNCHANGED <<thr, queue>> /\ thr[m] = a
  BY <1>1 DEF CallWait
<1>4. KeepOnly(cond[m], Thread \ {a}) = cond[m]
      /\ KeepOnly(Append(cond[m], a), Thread \ {a}) = cond[m]
  BY <1>2, LeaveOutOwner
<1>5. cond'[m] = Append(cond[m], a) /\ cond[m] \in Seq(Thread)
  BY <1>3
<1>6. Waiting(m)' = Waiting(m)
  BY <1>3, <1>4, <1>5 DEF Waiting
<1>7. MonitorStep(m)
  BY <1>3, <1>6, SameMonitor
<1>8. \A n \in Mon : n # m => thr'[n] = thr[n] /\ queue'[n] = queue[n] /\ cond'[n] = cond[n]
  BY <1>3
<1> QED
  BY <1>3, <1>5, <1>7, <1>8, OtherMonitor DEF OwnerLast

LEMMA UnlockImplements ==
  ASSUME SyncInv, OwnerLast, UnlockFree \/ UnlockHandOff
  PROVE  OwnerLast' /\ \A n \in Mon : MonitorStep(n)
<1> USE DEF SyncInv, SyncTypeOK, MonInv
<1>1. PICK a \in Thread : a = active_thr /\ on[a] = MyMon /\ pc[a] = "unlBody" /\ MyMon \in Mon
  <2>1. CASE UnlockFree
    BY <2>1, ActorNamed DEF UnlockFree
  <2>2. CASE UnlockHandOff
    BY <2>2, ActorNamed DEF UnlockHandOff
  <2> QED
    BY <2>1, <2>2
<1>2. PICK m \in Mon : m = MyMon
  BY <1>1
<1>3. thr[m] = a /\ a # NULL
  BY <1>1, <1>2, ThreadAssumption DEF LabelsOK
<1>4. UNCHANGED cond
      /\ IF queue[m] = << >>
         THEN thr' = [thr EXCEPT ![m] = NULL] /\ UNCHANGED queue
         ELSE /\ thr' = [thr EXCEPT ![m] = Head(queue[m])]
              /\ queue' = [queue EXCEPT ![m] = Tail(@)]
  BY <1>2 DEF UnlockFree, UnlockHandOff, NobodyQueued
<1>5. thr'[m] \notin Range(cond[m])
  <2>1. CASE queue[m] = << >>
    <3>1. thr'[m] = NULL /\ Range(cond[m]) \subseteq Thread
      BY <1>4, <2>1 DEF Range
    <3> QED
      BY <3>1, ThreadAssumption
  <2>2. CASE queue[m] # << >>
    <3>1. Head(queue[m]) \in Range(queue[m])
      BY <2>2, TailRange
    <3>2. thr'[m] = Head(queue[m])
      BY <1>4, <2>2
    <3> QED
      BY <3>1, <3>2 DEF ListsOK, ListedBlock
  <2> QED
    BY <2>1, <2>2
<1>6. Waiting(m)' = cond[m]
  <2>1. KeepOnly(cond[m], Thread \ {thr'[m]}) = cond[m]
    BY <1>5, LeaveOutOwner
  <2> QED
    BY <1>4, <2>1 DEF Waiting
<1>7. cond[m] = Waiting(m) \/ cond[m] = Append(Waiting(m), a)
  <2>1. CASE a \notin Range(cond[m])
    BY <1>3, <2>1, LeaveOutOwner DEF Waiting
  <2>2. CASE a \in Range(cond[m])
    <3>1. PICK s \in Seq(Thread) : cond[m] = Append(s, a)
      BY <1>3, <2>2 DEF OwnerLast
    <3>2. a \notin Range(s)
      <4>1. /\ Len(s) \in Nat /\ Len(cond[m]) = Len(s) + 1 /\ cond[m][Len(s) + 1] = a
            /\ \A i \in 1 .. Len(s) : cond[m][i] = s[i]
        BY <3>1, AppendProperties, LenProperties
      <4>2. NoDuplicates(cond[m])
        BY DEF ListsOK, ListedBlock
      <4>3. \A i \in 1 .. Len(s) : s[i] # a
        BY <4>1, <4>2 DEF NoDuplicates
      <4>4. Range(s) = {s[i] : i \in 1 .. Len(s)}
        BY RangeEquality
      <4> QED
        BY <4>3, <4>4
    <3>3. KeepOnly(cond[m], Thread \ {a}) = s
      BY <3>1, <3>2, LeaveOutOwner
    <3> QED
      BY <1>3, <3>1, <3>3 DEF Waiting
  <2> QED
    BY <2>1, <2>2
<1>8. MonitorStep(m)
  BY <1>3, <1>4, <1>6, <1>7, HandsOverMonitor
<1>9. \A n \in Mon : n # m => thr'[n] = thr[n] /\ queue'[n] = queue[n] /\ cond'[n] = cond[n]
  BY <1>4
<1> QED
  BY <1>4, <1>5, <1>8, <1>9, OtherMonitor DEF OwnerLast

LEMMA SignalImplements ==
  ASSUME SyncInv, OwnerLast, SignalBody
  PROVE  OwnerLast' /\ \A n \in Mon : MonitorStep(n)
<1> USE DEF SyncInv, SyncTypeOK, MonInv
<1>1. PICK a \in Thread : a = active_thr /\ on[a] = MyMon /\ pc[a] = "sigBody" /\ MyMon \in Mon
  BY ActorNamed DEF SignalBody
<1>2. PICK m \in Mon : m = MyMon
  BY <1>1
<1>3. thr[m] = a /\ a # NULL /\ a \notin Range(cond[m])
  <2>1. ~inWait[a] /\ thr[m] = a
    BY <1>1, <1>2 DEF LabelsOK, Unlocking
  <2>2. ~Blocked(a)
    BY <1>1, <2>1 DEF Blocked, OwesPark
  <2> QED
    BY <2>1, <2>2, NotAwaiting, ThreadAssumption
<1>4. UNCHANGED thr
      /\ IF cond[m] = << >>
         THEN UNCHANGED <<queue, cond>>
         ELSE /\ cond' = [cond EXCEPT ![m] = Tail(@)]
              /\ queue' = [queue EXCEPT ![m] = Append(@, Head(cond[m]))]
  BY <1>2 DEF SignalBody, Requeue
<1>5. Waiting(m) = cond[m]
  BY <1>3, LeaveOutOwner DEF Waiting
<1>6. cond'[m] \in Seq(Thread) /\ a \notin Range(cond'[m])
  <2>1. CASE cond[m] = << >>
    BY <1>3, <1>4, <2>1
  <2>2. CASE cond[m] # << >>
    <3>1. Tail(cond[m]) \in Seq(Thread) /\ Range(Tail(cond[m])) \subseteq Range(cond[m])
      BY <2>2, TailRange
    <3>2. cond'[m] = Tail(cond[m])
      BY <1>4, <2>2
    <3> QED
      BY <1>3, <3>1, <3>2
  <2> QED
    BY <2>1, <2>2
<1>7. Waiting(m)' = cond'[m]
  <2>1. KeepOnly(cond'[m], Thread \ {a}) = cond'[m]
    BY <1>6, LeaveOutOwner
  <2> QED
    BY <1>3, <1>4, <2>1 DEF Waiting
<1>8. MonitorStep(m)
  <2>1. CASE cond[m] = << >>
    BY <1>4, <1>5, <1>7, <2>1, SameMonitor
  <2>2. CASE cond[m] # << >>
    BY <1>3, <1>4, <1>5, <1>7, <2>2, SignalsMonitor
  <2> QED
    BY <2>1, <2>2
<1>9. \A n \in Mon : n # m => thr'[n] = thr[n] /\ queue'[n] = queue[n] /\ cond'[n] = cond[n]
  BY <1>4
<1> QED
  BY <1>3, <1>4, <1>6, <1>8, <1>9, OtherMonitor DEF OwnerLast

\* Every other step leaves the owners and the lists as they are.
LEMMA StepImplements ==
  ASSUME SyncInv, OwnerLast, [SyncNext]_allVars
  PROVE  OwnerLast' /\ \A n \in Mon : MonitorStep(n)
<1>1. CASE UNCHANGED <<thr, queue, cond>>
  BY <1>1, OtherMonitor DEF OwnerLast
<1>2. ASSUME NEW m \in Mon, CallLock(m) \/ CallUnlock(m) \/ CallSignal(m)
      PROVE  UNCHANGED <<thr, queue, cond>>
  BY <1>2 DEF CallLock, CallUnlock, CallSignal, monVars
<1>3. ASSUME LockTAS \/ UnlockTAS \/ SignalTAS \/ Park \/ Unpark \/ UnlockYield \/ UnlockPick
             \/ \E t \in Thread : UnlockSwitch(t)
      PROVE  UNCHANGED <<thr, queue, cond>>
  BY <1>3 DEF LockTAS, UnlockTAS, SignalTAS, TestAndSet, Park, Unpark, UnlockYield, UnlockPick,
              UnlockSwitch, monVars
<1>4. ASSUME UNCHANGED syncVars
      PROVE  UNCHANGED <<thr, queue, cond>>
  BY <1>4 DEF syncVars
<1>5. CASE OpStep
  BY <1>1, <1>3, <1>5, LockImplements, UnlockImplements, SignalImplements DEF OpStep
<1>6. CASE SyncCall
  BY <1>1, <1>2, <1>6, CallWaitImplements DEF SyncCall
<1> QED
  BY <1>1, <1>4, <1>5, <1>6
     DEF SyncNext, Spin, SchedCall, ClockTick, TickWhileSwitching, SyncOver, allVars

\* The code of sthread_mutex_lock, sthread_mutex_unlock, sthread_monitor_wait and
\* sthread_monitor_signal, with all the steps between which a tick can come,
\* behaves as the atomic operations of Monitor: entry in FIFO order, direct
\* hand-over, and no signal lost.
THEOREM MonitorsImplement == SyncSpec => ImplementsMonitor
<1> DEFINE SInv == SyncInv /\ OwnerLast
<1>1. SyncInit => SInv
  <2> SUFFICES ASSUME SyncInit PROVE SInv
    OBVIOUS
  <2>1. OwnerLast
    BY DEF SyncInit, OwnerLast, Range
  <2> QED
    BY <2>1, SyncInitInv
<1>2. SInv /\ [SyncNext]_allVars => SInv'
  BY SyncTypeNext, SyncMonNext, SyncTurnsNext, StepImplements DEF SyncInv, MonInv
<1>3. SyncInit => MonitorsInit
  <2> SUFFICES ASSUME SyncInit, NEW m \in Mon PROVE Mtr(m)!MonitorInit
    BY DEF MonitorsInit
  <2>1. cond[m] = << >> /\ thr[m] = NULL /\ queue[m] = << >>
    BY DEF SyncInit
  <2>2. KeepOnly(cond[m], Thread \ {thr[m]}) = << >>
    <3>1. cond[m] \in Seq(Thread) /\ thr[m] \notin Range(cond[m])
      BY <2>1 DEF Range
    <3>2. KeepOnly(cond[m], Thread \ {thr[m]}) = cond[m]
      BY <3>1, LeaveOutOwner
    <3> QED
      BY <2>1, <3>2
  <2> QED
    BY <2>1, <2>2 DEF Mtr!MonitorInit
<1>4. SInv /\ [SyncNext]_allVars => MonitorsStep
  BY StepImplements DEF MonitorStep, MonitorsStep
<1> HIDE DEF SInv
<1> QED
  BY <1>1, <1>2, <1>3, <1>4, PTL DEF SyncSpec, ImplementsMonitor
=============================================================================
