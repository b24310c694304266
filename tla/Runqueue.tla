------------------------------ MODULE Runqueue ------------------------------
(***************************************************************************)
(* The queues of the user-level scheduler.  A runqueue_t is an array of    *)
(* queues, one per priority; priority 0 is the best.  Everything here is a *)
(* pure operator, so that the scheduler and the proofs about it share one  *)
(* vocabulary.                                                             *)
(***************************************************************************)
EXTENDS Queue

CONSTANT NUM_PRIORITIES   \* number of priority levels: 15 in the code

ASSUME PrioritiesAssumption == NUM_PRIORITIES \in Nat \ {0}

Prio == 0 .. NUM_PRIORITIES - 1

-----------------------------------------------------------------------------
(* Runqueues.                                                              *)

criar_runqueue == [p \in Prio |-> << >>]

\* rq_melhor_prio: the lowest index whose queue is not empty, or -1.
rq_melhor_prio(rq) ==
    IF \A p \in Prio : rq[p] = << >>
    THEN -1
    ELSE CHOOSE p \in Prio : /\ rq[p] # << >>
                             /\ \A q \in Prio : q < p => rq[q] = << >>

rq_vazia(rq) == rq_melhor_prio(rq) = -1

\* rq_inserir: t goes to the tail of the queue of its priority p.
rq_inserir(rq, t, p) ==
    [q \in Prio |-> IF q = p THEN Append(rq[q], t) ELSE rq[q]]

\* The same for each thread of the sequence s in turn; prio gives the
\* priority of each.
rq_inserir_todas(rq, s, prio) ==
    [p \in Prio |-> rq[p] \o KeepOnly(s, {t \in DOMAIN prio : prio[t] = p})]

\* rq_retirar, in two halves: the thread it returns and the runqueue it
\* leaves.  Both are about a runqueue that is not empty.
rq_primeira(rq) == Head(rq[rq_melhor_prio(rq)])
rq_resto(rq) == [rq EXCEPT ![rq_melhor_prio(rq)] = Tail(@)]

\* The threads queued at some priority.
rq_threads(rq) == UNION {Range(rq[p]) : p \in Prio}

One(b) == IF b THEN 1 ELSE 0

\* The places at which t is queued, and their number: nothing in the code keeps
\* a thread from being queued more than once.
Slots(rq, t) == UNION {{<<p, i>> : i \in Positions(rq[p], {t})} : p \in Prio}
Occurrences(rq, t) == Cardinality(Slots(rq, t))
=============================================================================
