------------------------------- MODULE Server -------------------------------
(***************************************************************************)
(* The request loop of snfs_server/server.c: a producer thread receives    *)
(* datagrams and puts them in a ring, consumer threads take them out, run  *)
(* the handler under the readers-writers lock and reply.  One monitor      *)
(* guards the ring, and both sides wait in its single queue.  The producer *)
(* waits for a datagram inside that monitor, polling with sthread_yield.   *)
(*                                                                         *)
(* What the handlers do to the file system is not part of this module.     *)
(***************************************************************************)
EXTENDS ReadersWriters

CONSTANTS
    Producer,
    Request,         \* the datagrams the clients send, one by one
    Write,           \* those whose Service entry is OP_WRITE
    Unknown,         \* those of a type the Service table does not have
    Empty,           \* those of no bytes
    RING_SIZE        \* slots of the ring: 10 in the code

ASSUME RequestAssumption ==
    /\ Write \subseteq Request /\ Unknown \subseteq Request /\ Empty \subseteq Request
    /\ NULL \notin Request
    /\ Producer \notin Consumer \cup {NULL}
    /\ RING_SIZE \in Nat \ {0}

VARIABLES
    unsent, inbox,            \* datagrams to come; those in the socket's queue
    ring, put_pos, get_pos,   \* the ring and the static positions in it
    available_reqs,
    owner, entry, waiting,    \* the monitor mon
    polling,                  \* the producer is inside, receiving
    cpc,                      \* where each consumer is in its loop
    req_d,                    \* the request each consumer has
    replies                   \* history: the replies sent, in order

srvVars == <<unsent, inbox, ring, put_pos, get_pos, available_reqs,
             owner, entry, waiting, polling, cpc, req_d, replies>>
serverVars == <<srvVars, rwVars>>
ringVars == <<ring, put_pos, get_pos, available_reqs, owner, entry, waiting,
              polling>>

Slot == 0 .. RING_SIZE - 1

Mtx == INSTANCE Monitor WITH Thread <- Consumer \cup {Producer}

ServerInit ==
    /\ RwInit
    /\ unsent = Request
    /\ inbox = << >>
    /\ ring = [i \in Slot |-> NULL]
    /\ put_pos = 0
    /\ get_pos = 0
    /\ available_reqs = 0
    /\ owner = NULL
    /\ entry = << >>
    /\ waiting = << >>
    /\ polling = FALSE
    /\ cpc = [t \in Consumer |-> "get"]
    /\ req_d = [t \in Consumer |-> NULL]
    /\ replies = << >>

-----------------------------------------------------------------------------
(* The ring.                                                               *)

\* Mutant: the position does not wrap around.
AdvanceOnly(pos) == pos + 1

Advance(pos) == (pos + 1) % RING_SIZE

\* Mutant: off by one, so that the oldest request can be overwritten.
RingOverfull == available_reqs > RING_SIZE

RingFull == available_reqs = RING_SIZE

\* Mutant: no signal.
LeaveSilently == Mtx!Leave

\* After a request is put, and after one is taken.
SignalAndLeave == Mtx!SignalLeave

\* Mutant: every handler runs as a reader.
NoneWrites(r) == FALSE

NeedsWriteLock(r) == r \in Write

-----------------------------------------------------------------------------
\* A client's datagram reaches the socket.
Send(r) ==
    /\ r \in unsent
    /\ unsent' = unsent \ {r}
    /\ inbox' = Append(inbox, r)
    /\ UNCHANGED <<ringVars, cpc, req_d, replies, rwVars>>

-----------------------------------------------------------------------------
(* The producer.                                                           *)

ProducerEnter ==
    /\ Mtx!Enter(Producer)
    /\ UNCHANGED <<unsent, inbox, ring, put_pos, get_pos, available_reqs,
                   waiting, polling, cpc, req_d, replies, rwVars>>

\* The test of the ring being full, first and after each wait.
ProducerTest ==
    /\ owner = Producer
    /\ ~polling
    /\ IF RingFull
       THEN Mtx!Wait /\ UNCHANGED polling
       ELSE polling' = TRUE /\ UNCHANGED <<owner, entry, waiting>>
    /\ UNCHANGED <<unsent, inbox, ring, put_pos, get_pos, available_reqs,
                   cpc, req_d, replies, rwVars>>

\* A datagram with no bytes is dropped.
ReceiveEmpty ==
    /\ polling
    /\ inbox # << >>
    /\ Head(inbox) \in Empty
    /\ inbox' = Tail(inbox)
    /\ polling' = FALSE
    /\ Mtx!Leave
    /\ UNCHANGED <<unsent, ring, put_pos, get_pos, available_reqs, cpc,
                   req_d, replies, rwVars>>

Receive ==
    /\ polling
    /\ inbox # << >>
    /\ Head(inbox) \notin Empty
    /\ inbox' = Tail(inbox)
    /\ ring' = [ring EXCEPT ![put_pos] = Head(inbox)]
    /\ put_pos' = Advance(put_pos)
    /\ available_reqs' = available_reqs + 1
    /\ polling' = FALSE
    /\ SignalAndLeave
    /\ UNCHANGED <<unsent, get_pos, cpc, req_d, replies, rwVars>>

\* Nothing has come: the producer yields and tries again, still inside mon.
Poll == polling /\ inbox = << >> /\ UNCHANGED serverVars

-----------------------------------------------------------------------------
(* A consumer.                                                             *)

ConsumerEnter(t) ==
    /\ cpc[t] = "get"
    /\ Mtx!Enter(t)
    /\ UNCHANGED <<unsent, inbox, ring, put_pos, get_pos, available_reqs,
                   waiting, polling, cpc, req_d, replies, rwVars>>

ConsumerWait(t) ==
    /\ owner = t
    /\ available_reqs = 0
    /\ Mtx!Wait
    /\ UNCHANGED <<unsent, inbox, ring, put_pos, get_pos, available_reqs,
                   polling, cpc, req_d, replies, rwVars>>

\* get_req leaves the slot as it is.
Take(t) ==
    /\ owner = t
    /\ available_reqs # 0
    /\ req_d' = [req_d EXCEPT ![t] = ring[get_pos]]
    /\ get_pos' = Advance(get_pos)
    /\ available_reqs' = available_reqs - 1
    /\ cpc' = [cpc EXCEPT ![t] = IF ring[get_pos] \in Unknown
                                 THEN "reply" ELSE "dispatch"]
    /\ SignalAndLeave
    /\ UNCHANGED <<unsent, inbox, ring, put_pos, polling, replies, rwVars>>

Dispatch(t) ==
    /\ cpc[t] = "dispatch"
    /\ IF NeedsWriteLock(req_d[t]) THEN CallWriteLock(t) ELSE CallReadLock(t)
    /\ cpc' = [cpc EXCEPT ![t] = "handle"]
    /\ UNCHANGED <<unsent, inbox, ringVars, req_d, replies>>

\* The handler returns.
Handled(t) ==
    /\ cpc[t] = "handle"
    /\ CallReadUnlock(t) \/ CallWriteUnlock(t)
    /\ cpc' = [cpc EXCEPT ![t] = "reply"]
    /\ UNCHANGED <<unsent, inbox, ringVars, req_d, replies>>

Reply(t) ==
    /\ cpc[t] = "reply"
    /\ rwpc[t] = "out"
    /\ replies' = Append(replies, req_d[t])
    /\ req_d' = [req_d EXCEPT ![t] = NULL]
    /\ cpc' = [cpc EXCEPT ![t] = "get"]
    /\ UNCHANGED <<unsent, inbox, ringVars, rwVars>>

LockStep(t) == RwStep(t) /\ UNCHANGED srvVars

-----------------------------------------------------------------------------
ProducerStep == ProducerEnter \/ ProducerTest \/ ReceiveEmpty \/ Receive

ConsumerStep(t) == ConsumerEnter(t) \/ ConsumerWait(t) \/ Take(t) \/ Dispatch(t)
                   \/ Handled(t) \/ Reply(t) \/ LockStep(t)

ServerNext ==
    \/ \E r \in Request : Send(r)
    \/ ProducerStep
    \/ Poll
    \/ \E t \in Consumer : ConsumerStep(t)

ServerSpec == ServerInit /\ [][ServerNext]_serverVars

\* Every thread gets its turns, and a datagram that can be received is.
Fairness ==
    /\ WF_serverVars(ProducerStep)
    /\ \A t \in Consumer : WF_serverVars(ConsumerStep(t))

-----------------------------------------------------------------------------
(* Properties.                                                             *)

ServerTypeOK ==
    /\ RwTypeOK
    /\ unsent \subseteq Request
    /\ inbox \in Seq(Request)
    /\ ring \in [Slot -> Request \cup {NULL}]
    /\ put_pos \in Slot /\ get_pos \in Slot
    /\ available_reqs \in 0 .. RING_SIZE
    /\ owner \in Consumer \cup {Producer, NULL}
    /\ entry \in Seq(Consumer \cup {Producer})
    /\ waiting \in Seq(Consumer \cup {Producer})
    /\ polling \in BOOLEAN
    /\ cpc \in [Consumer -> {"get", "dispatch", "handle", "reply"}]
    /\ req_d \in [Consumer -> Request \cup {NULL}]
    /\ replies \in Seq(Request)

\* The requests in the ring, oldest first.
InRing == [i \in 1 .. available_reqs |-> ring[(get_pos + i - 1) % RING_SIZE]]

\* No request is lost, answered twice, or overwritten in the ring before it is
\* taken: each one is at exactly one point of its way.
EachRequestOnce ==
    LET places == <<unsent \ Empty, Range(inbox) \ Empty, Range(InRing),
                    {req_d[t] : t \in Consumer} \ {NULL}, Range(replies)>>
    IN  /\ \A i, j \in 1 .. 5 : i # j => places[i] \cap places[j] = {}
        /\ Request \ Empty \subseteq UNION Range(places)
        /\ Cardinality(Range(replies)) = Len(replies)
        /\ \A t, u \in Consumer :
              t # u /\ req_d[t] # NULL => req_d[t] # req_d[u]

\* A request that writes runs alone; a read is never handled beside it.
WritesRunAlone ==
    \A t, u \in Consumer :
        t # u /\ req_d[t] \in Write /\ rwpc[t] \in {"reading", "writing"}
          => rwpc[u] \notin {"reading", "writing"}

\* The wait queue of mon is shared and a signal wakes only its head.  That is
\* enough: the producer and a consumer never wait in it together, the producer
\* waits only while the ring is full, and a consumer left waiting while there
\* are requests has another consumer on its way in, who will signal it.
OneQueueSuffices ==
    /\ Producer \in Range(waiting) =>
           available_reqs = RING_SIZE /\ Range(waiting) = {Producer}
    /\ available_reqs > 0 /\ Range(waiting) \cap Consumer # {} =>
           Consumer \cap ({owner} \cup Range(entry)) # {}

\* Every request received is answered.  The producer polls inside mon, so a
\* request put in the ring while every consumer is busy stays there until
\* another datagram comes: this holds only while traffic goes on.
Answered ==
    \A r \in Request \ Empty : r \in Range(inbox) ~> r \in Range(replies)
=============================================================================
