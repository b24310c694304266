----------------------------- MODULE RemoteCall -----------------------------
(***************************************************************************)
(* remote_call of snfs_lib/snfs_api.c: a client sends a request to one or  *)
(* to all of its servers and waits, without a time limit, for answers with *)
(* the request's serial number.  Sockets lose and duplicate nothing; the   *)
(* consumer threads of a server can handle its requests in any order, each *)
(* of them once (module Server).  A server may stop: then sendto to it     *)
(* fails, and nothing tells a client that already waits for it.            *)
(***************************************************************************)
EXTENDS Handlers

CONSTANTS
    Client,
    Registered,         \* the values of Num_servers: {1} after snfs_init
    READ_SERVERS_M,
    SN_RANGE,           \* serial numbers wrap around: 2^32 in the code
    MaxStops            \* bound: how many servers may stop

ASSUME RemoteAssumption ==
    /\ Registered \subseteq 1 .. 8 /\ Registered # {}
    /\ {READ_SERVERS_M, SN_RANGE} \subseteq Nat \ {0}
    /\ MaxStops \in Nat

VARIABLES
    Num_servers,        \* set by snfs_init
    up,                 \* the servers that run
    store,              \* what each server stores
    srv_box,            \* requests in each server's socket and ring
    cli_box,            \* answers in each client's socket
    next_sn, rr_index,  \* of each client, as next
    call                \* the call each client is in

rcVars == <<Num_servers, up, store, srv_box, cli_box, next_sn, rr_index, call>>

Server == 0 .. Num_servers - 1

\* No call: what is left of the last one is forgotten.
NoCall == [req |-> NoRequest, sn |-> 0, all |-> FALSE, sent |-> TRUE, got |-> << >>]

RemoteInit ==
    /\ Num_servers \in Registered
    /\ up = Server
    /\ store = [s \in Server |-> NewStore]
    /\ srv_box = [s \in Server |-> {}]
    /\ cli_box = [c \in Client |-> << >>]
    /\ next_sn = [c \in Client |-> 0]
    /\ rr_index = [c \in Client |-> 0]
    /\ call = [c \in Client |-> NoCall]

-----------------------------------------------------------------------------
(* Sending.                                                                *)

\* The servers a request goes to, in the order of the loop that sends it.
Targets(c, all) ==
    IF all THEN [i \in 1 .. Num_servers |-> i - 1]
    ELSE [k \in 1 .. Min({READ_SERVERS_M, Num_servers}) |->
             (rr_index[c] + k - 1) % Num_servers]

\* The loop ends at the first sendto that fails.
Reached(c, all) ==
    LET to == Targets(c, all)
    IN  {to[i] : i \in {j \in DOMAIN to : \A k \in 1 .. j : to[k] \in up}}

\* Mutant: the number of the next request stays.
SameNumber(sn) == sn

NextNumber(sn) == (sn + 1) % SN_RANGE

Message(c, req) == [from |-> c, sn |-> next_sn[c], req |-> req]

\* remote_call up to the wait: client c sends request req.
Issue(c, req, all) ==
    LET to == ToSet(Targets(c, all))
        sent == to \subseteq up
        msg == Message(c, req)
    IN  /\ next_sn' = [next_sn EXCEPT ![c] = NextNumber(@)]
        /\ srv_box' = [s \in Server |->
                         srv_box[s] \cup IF s \in Reached(c, all) THEN {msg} ELSE {}]
        /\ rr_index' = IF all \/ ~sent THEN rr_index
                       ELSE [rr_index EXCEPT ![c] = (@ + Cardinality(to)) % Num_servers]
        /\ call' = [call EXCEPT ![c] = [req |-> req, sn |-> next_sn[c], all |-> all,
                                        sent |-> sent, got |-> << >>]]

-----------------------------------------------------------------------------
(* A server.                                                               *)

\* The status and the body are those of the handler.  re is history.
Reply(msg, answer) == [sn |-> msg.sn, re |-> msg.req, answer |-> answer]

\* One of the requests is handled and answered.  How much later the answer comes
\* does not matter to anybody but the client that waits for it.
Handle(s, msg) ==
    /\ s \in up
    /\ msg \in srv_box[s]
    /\ LET served == Serve(store[s], msg.req)
       IN  /\ store' = [store EXCEPT ![s] = served.store]
           /\ srv_box' = [srv_box EXCEPT ![s] = @ \ {msg}]
           /\ cli_box' = [cli_box EXCEPT ![msg.from] =
                             Append(@, Reply(msg, served.answer))]
    /\ UNCHANGED <<Num_servers, up, next_sn, rr_index, call>>

\* A server ends, and what was sent to it is lost.
Stop(s) ==
    /\ s \in up
    /\ Num_servers - Cardinality(up) < MaxStops
    /\ up' = up \ {s}
    /\ srv_box' = [srv_box EXCEPT ![s] = {}]
    /\ UNCHANGED <<Num_servers, store, cli_box, next_sn, rr_index, call>>

-----------------------------------------------------------------------------
(* Receiving.                                                              *)

\* Mutant: a call that changes state ends with the first answer.
NeededOne(c) == 1

\* How many answers the call of c takes.
Needed(c) == IF call[c].all THEN Num_servers ELSE 1

Waiting(c) == call[c].req # NoRequest /\ call[c].sent

IsAnswer(c, m) == m.sn = call[c].sn

Arrived(c) == Waiting(c) /\ cli_box[c] # << >>

IsLast(c) == /\ Arrived(c)
             /\ IsAnswer(c, Head(cli_box[c]))
             /\ Len(call[c].got) + 1 >= Needed(c)

\* An answer is kept until all of them are there; one to an earlier call is
\* dropped.
Recv(c) ==
    /\ Arrived(c)
    /\ ~IsLast(c)
    /\ cli_box' = [cli_box EXCEPT ![c] = Tail(@)]
    /\ call' = IF IsAnswer(c, Head(cli_box[c]))
               THEN [call EXCEPT ![c].got = Append(@, Head(cli_box[c]).answer)]
               ELSE call
    /\ UNCHANGED <<Num_servers, up, store, srv_box, next_sn, rr_index>>

\* remote_call returns: with -1 as not every sendto worked, or with the last
\* answer it waits for.
Returns(c) == call[c].req # NoRequest /\ (~call[c].sent \/ IsLast(c))

Answers(c) == Append(call[c].got, Head(cli_box[c]).answer)

\* The first answer: what the API function returns.
Result(c) == IF call[c].sent THEN Answers(c)[1] ELSE RES_ERROR

\* "FATAL: servers returned different status!"
Diverged(c) ==
    call[c].sent /\ \E i \in DOMAIN Answers(c) : Answers(c)[i].ok # Answers(c)[1].ok

\* What remote_call leaves behind in the socket.
TakeLast(c) ==
    /\ cli_box' = IF call[c].sent THEN [cli_box EXCEPT ![c] = Tail(@)] ELSE cli_box
    /\ UNCHANGED <<Num_servers, up, store>>

\* The call is over and no other follows at once.
EndCall(c) ==
    /\ call' = [call EXCEPT ![c] = NoCall]
    /\ UNCHANGED <<srv_box, next_sn, rr_index>>

RemoteStep ==
    \/ \E s \in Server : \E msg \in srv_box[s] : Handle(s, msg)
    \/ \E s \in Server : Stop(s)
    \/ \E c \in Client : Recv(c)

-----------------------------------------------------------------------------
(* Properties.                                                             *)

\* The requests and the answers of the call that c is in.
Requests(c) == {s \in Server : \E msg \in srv_box[s] :
                                   msg.from = c /\ msg.sn = call[c].sn}
Arrivals(c) == {i \in DOMAIN cli_box[c] : cli_box[c][i].sn = call[c].sn}

\* How many servers the request was sent to.
Copies(c) == IF call[c].all THEN Num_servers ELSE Min({READ_SERVERS_M, Num_servers})

\* remote_call waits without a limit.  While every server runs, each copy of its
\* request is under way, answered or counted: none is missed, nor taken for that of
\* another server, so that it does not wait in vain; and the number tells answers
\* from those to a call that was given up, when a later sendto failed.
AnswersOnTheirWay ==
    \A c \in Client : Waiting(c) =>
        /\ \A i \in Arrivals(c) : cli_box[c][i].re = call[c].req
        /\ Len(call[c].got) < Needed(c) /\ Needed(c) <= Copies(c)
        /\ up = Server => Len(call[c].got) + Cardinality(Arrivals(c))
                           + Cardinality(Requests(c)) = Copies(c)

\* One server, or one client: with several of both, requests that change files
\* can be handled in another order by another server.  Where a server has stopped,
\* the sending of a change ends: those before it get the change, those behind it do
\* not, so that one client is enough for three servers to differ.
OneOrder == \/ Num_servers = 1
            \/ /\ up = Server \/ Num_servers = 2
               /\ \E c \in Client : \A d \in Client \ {c} : next_sn[d] = 0

\* "Envia para TODOS os N servidores", "Espera resposta de TODOS": whenever
\* nothing is under way the servers that run store the same.
ReplicasAgree ==
    OneOrder /\ (\A s \in Server : srv_box[s] = {}) =>
        \A s, r \in up : store[s] = store[r]

\* A server and FileStore: what it does with request msg is what that promises.
ServerStore(s) == INSTANCE FileStore
                      WITH Root <- ROOT, Data <- {}, kind <- store[s].kind,
                           listing <- store[s].listing, content <- store[s].content

ServesAsPromised(s, msg) ==
    \/ /\ msg.req.type = "make"
       /\ msg.req.dir \in Inode
       /\ \E i \in Inode : ServerStore(s)!Make(msg.req.dir,
              Cut(msg.req.name, MAX_FILE_NAME_SIZE - 1), i, msg.req.kind)
    \/ /\ msg.req.type = "write"
       /\ msg.req.file \in Inode
       /\ ServerStore(s)!Overwrite(msg.req.file, msg.req.offset, msg.req.data)
=============================================================================
