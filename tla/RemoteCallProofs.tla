-------------------------- MODULE RemoteCallProofs ---------------------------
(***************************************************************************)
(* Answers find the call they are for, for any number of clients and       *)
(* servers and all programs: a client waits for answers that are to come,  *)
(* and takes none that is to another of its requests.  The one condition   *)
(* is that a serial number is not used again while a message with it is    *)
(* still under way; without servers that stop it needs no condition.       *)
(***************************************************************************)
EXTENDS MyFs, FiniteSetTheorems, FunctionTheorems, TLAPS

-----------------------------------------------------------------------------
(* The boxes of the clients.                                               *)

IsSeq(s) == s \in Seq(ToSet(s))

\* The answers with number n.
Matching(box, n) == {i \in DOMAIN box : box[i].sn = n}

LEMMA AppendIsSeq ==
  ASSUME NEW s, IsSeq(s), NEW x
  PROVE  /\ IsSeq(Append(s, x))
         /\ Len(s) \in Nat /\ DOMAIN s = 1 .. Len(s)
         /\ DOMAIN Append(s, x) = 1 .. Len(s) + 1
         /\ \A i \in 1 .. Len(s) : Append(s, x)[i] = s[i]
         /\ Append(s, x)[Len(s) + 1] = x
         /\ Len(Append(s, x)) = Len(s) + 1
<1> DEFINE T == ToSet(s) \cup {x}
           a == Append(s, x)
<1>1. s \in Seq(T)
  BY DEF IsSeq
<1>2. /\ a \in Seq(T) /\ Len(s) \in Nat /\ DOMAIN s = 1 .. Len(s)
      /\ Len(a) = Len(s) + 1 /\ DOMAIN a = 1 .. Len(s) + 1
      /\ \A i \in 1 .. Len(s) : a[i] = s[i]
      /\ a[Len(s) + 1] = x
  BY <1>1
<1>3. a \in Seq(ToSet(a))
  <2>1. \A i \in 1 .. Len(a) : a[i] \in ToSet(a)
    BY <1>2 DEF ToSet
  <2> QED
    BY <1>2, <2>1
<1> QED
  BY <1>2, <1>3 DEF IsSeq

LEMMA TailIsSeq ==
  ASSUME NEW s, IsSeq(s), s # << >>
  PROVE  /\ IsSeq(Tail(s))
         /\ Len(s) \in Nat \ {0} /\ DOMAIN s = 1 .. Len(s)
         /\ DOMAIN Tail(s) = 1 .. Len(s) - 1
         /\ \A i \in 1 .. Len(s) - 1 : Tail(s)[i] = s[i + 1]
         /\ Head(s) = s[1]
<1> DEFINE T == ToSet(s)
           r == Tail(s)
<1>1. s \in Seq(T) /\ s # << >>
  BY DEF IsSeq
<1> HIDE DEF T
<1>2. /\ r \in Seq(T) /\ Len(s) \in Nat \ {0} /\ DOMAIN s = 1 .. Len(s)
      /\ Len(r) = Len(s) - 1 /\ DOMAIN r = 1 .. Len(s) - 1
      /\ \A i \in 1 .. Len(s) - 1 : r[i] = s[i + 1]
      /\ Head(s) = s[1]
  BY <1>1
<1> HIDE DEF r
<1>3. r \in Seq(ToSet(r))
  <2>1. \A i \in 1 .. Len(r) : r[i] \in ToSet(r)
    BY <1>2 DEF ToSet
  <2> QED
    BY <1>2, <2>1
<1> QED
  BY <1>2, <1>3 DEF IsSeq, r

LEMMA MatchingFinite ==
  ASSUME NEW box, IsSeq(box), NEW n
  PROVE  IsFiniteSet(Matching(box, n)) /\ Cardinality(Matching(box, n)) \in Nat
<1>1. Matching(box, n) \subseteq 1 .. Len(box) /\ Len(box) \in Nat
  BY DEF Matching, IsSeq
<1>2. IsFiniteSet(1 .. Len(box))
  BY <1>1, FS_Interval
<1> QED
  BY <1>1, <1>2, FS_Subset, FS_CardinalityType

LEMMA MatchAppend ==
  ASSUME NEW box, IsSeq(box), NEW x, NEW n
  PROVE  Cardinality(Matching(Append(box, x), n))
            = Cardinality(Matching(box, n)) + (IF x.sn = n THEN 1 ELSE 0)
<1> DEFINE k == Len(box) + 1
           a == Append(box, x)
<1>1. /\ k \in Nat \ {0} /\ DOMAIN box = 1 .. k - 1 /\ DOMAIN a = 1 .. k
      /\ \A i \in 1 .. k - 1 : a[i] = box[i]
      /\ a[k] = x
  BY AppendIsSeq
<1>2. IsFiniteSet(Matching(box, n)) /\ Cardinality(Matching(box, n)) \in Nat
  BY MatchingFinite
<1> HIDE DEF a, k
<1>3. k \notin Matching(box, n)
  BY <1>1 DEF Matching
<1>4. CASE x.sn = n
  <2>1. Matching(a, n) = Matching(box, n) \cup {k}
    BY <1>1, <1>4 DEF Matching
  <2>2. Cardinality(Matching(a, n)) = Cardinality(Matching(box, n)) + 1
    BY <1>2, <1>3, <2>1, FS_AddElement
  <2> QED
    BY <1>4, <2>2 DEF a
<1>5. CASE x.sn # n
  <2>1. Matching(a, n) = Matching(box, n)
    BY <1>1, <1>5 DEF Matching
  <2> QED
    BY <1>2, <1>5, <2>1 DEF a
<1> QED
  BY <1>4, <1>5

LEMMA MatchTail ==
  ASSUME NEW box, IsSeq(box), box # << >>, NEW n
  PROVE  Cardinality(Matching(box, n))
            = Cardinality(Matching(Tail(box), n)) + (IF Head(box).sn = n THEN 1 ELSE 0)
<1> DEFINE S == Matching(Tail(box), n)
           T == Matching(box, n) \ {1}
           f == [i \in S |-> i + 1]
<1>1. /\ Len(box) \in Nat \ {0} /\ DOMAIN box = 1 .. Len(box)
      /\ DOMAIN Tail(box) = 1 .. Len(box) - 1
      /\ \A i \in 1 .. Len(box) - 1 : Tail(box)[i] = box[i + 1]
      /\ Head(box) = box[1] /\ IsSeq(Tail(box))
  BY TailIsSeq
<1>2. IsFiniteSet(S) /\ Cardinality(S) \in Nat
  BY <1>1, MatchingFinite
<1>3. S \subseteq 1 .. Len(box) - 1 /\ T \subseteq 2 .. Len(box)
  BY <1>1 DEF Matching
<1>4. \A i \in 1 .. Len(box) - 1 : i \in S <=> i + 1 \in T
  BY <1>1 DEF Matching
<1>5. Cardinality(T) = Cardinality(S) /\ IsFiniteSet(T)
  <2> HIDE DEF S, T
  <2>1. f \in [S -> T]
    BY <1>3, <1>4
  <2>2. \A i, j \in S : f[i] = f[j] => i = j
    BY <1>1, <1>3
  <2>3. \A t \in T : \E i \in S : f[i] = t
    <3> SUFFICES ASSUME NEW t \in T PROVE \E i \in S : f[i] = t
      OBVIOUS
    <3>1. t - 1 \in 1 .. Len(box) - 1 /\ (t - 1) + 1 = t
      BY <1>1, <1>3
    <3>2. t - 1 \in S
      BY <1>4, <3>1
    <3> QED
      BY <3>1, <3>2
  <2> HIDE DEF f
  <2>4. f \in Bijection(S, T)
    BY <2>1, <2>2, <2>3, Fun_IsBij
  <2>5. ExistsBijection(S, T)
    BY <2>4 DEF ExistsBijection
  <2> QED
    BY <1>2, <2>5, FS_Bijection
<1>6. CASE Head(box).sn = n
  <2>1. Matching(box, n) = T \cup {1} /\ 1 \notin T
    BY <1>1, <1>6 DEF Matching
  <2> HIDE DEF T, S
  <2>2. Cardinality(Matching(box, n)) = Cardinality(T) + 1
    BY <1>5, <2>1, FS_AddElement
  <2> QED
    BY <1>5, <1>6, <2>2 DEF S
<1>7. CASE Head(box).sn # n
  <2>1. Matching(box, n) = T
    BY <1>1, <1>7 DEF Matching
  <2> HIDE DEF T
  <2> QED
    BY <1>2, <1>5, <1>7, <2>1
<1> QED
  BY <1>6, <1>7
-----------------------------------------------------------------------------
(* The invariant.                                                          *)

IsMessage(m) == /\ m = [from |-> m.from, sn |-> m.sn, req |-> m.req]
                /\ m.from \in Client

NetTypeOK ==
    /\ Num_servers \in 1 .. 8
    /\ up \subseteq Server
    /\ DOMAIN srv_box = Server
    /\ \A s \in Server : \A m \in srv_box[s] : IsMessage(m)
    /\ DOMAIN cli_box = Client
    /\ \A c \in Client : IsSeq(cli_box[c])
    /\ next_sn \in [Client -> 0 .. SN_RANGE - 1]
    /\ rr_index \in [Client -> Server]
    /\ DOMAIN call = Client
    /\ \A c \in Client :
          /\ DOMAIN call[c] = {"req", "sn", "all", "sent", "got"}
          /\ call[c].all \in BOOLEAN
          /\ IsSeq(call[c].got)

\* What is under way with the number of the call of c is of that call.
OwnMessages(c) ==
    /\ \A s \in Server : \A m \in srv_box[s] :
          m.from = c /\ m.sn = call[c].sn => m.req = call[c].req
    /\ \A i \in Arrivals(c) : cli_box[c][i].re = call[c].req

Counted(c) ==
    Len(call[c].got) + Cardinality(Arrivals(c)) + Cardinality(Requests(c)) = Copies(c)

CallOK(c) ==
    Waiting(c) => /\ OwnMessages(c)
                  /\ Len(call[c].got) < Needed(c)
                  /\ up = Server => Counted(c)

NetInv == /\ NetTypeOK
          /\ \A s \in Server \ up : srv_box[s] = {}
          /\ \A c \in Client : CallOK(c)

\* No message under way has the number that its client uses next.
NumbersFresh ==
    \A c \in Client :
        /\ \A s \in Server : \A m \in srv_box[s] : m.from = c => m.sn # next_sn[c]
        /\ \A i \in DOMAIN cli_box[c] : cli_box[c][i].sn # next_sn[c]

LEMMA ServersAreSome ==
  ASSUME Num_servers \in 1 .. 8
  PROVE  /\ IsFiniteSet(Server) /\ Cardinality(Server) = Num_servers
         /\ 0 \in Server
<1>1. IsFiniteSet(Server) /\ Cardinality(Server) = Num_servers
  BY FS_Interval DEF Server
<1> QED
  BY <1>1 DEF Server

LEMMA ArrivalsMatch ==
  \A c \in Client : Arrivals(c) = Matching(cli_box[c], call[c].sn)
BY DEF Arrivals, Matching

LEMMA CountsAreNumbers ==
  ASSUME NetTypeOK, NEW c \in Client
  PROVE  /\ IsFiniteSet(Requests(c)) /\ Cardinality(Requests(c)) \in Nat
         /\ IsFiniteSet(Arrivals(c)) /\ Cardinality(Arrivals(c)) \in Nat
         /\ Len(call[c].got) \in Nat
<1>1. Requests(c) \subseteq Server
  BY DEF Requests
<1>2. IsFiniteSet(Requests(c)) /\ Cardinality(Requests(c)) \in Nat
  BY <1>1, ServersAreSome, FS_Subset, FS_CardinalityType DEF NetTypeOK
<1>3. IsFiniteSet(Arrivals(c)) /\ Cardinality(Arrivals(c)) \in Nat
  BY ArrivalsMatch, MatchingFinite DEF NetTypeOK
<1>4. Len(call[c].got) \in Nat
  BY DEF NetTypeOK, IsSeq
<1> QED
  BY <1>2, <1>3, <1>4

LEMMA NetInvInit == MyFsInit => NetInv
<1> SUFFICES ASSUME MyFsInit PROVE NetInv
  OBVIOUS
<1> USE DEF MyFsInit, RemoteInit
<1>1. IsSeq(<< >>)
  BY DEF IsSeq, ToSet
<1>2. Num_servers \in 1 .. 8 /\ 0 \in Server
  BY RemoteAssumption, ServersAreSome
<1>3. 0 \in 0 .. SN_RANGE - 1
  BY RemoteAssumption
<1>4. NetTypeOK
  BY <1>1, <1>2, <1>3 DEF NetTypeOK, NoCall
<1>5. \A c \in Client : CallOK(c)
  BY DEF CallOK, Waiting, NoCall
<1> QED
  BY <1>4, <1>5 DEF NetInv

-----------------------------------------------------------------------------
(* Servers that a request is sent to.                                      *)

\* Servers are numbered round once.
LEMMA RoundOnce ==
  ASSUME NEW N \in Nat \ {0}, NEW x \in Nat, x < N + N
  PROVE  /\ x % N = (IF x < N THEN x ELSE x - N)
         /\ x % N \in 0 .. N - 1
<1>1. CASE x < N
  BY <1>1, SMTT(60)
<1>2. CASE ~(x < N)
  <2>1. x % N = x - N
    BY <1>2, SMTT(60)
  <2> QED
    BY <1>2, <2>1
<1> QED
  BY <1>1, <1>2

MinServers == Min({READ_SERVERS_M, Num_servers})

LEMMA MinServersIs ==
  ASSUME Num_servers \in 1 .. 8
  PROVE  MinServers \in 1 .. Num_servers /\ MinServers <= READ_SERVERS_M
<1>1. READ_SERVERS_M \in Nat \ {0} /\ Num_servers \in Nat \ {0}
  BY RemoteAssumption
<1>2. \E x \in {READ_SERVERS_M, Num_servers} :
         \A y \in {READ_SERVERS_M, Num_servers} : x <= y
  <2>1. CASE READ_SERVERS_M <= Num_servers
    BY <1>1, <2>1
  <2>2. CASE ~(READ_SERVERS_M <= Num_servers)
    BY <1>1, <2>2
  <2> QED
    BY <2>1, <2>2
<1>3. /\ MinServers \in {READ_SERVERS_M, Num_servers}
      /\ \A y \in {READ_SERVERS_M, Num_servers} : MinServers <= y
  BY <1>2 DEF MinServers, Min
<1> QED
  BY <1>1, <1>3

\* A request goes to as many servers as it has copies.
LEMMA TargetsCounted ==
  ASSUME NetTypeOK, NEW c \in Client, NEW all \in BOOLEAN
  PROVE  /\ ToSet(Targets(c, all)) \subseteq Server
         /\ Cardinality(ToSet(Targets(c, all)))
               = (IF all THEN Num_servers ELSE MinServers)
<1>1. Num_servers \in 1 .. 8 /\ rr_index[c] \in 0 .. Num_servers - 1
  BY DEF NetTypeOK, Server
<1>2. CASE all
  <2>1. ToSet(Targets(c, all)) = {i - 1 : i \in 1 .. Num_servers}
    BY <1>2 DEF Targets, ToSet
  <2>2. {i - 1 : i \in 1 .. Num_servers} = Server
    <3>1. \A x \in Server : x + 1 \in 1 .. Num_servers /\ x = (x + 1) - 1
      BY <1>1 DEF Server
    <3>2. \A i \in 1 .. Num_servers : i - 1 \in Server
      BY <1>1 DEF Server
    <3> QED
      BY <3>1, <3>2
  <2> QED
    BY <1>1, <1>2, <2>1, <2>2, ServersAreSome
<1>3. CASE ~all
  <2> DEFINE K == MinServers
             to == [k \in 1 .. K |-> (rr_index[c] + k - 1) % Num_servers]
  <2>1. Targets(c, all) = to
    BY <1>3 DEF Targets, MinServers
  <2>2. K \in 1 .. Num_servers
    BY <1>1, MinServersIs
  <2> HIDE DEF K
  <2>3. \A k \in 1 .. K :
           /\ to[k] = (IF rr_index[c] + k - 1 < Num_servers
                       THEN rr_index[c] + k - 1 ELSE rr_index[c] + k - 1 - Num_servers)
           /\ to[k] \in 0 .. Num_servers - 1
    <3> SUFFICES ASSUME NEW k \in 1 .. K
                 PROVE  /\ to[k] = (IF rr_index[c] + k - 1 < Num_servers
                                    THEN rr_index[c] + k - 1
                                    ELSE rr_index[c] + k - 1 - Num_servers)
                        /\ to[k] \in 0 .. Num_servers - 1
      OBVIOUS
    <3> DEFINE x == rr_index[c] + k - 1
    <3>1. x \in Nat /\ x < Num_servers + Num_servers /\ Num_servers \in Nat \ {0}
      BY <1>1, <2>2
    <3>2. to[k] = x % Num_servers
      OBVIOUS
    <3> HIDE DEF x, to
    <3>3. to[k] = (IF x < Num_servers THEN x ELSE x - Num_servers)
          /\ to[k] \in 0 .. Num_servers - 1
      BY <3>1, <3>2, RoundOnce
    <3> QED
      BY <1>1, <2>2, <3>3 DEF x
  <2> HIDE DEF to
  <2>4. DOMAIN to = 1 .. K
    BY DEF to
  <2>5. to \in [1 .. K -> ToSet(to)] /\ \A t \in ToSet(to) : \E k \in 1 .. K : to[k] = t
    BY <2>4 DEF ToSet, to
  <2>6. ASSUME NEW j \in 1 .. K, NEW k \in 1 .. K, to[j] = to[k]
        PROVE  j = k
    <3> DEFINE r == rr_index[c]
    <3>1. r \in Int /\ Num_servers \in Int /\ j \in Int /\ k \in Int
      BY <1>1, <2>2
    <3>2. j - k < Num_servers /\ k - j < Num_servers
      BY <1>1, <2>2
    <3>3. /\ to[j] = r + j - 1 \/ to[j] = r + j - 1 - Num_servers
          /\ to[k] = r + k - 1 \/ to[k] = r + k - 1 - Num_servers
      BY <2>3
    <3> HIDE DEF r
    <3> QED
      BY <2>6, <3>1, <3>2, <3>3
  <2>7. to \in Bijection(1 .. K, ToSet(to))
    BY <2>5, <2>6, Fun_IsBij
  <2>8. ExistsBijection(1 .. K, ToSet(to))
    BY <2>7 DEF ExistsBijection
  <2>9. IsFiniteSet(1 .. K) /\ Cardinality(1 .. K) = K
    BY <2>2, FS_Interval
  <2>10. Cardinality(ToSet(to)) = K
    BY <2>8, <2>9, FS_Bijection
  <2>11. ToSet(to) \subseteq Server
    BY <2>3, <2>4 DEF ToSet, Server
  <2> QED
    BY <1>3, <2>1, <2>10, <2>11 DEF K
<1> QED
  BY <1>2, <1>3

\* If all of them run, all of them are reached.
LEMMA AllReached ==
  ASSUME NetTypeOK, NEW c \in Client, NEW all \in BOOLEAN
  PROVE  /\ Reached(c, all) \subseteq ToSet(Targets(c, all)) \cap up
         /\ ToSet(Targets(c, all)) \subseteq up => Reached(c, all) = ToSet(Targets(c, all))
<1> DEFINE to == Targets(c, all)
<1>1. DOMAIN to \subseteq Nat /\ \A j \in DOMAIN to : 1 <= j /\ 1 .. j \subseteq DOMAIN to
  <2>1. PICK n \in Nat : DOMAIN to = 1 .. n
    <3>1. Num_servers \in 1 .. 8 /\ MinServers \in 1 .. Num_servers
      BY MinServersIs DEF NetTypeOK
    <3>2. DOMAIN to = IF all THEN 1 .. Num_servers ELSE 1 .. MinServers
      BY DEF Targets, MinServers
    <3> QED
      BY <3>1, <3>2
  <2> HIDE DEF to
  <2> QED
    BY <2>1
<1> HIDE DEF to
<1>2. Reached(c, all) = {to[i] : i \in {j \in DOMAIN to : \A k \in 1 .. j : to[k] \in up}}
  BY DEF Reached, to
<1>3. Reached(c, all) \subseteq ToSet(to) \cap up
  BY <1>1, <1>2 DEF ToSet
<1>4. ASSUME ToSet(to) \subseteq up PROVE ToSet(to) \subseteq Reached(c, all)
  BY <1>1, <1>2, <1>4 DEF ToSet
<1> QED
  BY <1>3, <1>4 DEF to
-----------------------------------------------------------------------------
(* Steps that are not about client c.                                      *)

LEMMA CallKept ==
  ASSUME NetInv, NEW c \in Client,
         Num_servers' = Num_servers, up' \subseteq up,
         call'[c] = call[c], cli_box'[c] = cli_box[c],
         \A s \in Server : \A m \in srv_box'[s] : m.from = c => m \in srv_box[s],
         up' = up => \A s \in Server : \A m \in srv_box[s] :
                        m.from = c => m \in srv_box'[s]
  PROVE  CallOK(c)'
<1> SUFFICES ASSUME Waiting(c)'
             PROVE  /\ OwnMessages(c)'
                    /\ Len(call'[c].got) < Needed(c)'
                    /\ up' = Server' => Counted(c)'
  BY DEF CallOK
<1>1. Server' = Server
  BY DEF Server
<1>2. Waiting(c) /\ Needed(c)' = Needed(c) /\ Copies(c)' = Copies(c)
  BY DEF Waiting, Needed, Copies
<1>3. OwnMessages(c) /\ Len(call[c].got) < Needed(c) /\ (up = Server => Counted(c))
  BY <1>2 DEF NetInv, CallOK
<1>4. Arrivals(c)' = Arrivals(c)
  BY DEF Arrivals
<1>5. OwnMessages(c)'
  BY <1>1, <1>3, <1>4 DEF OwnMessages
<1>6. ASSUME up' = Server' PROVE Counted(c)'
  <2>1. up' = up /\ up = Server
    BY <1>1, <1>6 DEF NetInv, NetTypeOK
  <2>2. Requests(c)' = Requests(c)
    BY <1>1, <2>1 DEF Requests
  <2> QED
    BY <1>2, <1>3, <1>4, <2>1, <2>2 DEF Counted
<1> QED
  BY <1>2, <1>3, <1>5, <1>6

-----------------------------------------------------------------------------
(* A server handles a request, or stops.                                   *)

LEMMA HandleKeeps ==
  ASSUME NetInv, NEW s \in Server, NEW msg \in srv_box[s],
         Handle(s, msg)
  PROVE  NetInv'
<1> DEFINE d == msg.from
           rep == Reply(msg, Serve(store[s], msg.req).answer)
<1>1. /\ s \in up
      /\ srv_box' = [srv_box EXCEPT ![s] = @ \ {msg}]
      /\ cli_box' = [cli_box EXCEPT ![d] = Append(@, rep)]
      /\ UNCHANGED <<Num_servers, up, next_sn, rr_index, call>>
  BY DEF Handle
<1>2. rep.sn = msg.sn /\ rep.re = msg.req
  BY DEF Reply
<1>3. NetTypeOK /\ d \in Client
  BY DEF NetInv, NetTypeOK, IsMessage
<1> HIDE DEF rep
<1>4. Server' = Server
  BY <1>1 DEF Server
<1>5. /\ srv_box'[s] = srv_box[s] \ {msg}
      /\ \A r \in Server : r # s => srv_box'[r] = srv_box[r]
      /\ cli_box'[d] = Append(cli_box[d], rep)
      /\ \A c \in Client : c # d => cli_box'[c] = cli_box[c]
      /\ DOMAIN srv_box' = Server /\ DOMAIN cli_box' = Client
  BY <1>1, <1>3 DEF NetTypeOK
<1>6. IsSeq(cli_box[d]) /\ IsSeq(cli_box'[d])
  BY <1>3, <1>5, AppendIsSeq DEF NetTypeOK
<1>7. NetTypeOK'
  BY <1>1, <1>3, <1>4, <1>5, <1>6 DEF NetTypeOK, IsMessage
<1>8. \A r \in Server \ up : srv_box'[r] = {}
  BY <1>1, <1>5 DEF NetInv
<1>9. ASSUME NEW c \in Client, c # d PROVE CallOK(c)'
  BY <1>1, <1>5, <1>9, CallKept
<1>10. CallOK(d)'
  <2> SUFFICES ASSUME Waiting(d)
               PROVE  /\ OwnMessages(d)'
                      /\ Len(call[d].got) < Needed(d)'
                      /\ up = Server => Counted(d)'
    BY <1>1, <1>4 DEF CallOK, Waiting
  <2> DEFINE n == call[d].sn
  <2>1. OwnMessages(d) /\ Len(call[d].got) < Needed(d) /\ (up = Server => Counted(d))
    BY <1>3 DEF NetInv, CallOK
  <2>2. Needed(d)' = Needed(d) /\ Copies(d)' = Copies(d)
    BY <1>1 DEF Needed, Copies
  <2>3. /\ Len(cli_box[d]) \in Nat
        /\ DOMAIN cli_box[d] = 1 .. Len(cli_box[d])
        /\ DOMAIN cli_box'[d] = 1 .. Len(cli_box[d]) + 1
        /\ \A i \in 1 .. Len(cli_box[d]) : cli_box'[d][i] = cli_box[d][i]
        /\ cli_box'[d][Len(cli_box[d]) + 1] = rep
    BY <1>5, <1>6, AppendIsSeq
  <2>4. OwnMessages(d)'
    <3>1. \A r \in Server : \A m \in srv_box'[r] : m \in srv_box[r]
      BY <1>5
    <3>2. \A i \in Arrivals(d)' : cli_box'[d][i].re = call[d].req
      <4> SUFFICES ASSUME NEW i \in DOMAIN cli_box'[d], cli_box'[d][i].sn = n
                   PROVE  cli_box'[d][i].re = call[d].req
        BY <1>1 DEF Arrivals
      <4>1. CASE i \in 1 .. Len(cli_box[d])
        BY <2>1, <2>3, <4>1 DEF OwnMessages, Arrivals
      <4>2. CASE i = Len(cli_box[d]) + 1
        BY <1>2, <2>1, <2>3, <4>2 DEF OwnMessages
      <4> QED
        BY <2>3, <4>1, <4>2
    <3> QED
      BY <1>1, <1>4, <2>1, <3>1, <3>2 DEF OwnMessages
  <2>5. ASSUME up = Server PROVE Counted(d)'
    <3>1. Counted(d)
      BY <2>1, <2>5
    <3>2. /\ IsFiniteSet(Requests(d)) /\ Cardinality(Requests(d)) \in Nat
          /\ Cardinality(Arrivals(d)) \in Nat /\ Len(call[d].got) \in Nat
      BY <1>3, CountsAreNumbers
    <3>3. Cardinality(Arrivals(d)')
             = Cardinality(Arrivals(d)) + (IF msg.sn = n THEN 1 ELSE 0)
      <4>1. Arrivals(d) = Matching(cli_box[d], n)
        BY <1>3, ArrivalsMatch
      <4>2. Arrivals(d)' = Matching(cli_box'[d], n)
        BY <1>1 DEF Arrivals, Matching
      <4>3. Cardinality(Matching(Append(cli_box[d], rep), n))
               = Cardinality(Matching(cli_box[d], n)) + (IF rep.sn = n THEN 1 ELSE 0)
        BY <1>6, MatchAppend
      <4> QED
        BY <1>2, <1>5, <4>1, <4>2, <4>3
    <3>4. CASE msg.sn = n
      <4>1. \A m \in srv_box[s] : m.from = d /\ m.sn = n => m = msg
        BY <1>3, <2>1, <3>4 DEF OwnMessages, NetTypeOK, IsMessage
      <4>2. Requests(d)' = Requests(d) \ {s} /\ s \in Requests(d)
        BY <1>1, <1>4, <1>5, <3>4, <4>1 DEF Requests
      <4>3. Cardinality(Requests(d)') = Cardinality(Requests(d)) - 1
        BY <3>2, <4>2, FS_RemoveElement
      <4>4. Cardinality(Arrivals(d)') = Cardinality(Arrivals(d)) + 1
        BY <3>3, <3>4
      <4>5. Len(call[d].got) + Cardinality(Arrivals(d)') + Cardinality(Requests(d)')
               = Len(call[d].got) + Cardinality(Arrivals(d)) + Cardinality(Requests(d))
        <5> DEFINE L == Len(call[d].got)
                   A == Cardinality(Arrivals(d))
                   R == Cardinality(Requests(d))
                   AA == Cardinality(Arrivals(d)')
                   RR == Cardinality(Requests(d)')
        <5>1. L \in Nat /\ A \in Nat /\ R \in Nat /\ AA = A + 1 /\ RR = R - 1
          BY <3>2, <4>3, <4>4
        <5> HIDE DEF L, A, R, AA, RR
        <5>2. L + AA + RR = L + A + R
          BY <5>1
        <5> QED
          BY <5>2 DEF L, A, R, AA, RR
      <4> QED
        BY <1>1, <2>2, <3>1, <4>5 DEF Counted
    <3>5. CASE msg.sn # n
      <4>1. Requests(d)' = Requests(d)
        BY <1>1, <1>4, <1>5, <3>5 DEF Requests
      <4>2. Cardinality(Arrivals(d)') = Cardinality(Arrivals(d))
        BY <3>2, <3>3, <3>5
      <4> QED
        BY <1>1, <2>2, <3>1, <4>1, <4>2 DEF Counted
    <3> QED
      BY <3>4, <3>5
  <2> QED
    BY <2>1, <2>2, <2>4, <2>5
<1> QED
  BY <1>1, <1>4, <1>7, <1>8, <1>9, <1>10 DEF NetInv

LEMMA StopKeeps ==
  ASSUME NetInv, NEW s \in Server, Stop(s)
  PROVE  NetInv'
<1>1. /\ s \in up /\ up' = up \ {s}
      /\ srv_box' = [srv_box EXCEPT ![s] = {}]
      /\ UNCHANGED <<Num_servers, cli_box, next_sn, rr_index, call>>
  BY DEF Stop
<1>2. Server' = Server
  BY <1>1 DEF Server
<1>3. NetTypeOK
  BY DEF NetInv
<1>4. /\ srv_box'[s] = {} /\ DOMAIN srv_box' = Server
      /\ \A r \in Server : r # s => srv_box'[r] = srv_box[r]
  BY <1>1, <1>3 DEF NetTypeOK
<1>5. NetTypeOK'
  BY <1>1, <1>2, <1>3, <1>4 DEF NetTypeOK, IsMessage
<1>6. \A r \in Server' \ up' : srv_box'[r] = {}
  BY <1>1, <1>2, <1>4 DEF NetInv
<1>7. ASSUME NEW c \in Client PROVE CallOK(c)'
  BY <1>1, <1>4, CallKept
<1> QED
  BY <1>5, <1>6, <1>7 DEF NetInv
-----------------------------------------------------------------------------
(* A client takes an answer out of its box.                                *)

LEMMA RecvKeeps ==
  ASSUME NetInv, NEW c \in Client, Recv(c)
  PROVE  NetInv'
<1> DEFINE box == cli_box[c]
           n == call[c].sn
           hit == Head(box).sn = n
           more == Append(call[c].got, Head(box).answer)
<1>1. /\ Waiting(c) /\ box # << >> /\ ~IsLast(c)
      /\ cli_box' = [cli_box EXCEPT ![c] = Tail(@)]
      /\ hit => call' = [call EXCEPT ![c].got = more]
      /\ ~hit => call' = call
      /\ UNCHANGED <<Num_servers, up, store, srv_box, next_sn, rr_index>>
  BY DEF Recv, Arrived, IsAnswer
<1>2. NetTypeOK
  BY DEF NetInv
<1>3. Server' = Server
  BY <1>1 DEF Server
<1>4. /\ cli_box'[c] = Tail(box) /\ DOMAIN cli_box' = Client
      /\ \A d \in Client : d # c => cli_box'[d] = cli_box[d]
  BY <1>1, <1>2 DEF NetTypeOK
<1>5. /\ DOMAIN call' = Client
      /\ \A d \in Client : d # c => call'[d] = call[d]
      /\ DOMAIN call'[c] = {"req", "sn", "all", "sent", "got"}
      /\ call'[c].req = call[c].req /\ call'[c].sn = n
      /\ call'[c].all = call[c].all /\ call'[c].sent = call[c].sent
      /\ call'[c].got = IF hit THEN more ELSE call[c].got
  BY <1>1, <1>2 DEF NetTypeOK
<1>6. /\ IsSeq(box) /\ IsSeq(cli_box'[c]) /\ IsSeq(call[c].got) /\ IsSeq(more)
      /\ Len(call[c].got) \in Nat /\ Len(more) = Len(call[c].got) + 1
  BY <1>1, <1>2, <1>4, AppendIsSeq, TailIsSeq DEF NetTypeOK
<1> HIDE DEF more
<1>7. NetTypeOK'
  <2>1. \A d \in Client : IsSeq(cli_box'[d])
    BY <1>2, <1>4, <1>6 DEF NetTypeOK
  <2>2. \A d \in Client : /\ DOMAIN call'[d] = {"req", "sn", "all", "sent", "got"}
                          /\ call'[d].all \in BOOLEAN
                          /\ IsSeq(call'[d].got)
    BY <1>2, <1>5, <1>6 DEF NetTypeOK
  <2> QED
    BY <1>1, <1>2, <1>3, <1>4, <1>5, <2>1, <2>2 DEF NetTypeOK, IsMessage
<1>8. \A r \in Server' \ up' : srv_box'[r] = {}
  BY <1>1, <1>3 DEF NetInv
<1>9. ASSUME NEW d \in Client, d # c PROVE CallOK(d)'
  BY <1>1, <1>4, <1>5, <1>9, CallKept
<1>10. CallOK(c)'
  <2>1. OwnMessages(c) /\ Len(call[c].got) < Needed(c) /\ (up = Server => Counted(c))
    BY <1>1 DEF NetInv, CallOK
  <2>2. Needed(c)' = Needed(c) /\ Copies(c)' = Copies(c)
    BY <1>1, <1>5 DEF Needed, Copies
  <2>3. /\ Len(box) \in Nat \ {0} /\ DOMAIN box = 1 .. Len(box)
        /\ DOMAIN Tail(box) = 1 .. Len(box) - 1
        /\ \A i \in 1 .. Len(box) - 1 : Tail(box)[i] = box[i + 1]
    BY <1>1, <1>6, TailIsSeq
  <2>4. OwnMessages(c)'
    <3>1. \A i \in Arrivals(c)' : cli_box'[c][i].re = call[c].req
      <4> SUFFICES ASSUME NEW i \in DOMAIN Tail(box), Tail(box)[i].sn = n
                   PROVE  Tail(box)[i].re = call[c].req
        BY <1>4, <1>5 DEF Arrivals
      <4>1. i + 1 \in DOMAIN box /\ Tail(box)[i] = box[i + 1]
        BY <2>3
      <4> QED
        BY <2>1, <4>1 DEF OwnMessages, Arrivals
    <3>2. \A s \in Server : \A m \in srv_box'[s] :
             m.from = c /\ m.sn = call'[c].sn => m.req = call'[c].req
      <4>1. srv_box' = srv_box /\ call'[c].sn = call[c].sn /\ call'[c].req = call[c].req
        BY <1>1, <1>5
      <4> QED
        BY <2>1, <4>1 DEF OwnMessages
    <3>3. \A i \in Arrivals(c)' : cli_box'[c][i].re = call'[c].req
      BY <1>5, <3>1
    <3> QED
      BY <1>3, <3>2, <3>3 DEF OwnMessages
  <2>5. Len(call'[c].got) < Needed(c)'
    <3>1. CASE hit
      <4>1. ~(Len(call[c].got) + 1 >= Needed(c))
        BY <1>1, <3>1 DEF IsLast, Arrived, IsAnswer
      <4>2. Needed(c) \in Int
        BY <1>2 DEF Needed, NetTypeOK
      <4> QED
        BY <1>5, <1>6, <2>2, <3>1, <4>1, <4>2
    <3>2. CASE ~hit
      BY <1>5, <2>1, <2>2, <3>2
    <3> QED
      BY <3>1, <3>2
  <2>6. ASSUME up = Server PROVE Counted(c)'
    <3> DEFINE L == Len(call[c].got)
               A == Cardinality(Arrivals(c))
               R == Cardinality(Requests(c))
               LL == Len(call'[c].got)
               AA == Cardinality(Arrivals(c)')
    <3>1. L \in Nat /\ A \in Nat /\ R \in Nat
      BY <1>2, CountsAreNumbers
    <3>2. LL = IF hit THEN L + 1 ELSE L
      BY <1>5, <1>6
    <3>3. A = AA + (IF hit THEN 1 ELSE 0) /\ AA \in Nat
      <4>1. Arrivals(c) = Matching(box, n)
        BY ArrivalsMatch
      <4>2. Arrivals(c)' = Matching(Tail(box), n)
        BY <1>4, <1>5 DEF Arrivals, Matching
      <4>3. Cardinality(Matching(box, n))
               = Cardinality(Matching(Tail(box), n)) + (IF hit THEN 1 ELSE 0)
        BY <1>1, <1>6, MatchTail
      <4>4. Cardinality(Matching(Tail(box), n)) \in Nat
        BY <1>4, <1>6, MatchingFinite
      <4> QED
        BY <4>1, <4>2, <4>3, <4>4
    <3>4. Requests(c)' = Requests(c)
      BY <1>1, <1>3, <1>5 DEF Requests
    <3>5. L + A + R = Copies(c)
      BY <2>1, <2>6 DEF Counted
    <3> HIDE DEF L, A, R, LL, AA, hit
    <3>6. LL + AA + R = L + A + R
      BY <3>1, <3>2, <3>3
    <3>7. LL + AA + R = Copies(c)'
      BY <2>2, <3>5, <3>6
    <3> QED
      BY <3>4, <3>7 DEF Counted, LL, AA, R
  <2> QED
    BY <1>1, <1>3, <2>4, <2>5, <2>6 DEF CallOK
<1> QED
  BY <1>1, <1>3, <1>7, <1>8, <1>9, <1>10 DEF NetInv

\* What a call that returns takes out of the box.
BoxTaken(c) ==
    \/ cli_box' = cli_box
    \/ cli_box[c] # << >> /\ cli_box' = [cli_box EXCEPT ![c] = Tail(@)]

LEMMA BoxTakenFrom ==
  ASSUME NetTypeOK, NEW c \in Client, BoxTaken(c)
  PROVE  /\ DOMAIN cli_box' = Client
         /\ \A d \in Client : IsSeq(cli_box'[d]) /\ (d # c => cli_box'[d] = cli_box[d])
         /\ \A i \in DOMAIN cli_box'[c] : \E j \in DOMAIN cli_box[c] :
               cli_box'[c][i] = cli_box[c][j]
<1>1. IsSeq(cli_box[c])
  BY DEF NetTypeOK
<1>2. CASE cli_box' = cli_box
  BY <1>2 DEF NetTypeOK
<1>3. CASE cli_box[c] # << >> /\ cli_box' = [cli_box EXCEPT ![c] = Tail(@)]
  <2>1. /\ cli_box'[c] = Tail(cli_box[c]) /\ DOMAIN cli_box' = Client
        /\ \A d \in Client : d # c => cli_box'[d] = cli_box[d]
    BY <1>3 DEF NetTypeOK
  <2>2. /\ IsSeq(Tail(cli_box[c]))
        /\ Len(cli_box[c]) \in Nat \ {0} /\ DOMAIN cli_box[c] = 1 .. Len(cli_box[c])
        /\ DOMAIN Tail(cli_box[c]) = 1 .. Len(cli_box[c]) - 1
        /\ \A i \in 1 .. Len(cli_box[c]) - 1 : Tail(cli_box[c])[i] = cli_box[c][i + 1]
    BY <1>1, <1>3, TailIsSeq
  <2>3. \A i \in 1 .. Len(cli_box[c]) - 1 : i + 1 \in 1 .. Len(cli_box[c])
    BY <2>2
  <2> QED
    BY <2>1, <2>2, <2>3 DEF NetTypeOK
<1> QED
  BY <1>2, <1>3 DEF BoxTaken
-----------------------------------------------------------------------------
(* A client sends a request, or ends a call.                               *)

LEMMA ModInRange ==
  ASSUME NEW a \in Int, NEW n \in Nat \ {0}
  PROVE  a % n \in 0 .. n - 1
BY SMTT(60)

LEMMA IssueTyped ==
  ASSUME NetTypeOK, NEW c \in Client, NEW req, NEW all \in BOOLEAN,
         Issue(c, req, all), BoxTaken(c), UNCHANGED <<Num_servers, up>>
  PROVE  NetTypeOK'
<1> DEFINE to == ToSet(Targets(c, all))
<1>1. /\ next_sn' = [next_sn EXCEPT ![c] = NextNumber(@)]
      /\ srv_box' = [s \in Server |->
                       srv_box[s] \cup IF s \in Reached(c, all) THEN {Message(c, req)}
                                       ELSE {}]
      /\ rr_index' = IF all \/ ~(to \subseteq up) THEN rr_index
                     ELSE [rr_index EXCEPT ![c] = (@ + Cardinality(to)) % Num_servers]
      /\ call' = [call EXCEPT ![c] = [req |-> req, sn |-> next_sn[c], all |-> all,
                                      sent |-> to \subseteq up, got |-> << >>]]
  BY DEF Issue
<1>2. Server' = Server
  BY DEF Server
<1>3. IsMessage(Message(c, req))
  BY DEF IsMessage, Message
<1>4. \A s \in Server : \A m \in srv_box'[s] : IsMessage(m)
  BY <1>1, <1>3 DEF NetTypeOK
<1>5. next_sn' \in [Client -> 0 .. SN_RANGE - 1]
  <2>1. next_sn[c] + 1 \in Int /\ SN_RANGE \in Nat \ {0}
    BY RemoteAssumption DEF NetTypeOK
  <2>2. NextNumber(next_sn[c]) \in 0 .. SN_RANGE - 1
    BY <2>1, ModInRange DEF NextNumber
  <2> QED
    BY <1>1, <2>2 DEF NetTypeOK
<1>6. rr_index' \in [Client -> Server]
  <2>1. Cardinality(to) \in Nat
    BY TargetsCounted, MinServersIs DEF NetTypeOK
  <2> HIDE DEF to
  <2>2. rr_index[c] + Cardinality(to) \in Int /\ Num_servers \in Nat \ {0}
    BY <2>1 DEF NetTypeOK, Server
  <2>3. (rr_index[c] + Cardinality(to)) % Num_servers \in Server
    BY <2>2, ModInRange DEF Server
  <2> QED
    BY <1>1, <2>3 DEF NetTypeOK
<1>7. IsSeq(<< >>)
  BY DEF IsSeq, ToSet
<1>8. /\ DOMAIN call' = Client
      /\ \A d \in Client :
          /\ DOMAIN call'[d] = {"req", "sn", "all", "sent", "got"}
          /\ call'[d].all \in BOOLEAN
          /\ IsSeq(call'[d].got)
  BY <1>1, <1>7 DEF NetTypeOK
<1>9. DOMAIN cli_box' = Client /\ \A d \in Client : IsSeq(cli_box'[d])
  BY BoxTakenFrom
<1>10. DOMAIN srv_box' = Server
  BY <1>1
<1> QED
  BY <1>2, <1>4, <1>5, <1>6, <1>8, <1>9, <1>10 DEF NetTypeOK, IsMessage

\* Nothing under way has the number of the new request, which each of its targets
\* gets.
LEMMA IssueKeeps ==
  ASSUME NetInv, NumbersFresh, NEW c \in Client, NEW req, NEW all \in BOOLEAN,
         Issue(c, req, all), BoxTaken(c), UNCHANGED <<Num_servers, up>>
  PROVE  NetInv'
<1> DEFINE to == ToSet(Targets(c, all))
           n == next_sn[c]
           msg == Message(c, req)
<1>1. /\ srv_box' = [s \in Server |->
                       srv_box[s] \cup IF s \in Reached(c, all) THEN {msg} ELSE {}]
      /\ call' = [call EXCEPT ![c] = [req |-> req, sn |-> n, all |-> all,
                                      sent |-> to \subseteq up, got |-> << >>]]
  BY DEF Issue
<1>2. NetTypeOK /\ NetTypeOK'
  BY IssueTyped DEF NetInv
<1>3. Server' = Server
  BY DEF Server
<1>4. msg.from = c /\ msg.sn = n /\ msg.req = req
  BY DEF Message
<1>5. /\ to \subseteq Server
      /\ Cardinality(to) = (IF all THEN Num_servers ELSE MinServers)
      /\ Reached(c, all) \subseteq up
      /\ to \subseteq up => Reached(c, all) = to
  BY <1>2, TargetsCounted, AllReached
<1>6. /\ \A d \in Client : d # c => call'[d] = call[d]
      /\ call'[c].req = req /\ call'[c].sn = n /\ call'[c].all = all
      /\ call'[c].sent = (to \subseteq up) /\ call'[c].got = << >>
  BY <1>1, <1>2 DEF NetTypeOK
<1>7. \A s \in Server : \A m :
         m \in srv_box'[s] <=> m \in srv_box[s] \/ (m = msg /\ s \in Reached(c, all))
  BY <1>1
<1> HIDE DEF msg, to
<1>8. \A s \in Server' \ up' : srv_box'[s] = {}
  BY <1>3, <1>5, <1>7 DEF NetInv
<1>9. ASSUME NEW d \in Client, d # c PROVE CallOK(d)'
  <2>1. cli_box'[d] = cli_box[d]
    BY <1>2, <1>9, BoxTakenFrom
  <2> QED
    BY <1>4, <1>6, <1>7, <1>9, <2>1, CallKept
<1>10. CallOK(c)'
  <2> SUFFICES ASSUME to \subseteq up
               PROVE  OwnMessages(c)' /\ 0 < Needed(c)' /\ Counted(c)'
    BY <1>6 DEF CallOK, Waiting
  <2>1. \A s \in Server : \A m \in srv_box[s] : m.from = c => m.sn # n
    BY DEF NumbersFresh
  <2>2. \A i \in DOMAIN cli_box'[c] : cli_box'[c][i].sn # n
    BY <1>2, BoxTakenFrom DEF NumbersFresh
  <2>3. Arrivals(c)' = {}
    BY <1>6, <2>2 DEF Arrivals
  <2>4. Requests(c)' = to
    BY <1>3, <1>4, <1>5, <1>6, <1>7, <2>1 DEF Requests
  <2>5. OwnMessages(c)'
    BY <1>3, <1>4, <1>6, <1>7, <2>1, <2>3 DEF OwnMessages
  <2>6. 0 < Needed(c)'
    BY <1>2, <1>6 DEF Needed, NetTypeOK
  <2>7. Counted(c)'
    <3>1. Cardinality(Requests(c)') = Copies(c)' /\ Copies(c)' \in Nat
      BY <1>2, <1>5, <1>6, <2>4, MinServersIs DEF Copies, MinServers, NetTypeOK
    <3>2. Cardinality(Arrivals(c)') = 0 /\ Len(call'[c].got) = 0
      BY <1>6, <2>3, FS_EmptySet
    <3> QED
      BY <3>1, <3>2 DEF Counted
  <2> QED
    BY <2>5, <2>6, <2>7
<1> QED
  BY <1>2, <1>3, <1>8, <1>9, <1>10 DEF NetInv

LEMMA EndKeeps ==
  ASSUME NetInv, NEW c \in Client,
         EndCall(c), BoxTaken(c), UNCHANGED <<Num_servers, up>>
  PROVE  NetInv'
<1>1. call' = [call EXCEPT ![c] = NoCall] /\ UNCHANGED <<srv_box, next_sn, rr_index>>
  BY DEF EndCall
<1>2. NetTypeOK /\ Server' = Server
  BY DEF NetInv, Server
<1>3. /\ DOMAIN call' = Client /\ call'[c] = NoCall
      /\ \A d \in Client : d # c => call'[d] = call[d]
  BY <1>1, <1>2 DEF NetTypeOK
<1>4. /\ DOMAIN cli_box' = Client
      /\ \A d \in Client : IsSeq(cli_box'[d]) /\ (d # c => cli_box'[d] = cli_box[d])
  BY <1>2, BoxTakenFrom
<1>5. /\ DOMAIN NoCall = {"req", "sn", "all", "sent", "got"}
      /\ NoCall.all \in BOOLEAN /\ IsSeq(NoCall.got)
      /\ NoCall.req = NoRequest
  BY DEF NoCall, IsSeq, ToSet
<1>6. NetTypeOK'
  BY <1>1, <1>2, <1>3, <1>4, <1>5 DEF NetTypeOK, IsMessage
<1>7. ASSUME NEW d \in Client, d # c PROVE CallOK(d)'
  BY <1>1, <1>3, <1>4, <1>7, CallKept
<1>8. CallOK(c)'
  BY <1>3, <1>5 DEF CallOK, Waiting
<1> QED
  BY <1>1, <1>2, <1>6, <1>7, <1>8 DEF NetInv
-----------------------------------------------------------------------------
(* What the functions of the file interface do with remote calls.          *)

Resting == {"idle", "exited"}

OpFields == {"at", "path", "create", "file", "left", "fsize", "dir", "from", "buffer"}

OpsOK ==
    /\ DOMAIN op = Client
    /\ \A c \in Client : /\ DOMAIN op[c] = OpFields
                         /\ op[c].at \in Resting => call[c].req = NoRequest

\* The locals of c become some o.
OpGoes(c, o) == op' = [op EXCEPT ![c] = o] /\ DOMAIN o = OpFields

\* A request that changes nothing: it need not go to all servers.
OnlyReads(req) == \A st : Serve(st, req).store = st

Issues(c) ==
    /\ \E req : \E all \in BOOLEAN : /\ Issue(c, req, all) /\ req # NoRequest
                                     /\ all \/ OnlyReads(req)
    /\ \E o : OpGoes(c, o) /\ o.at \notin Resting
    /\ UNCHANGED <<Num_servers, up, store>>

\* A function starts, goes on with another remote call, or ends.
Starts(c) == op[c].at = "idle" /\ cli_box' = cli_box /\ Issues(c)

GoesOn(c) == Returns(c) /\ TakeLast(c) /\ Issues(c)

Ends(c) == Returns(c) /\ TakeLast(c) /\ EndCall(c) /\ \E o : OpGoes(c, o)

Closes(c) == op[c].at = "idle" /\ UNCHANGED rcVars /\ OpGoes(c, Idle)

LEMMA RequestsAreSome ==
  /\ \A path : LookupRequest(path) # NoRequest
  /\ \A dir : ListRequest(dir) # NoRequest
  /\ \A fd, n : ReadRequest(fd, n) # NoRequest /\ WriteRequest(fd, n) # NoRequest
  /\ \A path, dir : /\ CreateRequest(path, dir) # NoRequest
                     /\ MkdirRequest(path, dir) # NoRequest
<1>1. NoRequest.type = "none"
  BY DEF NoRequest
<1>2. \A path : LookupRequest(path).type = "lookup"
  BY DEF LookupRequest, Lookup
<1>3. \A dir : ListRequest(dir).type = "readdir"
  BY DEF ListRequest, Readdir
<1>4. \A fd, n : ReadRequest(fd, n).type = "read" /\ WriteRequest(fd, n).type = "write"
  BY DEF ReadRequest, Read, WriteRequest, Write
<1>5. \A path, dir : /\ CreateRequest(path, dir).type = "make"
                     /\ MkdirRequest(path, dir).type = "make"
  BY DEF CreateRequest, MkdirRequest, Make
<1>6. "none" \notin {"lookup", "readdir", "read", "write", "make"}
  OBVIOUS
<1> QED
  BY <1>1, <1>2, <1>3, <1>4, <1>5, <1>6

LEMMA RequestsRead ==
  /\ \A path : OnlyReads(LookupRequest(path))
  /\ \A dir : OnlyReads(ListRequest(dir))
  /\ \A fd, n : OnlyReads(ReadRequest(fd, n))
<1>1. ASSUME NEW st, NEW req, req.type = "lookup" PROVE Serve(st, req).store = st
  <2>1. Serve(st, req) = snfs_lookup(st, req)
    BY <1>1 DEF Serve
  <2> QED
    BY <2>1 DEF snfs_lookup, Failed
<1>2. ASSUME NEW st, NEW req, req.type = "readdir" PROVE Serve(st, req).store = st
  <2>1. Serve(st, req) = snfs_readdir(st, req)
    BY <1>2 DEF Serve
  <2> QED
    BY <2>1 DEF snfs_readdir, Failed
<1>3. ASSUME NEW st, NEW req, req.type = "read" PROVE Serve(st, req).store = st
  <2>1. Serve(st, req) = snfs_read(st, req)
    BY <1>3 DEF Serve
  <2> QED
    BY <2>1 DEF snfs_read, Failed
<1>4. \A path : LookupRequest(path).type = "lookup"
  BY DEF LookupRequest, Lookup
<1>5. \A dir : ListRequest(dir).type = "readdir"
  BY DEF ListRequest, Readdir
<1>6. \A fd, n : ReadRequest(fd, n).type = "read"
  BY DEF ReadRequest, Read
<1> QED
  BY <1>1, <1>2, <1>3, <1>4, <1>5, <1>6 DEF OnlyReads

LEMMA BeginStarts ==
  ASSUME NEW c \in Client, NEW o, NEW req, NEW all \in BOOLEAN,
         Begin(c, o, req, all), DOMAIN o = OpFields, o.at \notin Resting,
         req # NoRequest, all \/ OnlyReads(req)
  PROVE  Starts(c)
BY DEF Begin, Goto, Starts, Issues, OpGoes

LEMMA NextGoesOn ==
  ASSUME NEW c \in Client, NEW label, NEW o, NEW req, NEW all \in BOOLEAN,
         Back(c, label), Next_call(c, o, req, all), DOMAIN o = OpFields,
         o.at \notin Resting, req # NoRequest, all \/ OnlyReads(req)
  PROVE  GoesOn(c)
BY DEF Back, TakeLast, Next_call, Goto, GoesOn, Issues, OpGoes

LEMMA ReturnEnds ==
  ASSUME OpsOK, NEW c \in Client, NEW label, Back(c, label), Return(c)
  PROVE  Ends(c)
<1>1. DOMAIN [op[c] EXCEPT !.at = "idle"] = OpFields
  BY DEF OpsOK
<1> QED
  BY <1>1 DEF Back, Return, Goto, Ends, OpGoes

LEMMA CallStarts ==
  ASSUME NEW c \in Client, MyCall(c)
  PROVE  Starts(c) \/ Closes(c)
<1>0. DOMAIN Idle = OpFields
  BY DEF Idle, OpFields
<1>1. ASSUME NEW p, NEW create, my_open(c, p, create) PROVE Starts(c)
  <2> DEFINE o == [Idle EXCEPT !.at = "open", !.path = p, !.create = create]
  <2>1. DOMAIN o = OpFields /\ o.at \notin Resting
    BY <1>0 DEF OpFields, Resting, Idle
  <2>2. Begin(c, o, LookupRequest(p), FALSE)
    BY <1>1 DEF my_open
  <2> HIDE DEF o
  <2> QED
    BY <2>1, <2>2, BeginStarts, RequestsAreSome, RequestsRead
<1>2. ASSUME NEW p, my_mkdir(c, p) PROVE Starts(c)
  <2> DEFINE o == [Idle EXCEPT !.at = "mkdir", !.path = p]
  <2>1. DOMAIN o = OpFields /\ o.at \notin Resting
    BY <1>0 DEF OpFields, Resting, Idle
  <2>2. Begin(c, o, LookupRequest(p), FALSE)
    BY <1>2 DEF my_mkdir
  <2> HIDE DEF o
  <2> QED
    BY <2>1, <2>2, BeginStarts, RequestsAreSome, RequestsRead
<1>3. ASSUME NEW p, my_listdir(c, p) PROVE Starts(c)
  <2> DEFINE o == [Idle EXCEPT !.path = p]
             root == [o EXCEPT !.at = "list_dir"]
             other == [o EXCEPT !.at = "list"]
  <2>1. /\ DOMAIN root = OpFields /\ root.at \notin Resting
        /\ DOMAIN other = OpFields /\ other.at \notin Resting
    BY <1>0 DEF OpFields, Resting, Idle
  <2>2. \/ Begin(c, root, ListRequest(ROOT), FALSE)
        \/ Begin(c, other, LookupRequest(p), FALSE)
    BY <1>3 DEF my_listdir
  <2> HIDE DEF root, other
  <2> QED
    BY <2>1, <2>2, BeginStarts, RequestsAreSome, RequestsRead
<1>4. ASSUME NEW id, my_close(c, id) PROVE Closes(c)
  BY <1>0, <1>4 DEF my_close, Closes, OpGoes, Goto
<1>5. ASSUME NEW id, NEW n, my_read(c, id, n) PROVE Starts(c)
  <2> DEFINE fd == fdesc(c, id)
             o == [Idle EXCEPT !.at = "read", !.file = id, !.left = InSize(fd, n),
                               !.from = fd.read_offset]
  <2>1. DOMAIN o = OpFields /\ o.at \notin Resting
    BY <1>0 DEF OpFields, Resting, Idle
  <2>2. Begin(c, o, ReadRequest(fd, InSize(fd, n)), FALSE)
    BY <1>5 DEF my_read
  <2> HIDE DEF o
  <2> QED
    BY <2>1, <2>2, BeginStarts, RequestsAreSome, RequestsRead
<1>6. ASSUME NEW id, NEW n, my_write(c, id, n) PROVE Starts(c)
  <2> DEFINE o == [Idle EXCEPT !.at = "write", !.file = id, !.left = n]
  <2>1. DOMAIN o = OpFields /\ o.at \notin Resting
    BY <1>0 DEF OpFields, Resting, Idle
  <2>2. Begin(c, o, WriteRequest(fdesc(c, id), n), TRUE)
    BY <1>6 DEF my_write
  <2> HIDE DEF o
  <2> QED
    BY <2>1, <2>2, BeginStarts, RequestsAreSome, RequestsRead
<1> QED
  BY <1>1, <1>2, <1>3, <1>4, <1>5, <1>6 DEF MyCall

\* The part of my_open, and then that of the other functions.
LEMMA OpenGoesOn ==
  ASSUME OpsOK, NEW c \in Client,
         OpenFound(c) \/ OpenNotFound(c) \/ OpenDir(c) \/ OpenCreated(c)
  PROVE  GoesOn(c) \/ Ends(c)
<1>1. CASE OpenFound(c)
  BY <1>1, ReturnEnds DEF OpenFound
<1>2. CASE OpenNotFound(c)
  <2> DEFINE o == [op[c] EXCEPT !.at = "open_dir"]
  <2>1. DOMAIN o = OpFields /\ o.at \notin Resting
    BY DEF OpsOK, OpFields, Resting
  <2>2. /\ Back(c, "open")
        /\ Next_call(c, o, LookupRequest(newdirname(op[c].path)), FALSE)
    BY <1>2 DEF OpenNotFound
  <2> HIDE DEF o
  <2> QED
    BY <2>1, <2>2, NextGoesOn, RequestsAreSome, RequestsRead
<1>3. CASE OpenDir(c)
  <2> DEFINE o == [op[c] EXCEPT !.at = "open_create", !.fsize = Result(c).size]
  <2>1. DOMAIN o = OpFields /\ o.at \notin Resting
    BY DEF OpsOK, OpFields, Resting
  <2>2. /\ Back(c, "open_dir")
        /\ \/ Next_call(c, o, CreateRequest(op[c].path,
                                            DirOf(op[c].path, Result(c).file)), TRUE)
           \/ Return(c)
    BY <1>3 DEF OpenDir
  <2> HIDE DEF o
  <2> QED
    BY <2>1, <2>2, NextGoesOn, RequestsAreSome, RequestsRead, ReturnEnds
<1>4. CASE OpenCreated(c)
  BY <1>4, ReturnEnds DEF OpenCreated
<1> QED
  BY <1>1, <1>2, <1>3, <1>4

LEMMA PartGoesOn ==
  ASSUME OpsOK, NEW c \in Client, ReadPart(c) \/ WritePart(c) \/ PartFails(c)
  PROVE  GoesOn(c) \/ Ends(c)
<1>1. CASE ReadPart(c)
  <2> DEFINE data == Result(c).data
             fd == AdvanceRead(fdesc(c, op[c].file), Len(data))
             o == [op[c] EXCEPT !.left = @ - Len(data), !.buffer = @ \o data]
             idle == [o EXCEPT !.at = "idle"]
  <2>1. /\ DOMAIN o = OpFields /\ o.at = op[c].at
        /\ DOMAIN idle = OpFields
    BY DEF OpsOK, OpFields
  <2>2. /\ Back(c, "read")
        /\ \/ Goto(c, idle) /\ EndCall(c)
           \/ Next_call(c, o, ReadRequest(fd, o.left), FALSE)
    BY <1>1 DEF ReadPart
  <2> HIDE DEF o, idle, fd
  <2>3. o.at \notin Resting
    BY <2>1, <2>2 DEF Back, Resting
  <2>4. CASE Goto(c, idle) /\ EndCall(c)
    BY <2>1, <2>2, <2>4 DEF Back, Goto, Ends, OpGoes
  <2>5. CASE Next_call(c, o, ReadRequest(fd, o.left), FALSE)
    <3>1. /\ ReadRequest(fd, o.left) # NoRequest
          /\ OnlyReads(ReadRequest(fd, o.left))
      BY RequestsAreSome, RequestsRead
    <3> QED
      BY <2>1, <2>2, <2>3, <2>5, <3>1, NextGoesOn
  <2> QED
    BY <2>2, <2>4, <2>5
<1>2. CASE WritePart(c)
  <2> DEFINE n == Min({MAX_WRITE_DATA, op[c].left})
             fd == Written(fdesc(c, op[c].file), Result(c).size, n)
             o == [op[c] EXCEPT !.left = @ - n]
  <2>1. DOMAIN o = OpFields /\ o.at = op[c].at
    BY DEF OpsOK, OpFields
  <2>2. /\ Back(c, "write")
        /\ Return(c) \/ Next_call(c, o, WriteRequest(fd, o.left), TRUE)
    BY <1>2 DEF WritePart
  <2> HIDE DEF o, fd
  <2>3. o.at \notin Resting
    BY <2>1, <2>2 DEF Back, Resting
  <2> QED
    BY <2>1, <2>2, <2>3, NextGoesOn, RequestsAreSome, RequestsRead, ReturnEnds
<1>3. CASE PartFails(c)
  BY <1>3, ReturnEnds DEF PartFails
<1> QED
  BY <1>1, <1>2, <1>3

LEMMA DirectoryGoesOn ==
  ASSUME OpsOK, NEW c \in Client,
         \/ ListFound(c) \/ Listing(c)
         \/ MkdirLookedUp(c) \/ MkdirDir(c) \/ MkdirMade(c)
  PROVE  GoesOn(c) \/ Ends(c)
<1> DEFINE To(label) == [op[c] EXCEPT !.at = label]
<1>1. \A label : DOMAIN To(label) = OpFields /\ To(label).at = label
  BY DEF OpsOK, OpFields
<1>2. ASSUME NEW label, NEW req, NEW all \in BOOLEAN, NEW at,
             Back(c, at), label \notin Resting, Next_call(c, To(label), req, all),
             req # NoRequest, all \/ OnlyReads(req)
      PROVE  GoesOn(c)
  <2> HIDE DEF To
  <2> QED
    BY <1>1, <1>2, NextGoesOn
<1>3. CASE ListFound(c)
  <2>1. /\ Back(c, "list")
        /\ Next_call(c, To("list_dir"), ListRequest(Result(c).file), FALSE) \/ Return(c)
    BY <1>3 DEF ListFound
  <2> HIDE DEF To
  <2> QED
    BY <1>2, <2>1, ReturnEnds, RequestsAreSome, RequestsRead DEF Resting
<1>4. CASE Listing(c) \/ MkdirMade(c)
  BY <1>4, ReturnEnds DEF Listing, MkdirMade
<1>5. CASE MkdirLookedUp(c)
  <2>1. /\ Back(c, "mkdir")
        /\ \/ Return(c)
           \/ Next_call(c, To("mkdir_make"), MkdirRequest(op[c].path, ROOT), TRUE)
           \/ Next_call(c, To("mkdir_dir"), LookupRequest(newdirname(op[c].path)), FALSE)
    BY <1>5 DEF MkdirLookedUp
  <2> HIDE DEF To
  <2> QED
    BY <1>2, <2>1, ReturnEnds, RequestsAreSome, RequestsRead DEF Resting
<1>6. CASE MkdirDir(c)
  <2>1. /\ Back(c, "mkdir_dir")
        /\ \/ Return(c)
           \/ Next_call(c, To("mkdir_make"),
                        MkdirRequest(op[c].path, Result(c).file), TRUE)
    BY <1>6 DEF MkdirDir
  <2> HIDE DEF To
  <2> QED
    BY <1>2, <2>1, ReturnEnds, RequestsAreSome, RequestsRead DEF Resting
<1> QED
  BY <1>3, <1>4, <1>5, <1>6

LEMMA StepGoesOn ==
  ASSUME OpsOK, NEW c \in Client, MyStep(c)
  PROVE  GoesOn(c) \/ Ends(c)
<1>1. ASSUME Exit(c) PROVE Ends(c)
  <2>1. DOMAIN [op[c] EXCEPT !.at = "exited"] = OpFields
    BY DEF OpsOK
  <2> QED
    BY <1>1, <2>1 DEF Exit, Goto, Ends, OpGoes
<1> QED
  BY <1>1, OpenGoesOn, PartGoesOn, DirectoryGoesOn DEF MyStep

LEMMA ReturnTakes ==
  ASSUME NEW c \in Client, Returns(c), TakeLast(c)
  PROVE  BoxTaken(c) /\ UNCHANGED <<Num_servers, up>>
BY DEF Returns, TakeLast, IsLast, Arrived, BoxTaken

\* The clients' calls: a step of c, one of the servers, or none.
RemoteKinds ==
    \/ RemoteStep /\ UNCHANGED op
    \/ \E c \in Client : Starts(c) \/ GoesOn(c) \/ Ends(c) \/ Closes(c)
    \/ UNCHANGED <<rcVars, op>>

LEMMA StepsAreRemote ==
  ASSUME OpsOK, [MyFsNext]_fsVars
  PROVE  RemoteKinds
<1>1. CASE UNCHANGED fsVars
  BY <1>1 DEF fsVars, myVars, RemoteKinds
<1>2. CASE RemoteStep /\ UNCHANGED myVars
  BY <1>2 DEF myVars, RemoteKinds
<1>3. ASSUME NEW c \in Client, MyCall(c) \/ MyStep(c) PROVE RemoteKinds
  BY <1>3, CallStarts, StepGoesOn DEF RemoteKinds
<1> QED
  BY <1>1, <1>2, <1>3 DEF MyFsNext

LEMMA OpsOKInit == MyFsInit => OpsOK
BY DEF MyFsInit, RemoteInit, OpsOK, OpFields, Idle, NoCall

LEMMA OpsOKNext ==
  ASSUME NetTypeOK, OpsOK, RemoteKinds
  PROVE  OpsOK'
<1> USE DEF OpsOK
<1>1. CASE UNCHANGED <<rcVars, op>>
  BY <1>1 DEF rcVars
<1>2. CASE RemoteStep /\ UNCHANGED op
  <2>1. ASSUME NEW d \in Client PROVE call'[d].req = call[d].req
    <3>1. CASE call' = call
      BY <3>1
    <3>2. ASSUME NEW c \in Client, Recv(c) PROVE call'[d].req = call[d].req
      BY <3>2 DEF Recv, NetTypeOK
    <3> QED
      BY <1>2, <3>1, <3>2 DEF RemoteStep, Handle, Stop
  <2> QED
    BY <1>2, <2>1
<1>3. ASSUME NEW c \in Client, NEW o, OpGoes(c, o),
             \A d \in Client : d # c => call'[d] = call[d],
             o.at \in Resting => call'[c].req = NoRequest
      PROVE  OpsOK'
  BY <1>3 DEF OpGoes
<1>4. ASSUME NEW c \in Client, Issues(c) PROVE OpsOK'
  <2>1. PICK o : OpGoes(c, o) /\ o.at \notin Resting
    BY <1>4 DEF Issues
  <2>2. \A d \in Client : d # c => call'[d] = call[d]
    BY <1>4 DEF Issues, Issue, NetTypeOK
  <2> QED
    BY <1>3, <2>1, <2>2
<1>5. ASSUME NEW c \in Client, Ends(c) PROVE OpsOK'
  <2>1. PICK o : OpGoes(c, o)
    BY <1>5 DEF Ends
  <2>2. /\ \A d \in Client : d # c => call'[d] = call[d]
        /\ call'[c].req = NoRequest
    BY <1>5 DEF Ends, EndCall, NetTypeOK, NoCall
  <2> QED
    BY <1>3, <2>1, <2>2
<1>6. ASSUME NEW c \in Client, Closes(c) PROVE OpsOK'
  <2>1. call' = call /\ call[c].req = NoRequest /\ OpGoes(c, Idle)
    BY <1>6 DEF Closes, rcVars, Resting
  <2> QED
    BY <1>3, <2>1
<1> QED
  BY <1>1, <1>2, <1>4, <1>5, <1>6 DEF RemoteKinds, Starts, GoesOn

LEMMA NetInvSame ==
  ASSUME NetInv, UNCHANGED rcVars
  PROVE  NetInv'
<1>1. /\ Num_servers' = Num_servers /\ up' = up /\ srv_box' = srv_box
      /\ cli_box' = cli_box /\ next_sn' = next_sn /\ rr_index' = rr_index
      /\ call' = call
  BY DEF rcVars
<1>2. Server' = Server
  BY <1>1 DEF Server
<1>3. NetTypeOK'
  BY <1>1, <1>2 DEF NetInv, NetTypeOK, IsMessage
<1>4. ASSUME NEW c \in Client PROVE CallOK(c)'
  BY <1>1, CallKept
<1> QED
  BY <1>1, <1>2, <1>3, <1>4 DEF NetInv

LEMMA NetInvNext ==
  ASSUME NetInv, OpsOK, NumbersFresh, RemoteKinds
  PROVE  NetInv'
<1>1. CASE UNCHANGED <<rcVars, op>>
  BY <1>1, NetInvSame
<1>2. CASE RemoteStep /\ UNCHANGED op
  BY <1>2, HandleKeeps, StopKeeps, RecvKeeps DEF RemoteStep
<1>3. ASSUME NEW c \in Client, Starts(c) \/ GoesOn(c) PROVE NetInv'
  BY <1>3, IssueKeeps, ReturnTakes DEF Starts, GoesOn, Issues, BoxTaken
<1>4. ASSUME NEW c \in Client, Ends(c) PROVE NetInv'
  BY <1>4, EndKeeps, ReturnTakes DEF Ends
<1>5. ASSUME NEW c \in Client, Closes(c) PROVE NetInv'
  BY <1>5, NetInvSame DEF Closes
<1> QED
  BY <1>1, <1>2, <1>3, <1>4, <1>5 DEF RemoteKinds

-----------------------------------------------------------------------------
(* The theorems.                                                           *)

LEMMA NetInvAnswers == NetInv => AnswersOnTheirWay
<1> SUFFICES ASSUME NetInv, NEW c \in Client, Waiting(c)
             PROVE  /\ \A i \in Arrivals(c) : cli_box[c][i].re = call[c].req
                    /\ Len(call[c].got) < Needed(c) /\ Needed(c) <= Copies(c)
                    /\ up = Server => Len(call[c].got) + Cardinality(Arrivals(c))
                                      + Cardinality(Requests(c)) = Copies(c)
  BY DEF AnswersOnTheirWay
<1>1. /\ OwnMessages(c) /\ Len(call[c].got) < Needed(c)
      /\ up = Server => Counted(c)
  BY DEF NetInv, CallOK
<1>2. Needed(c) <= Copies(c)
  BY MinServersIs DEF Needed, Copies, MinServers, NetInv, NetTypeOK
<1> QED
  BY <1>1, <1>2 DEF OwnMessages, Counted

\* remote_call (snfs_api.c:69-170) takes no answer for that of another request, and
\* waits only for answers that are to come, as long as next_sn does not come round
\* to a number that is still under way, with servers that stop at any time.
THEOREM AnswersFindTheirCall ==
  MyFsSpec /\ []NumbersFresh => []AnswersOnTheirWay
<1> DEFINE Inv == NetInv /\ OpsOK
<1>1. MyFsInit => Inv
  BY NetInvInit, OpsOKInit
<1>2. Inv /\ NumbersFresh /\ [MyFsNext]_fsVars => Inv'
  BY StepsAreRemote, NetInvNext, OpsOKNext DEF NetInv
<1>3. Inv => AnswersOnTheirWay
  BY NetInvAnswers
<1> HIDE DEF Inv
<1> QED
  BY <1>1, <1>2, <1>3, PTL DEF MyFsSpec
-----------------------------------------------------------------------------
(* Servers that do not stop.                                               *)

\* As the code is compiled, while no server stops: a read goes to one server, and
\* there is more than one serial number.
Steady == MaxStops = 0 /\ READ_SERVERS_M = 1 /\ SN_RANGE > 1

\* All that is under way for c is of the call it waits in.
QuietCall(c) ==
    /\ call[c].req # NoRequest => call[c].sent
    /\ \A s \in Server : \A m \in srv_box[s] :
          m.from = c => Waiting(c) /\ m.sn = call[c].sn
    /\ \A i \in DOMAIN cli_box[c] : Waiting(c) /\ cli_box[c][i].sn = call[c].sn
    /\ Waiting(c) => /\ call[c].sn \in 0 .. SN_RANGE - 1
                     /\ next_sn[c] = NextNumber(call[c].sn)

QuietInv == up = Server /\ \A c \in Client : QuietCall(c)

LEMMA NextIsOther ==
  ASSUME SN_RANGE > 1, NEW n \in 0 .. SN_RANGE - 1
  PROVE  NextNumber(n) # n
<1> DEFINE x == n + 1
<1>1. /\ SN_RANGE \in Nat \ {0} /\ x \in Nat /\ x < SN_RANGE + SN_RANGE
      /\ x # n /\ x - SN_RANGE # n
  BY RemoteAssumption
<1> HIDE DEF x
<1>2. x % SN_RANGE = (IF x < SN_RANGE THEN x ELSE x - SN_RANGE)
  BY <1>1, RoundOnce
<1>3. x % SN_RANGE # n
  BY <1>1, <1>2
<1> QED
  BY <1>3 DEF NextNumber, x

LEMMA QuietFresh ==
  ASSUME QuietInv, SN_RANGE > 1
  PROVE  NumbersFresh
<1>1. ASSUME NEW c \in Client, Waiting(c) PROVE next_sn[c] # call[c].sn
  BY <1>1, NextIsOther DEF QuietInv, QuietCall
<1> QED
  BY <1>1 DEF NumbersFresh, QuietInv, QuietCall

LEMMA QuietInit == MyFsInit => QuietInv
BY DEF MyFsInit, RemoteInit, QuietInv, QuietCall, NoCall, Waiting

\* A step that leaves the call of c alone, and what is under way for it.
LEMMA QuietKept ==
  ASSUME NEW c \in Client, QuietCall(c),
         Num_servers' = Num_servers, call'[c] = call[c], next_sn'[c] = next_sn[c],
         cli_box'[c] = cli_box[c],
         \A s \in Server : \A m \in srv_box'[s] : m.from = c => m \in srv_box[s]
  PROVE  QuietCall(c)'
<1>1. Server' = Server /\ Waiting(c)' = Waiting(c)
  BY DEF Server, Waiting
<1> QED
  BY <1>1 DEF QuietCall

\* The call whose last answer is taken leaves nothing behind.
LEMMA Drains ==
  ASSUME NetInv, QuietInv, READ_SERVERS_M = 1,
         NEW c \in Client, Returns(c), TakeLast(c)
  PROVE  /\ DOMAIN cli_box'[c] = {}
         /\ \A s \in Server : \A m \in srv_box[s] : m.from # c
<1> DEFINE box == cli_box[c]
           L == Len(call[c].got)
           A == Cardinality(Arrivals(c))
           R == Cardinality(Requests(c))
           N == Copies(c)
<1>1. /\ call[c].sent /\ IsLast(c) /\ Waiting(c)
      /\ box # << >> /\ Head(box).sn = call[c].sn
  BY DEF Returns, QuietInv, QuietCall, IsLast, Arrived, IsAnswer
<1>2. NetTypeOK /\ QuietCall(c) /\ Counted(c)
  BY <1>1 DEF NetInv, CallOK, QuietInv
<1>3. /\ cli_box'[c] = Tail(box)
      /\ Len(box) \in Nat \ {0} /\ DOMAIN box = 1 .. Len(box)
      /\ DOMAIN Tail(box) = 1 .. Len(box) - 1
  BY <1>1, <1>2, TailIsSeq DEF TakeLast, NetTypeOK
<1>4. Arrivals(c) = 1 .. Len(box)
  BY <1>2, <1>3 DEF QuietCall, Arrivals
<1>5. A = Len(box)
  BY <1>3, <1>4, FS_Interval
<1>6. N = Needed(c) /\ N \in Nat
  BY <1>2, MinServersIs DEF Copies, Needed, MinServers, NetTypeOK
<1>7. L + 1 >= N /\ L + A + R = N
  BY <1>1, <1>2, <1>6 DEF IsLast, Counted
<1>8. L \in Nat /\ A \in Nat /\ R \in Nat /\ IsFiniteSet(Requests(c))
  BY <1>2, CountsAreNumbers
<1> HIDE DEF L, A, R, N
<1>9. A = 1 /\ R = 0
  <2>1. A # 0
    BY <1>3, <1>5
  <2> QED
    BY <1>6, <1>7, <1>8, <2>1
<1>10. Requests(c) = {}
  BY <1>8, <1>9, FS_EmptySet DEF R
<1>11. \A s \in Server : \A m \in srv_box[s] : m.from # c
  BY <1>2, <1>10 DEF QuietCall, Requests
<1>12. DOMAIN cli_box'[c] = {}
  BY <1>3, <1>5, <1>9
<1> QED
  BY <1>11, <1>12

LEMMA QuietHandle ==
  ASSUME NetInv, QuietInv, NEW s \in Server, NEW msg \in srv_box[s],
         Handle(s, msg)
  PROVE  QuietInv'
<1> DEFINE d == msg.from
           rep == Reply(msg, Serve(store[s], msg.req).answer)
<1>1. /\ srv_box' = [srv_box EXCEPT ![s] = @ \ {msg}]
      /\ cli_box' = [cli_box EXCEPT ![d] = Append(@, rep)]
      /\ UNCHANGED <<Num_servers, up, next_sn, rr_index, call>>
  BY DEF Handle
<1>2. NetTypeOK /\ d \in Client /\ Waiting(d) /\ rep.sn = call[d].sn
  BY DEF NetInv, NetTypeOK, IsMessage, QuietInv, QuietCall, Reply
<1> HIDE DEF rep
<1>3. Server' = Server
  BY <1>1 DEF Server
<1>4. /\ \A r \in Server : \A m \in srv_box'[r] : m \in srv_box[r]
      /\ cli_box'[d] = Append(cli_box[d], rep)
      /\ \A c \in Client : c # d => cli_box'[c] = cli_box[c]
  BY <1>1, <1>2 DEF NetTypeOK
<1>5. /\ DOMAIN cli_box'[d] = DOMAIN cli_box[d] \cup {Len(cli_box[d]) + 1}
      /\ \A i \in DOMAIN cli_box[d] : cli_box'[d][i] = cli_box[d][i]
      /\ cli_box'[d][Len(cli_box[d]) + 1] = rep
  <2>1. IsSeq(cli_box[d])
    BY <1>2 DEF NetTypeOK
  <2> QED
    BY <1>4, <2>1, AppendIsSeq
<1>6. ASSUME NEW c \in Client, c # d PROVE QuietCall(c)'
  BY <1>1, <1>4, <1>6, QuietKept DEF QuietInv
<1>7. QuietCall(d)'
  <2>1. QuietCall(d)
    BY <1>2 DEF QuietInv
  <2>2. Waiting(d)'
    BY <1>1, <1>2 DEF Waiting
  <2>3. \A i \in DOMAIN cli_box'[d] : cli_box'[d][i].sn = call[d].sn
    BY <1>2, <1>5, <2>1 DEF QuietCall
  <2> QED
    BY <1>1, <1>2, <1>3, <1>4, <2>1, <2>2, <2>3 DEF QuietCall
<1> QED
  BY <1>1, <1>3, <1>6, <1>7 DEF QuietInv

LEMMA QuietRecv ==
  ASSUME NetInv, QuietInv, NEW c \in Client, Recv(c)
  PROVE  QuietInv'
<1>1. /\ Waiting(c) /\ cli_box[c] # << >>
      /\ cli_box' = [cli_box EXCEPT ![c] = Tail(@)]
      /\ UNCHANGED <<Num_servers, up, srv_box, next_sn>>
      /\ \/ call' = call
         \/ call' = [call EXCEPT ![c].got = Append(@, Head(cli_box[c]).answer)]
  BY DEF Recv, Arrived
<1>2. NetTypeOK /\ Server' = Server
  BY <1>1 DEF NetInv, Server
<1>3. /\ \A d \in Client : d # c => call'[d] = call[d]
      /\ call'[c].req = call[c].req /\ call'[c].sn = call[c].sn
      /\ call'[c].sent = call[c].sent
  BY <1>1, <1>2 DEF NetTypeOK
<1>4. /\ \A d \in Client : d # c => cli_box'[d] = cli_box[d]
      /\ \A i \in DOMAIN cli_box'[c] : \E j \in DOMAIN cli_box[c] :
            cli_box'[c][i] = cli_box[c][j]
  BY <1>1, <1>2, BoxTakenFrom DEF BoxTaken
<1>5. ASSUME NEW d \in Client, d # c PROVE QuietCall(d)'
  BY <1>1, <1>3, <1>4, <1>5, QuietKept DEF QuietInv
<1>6. QuietCall(c)'
  <2>1. QuietCall(c) /\ Waiting(c)'
    BY <1>1, <1>3 DEF QuietInv, Waiting
  <2> QED
    BY <1>1, <1>2, <1>3, <1>4, <2>1 DEF QuietCall
<1> QED
  BY <1>1, <1>2, <1>5, <1>6 DEF QuietInv

\* Nobody stops.
LEMMA QuietStop ==
  ASSUME NetTypeOK, QuietInv, MaxStops = 0, NEW s \in Server, Stop(s)
  PROVE  FALSE
BY ServersAreSome DEF NetTypeOK, QuietInv, Stop

\* Then one is missing.
LEMMA StopLeavesOne ==
  ASSUME NEW s \in Server, Stop(s)
  PROVE  up' # Server'
<1>1. Server' = Server /\ s \notin up'
  BY DEF Stop, Server
<1> QED
  BY <1>1

LEMMA QuietIssue ==
  ASSUME NetInv, QuietInv, NEW c \in Client, NEW req, NEW all \in BOOLEAN,
         Issue(c, req, all), req # NoRequest, BoxTaken(c), UNCHANGED <<Num_servers, up>>,
         DOMAIN cli_box'[c] = {}, \A s \in Server : \A m \in srv_box[s] : m.from # c
  PROVE  QuietInv'
<1> DEFINE to == ToSet(Targets(c, all))
           n == next_sn[c]
           msg == Message(c, req)
<1>1. /\ next_sn' = [next_sn EXCEPT ![c] = NextNumber(@)]
      /\ srv_box' = [s \in Server |->
                       srv_box[s] \cup IF s \in Reached(c, all) THEN {msg} ELSE {}]
      /\ call' = [call EXCEPT ![c] = [req |-> req, sn |-> n, all |-> all,
                                      sent |-> to \subseteq up, got |-> << >>]]
  BY DEF Issue
<1>2. NetTypeOK /\ Server' = Server /\ up = Server
  BY DEF NetInv, Server, QuietInv
<1>3. to \subseteq up
  BY <1>2, TargetsCounted
<1>4. msg.from = c /\ msg.sn = n
  BY DEF Message
<1> HIDE DEF msg, to
<1>5. /\ \A d \in Client : d # c => call'[d] = call[d] /\ next_sn'[d] = next_sn[d]
      /\ call'[c].sn = n /\ call'[c].sent /\ call'[c].req = req
      /\ n \in 0 .. SN_RANGE - 1 /\ next_sn'[c] = NextNumber(n)
  BY <1>1, <1>2, <1>3 DEF NetTypeOK
<1>6. \A s \in Server : \A m \in srv_box'[s] : m \in srv_box[s] \/ m = msg
  BY <1>1
<1>7. ASSUME NEW d \in Client, d # c PROVE QuietCall(d)'
  <2>1. cli_box'[d] = cli_box[d]
    BY <1>2, <1>7, BoxTakenFrom
  <2>2. \A s \in Server : \A m \in srv_box'[s] : m.from = d => m \in srv_box[s]
    BY <1>4, <1>6, <1>7
  <2> QED
    BY <1>5, <1>7, <2>1, <2>2, QuietKept DEF QuietInv
<1>8. QuietCall(c)'
  <2>1. Waiting(c)'
    BY <1>5 DEF Waiting
  <2>2. \A s \in Server : \A m \in srv_box'[s] : m.from = c => m.sn = call'[c].sn
    BY <1>4, <1>5, <1>6
  <2> QED
    BY <1>2, <1>5, <2>1, <2>2 DEF QuietCall
<1> QED
  BY <1>2, <1>7, <1>8 DEF QuietInv

LEMMA QuietEnd ==
  ASSUME NetInv, QuietInv, NEW c \in Client,
         EndCall(c), BoxTaken(c), UNCHANGED <<Num_servers, up>>,
         DOMAIN cli_box'[c] = {}, \A s \in Server : \A m \in srv_box[s] : m.from # c
  PROVE  QuietInv'
<1>1. call' = [call EXCEPT ![c] = NoCall] /\ UNCHANGED <<srv_box, next_sn>>
  BY DEF EndCall
<1>2. NetTypeOK /\ Server' = Server /\ up = Server
  BY DEF NetInv, Server, QuietInv
<1>3. call'[c] = NoCall /\ \A d \in Client : d # c => call'[d] = call[d]
  BY <1>1, <1>2 DEF NetTypeOK
<1>4. ASSUME NEW d \in Client, d # c PROVE QuietCall(d)'
  <2>1. cli_box'[d] = cli_box[d]
    BY <1>2, <1>4, BoxTakenFrom
  <2> QED
    BY <1>1, <1>3, <1>4, <2>1, QuietKept DEF QuietInv
<1>5. QuietCall(c)'
  <2>1. call'[c].req = NoRequest /\ ~Waiting(c)'
    BY <1>3 DEF NoCall, Waiting
  <2> QED
    BY <1>1, <1>2, <2>1 DEF QuietCall
<1> QED
  BY <1>2, <1>4, <1>5 DEF QuietInv

LEMMA QuietSame ==
  ASSUME QuietInv, UNCHANGED rcVars
  PROVE  QuietInv'
<1>1. /\ Num_servers' = Num_servers /\ up' = up /\ srv_box' = srv_box
      /\ cli_box' = cli_box /\ next_sn' = next_sn /\ call' = call
  BY DEF rcVars
<1>2. Server' = Server
  BY <1>1 DEF Server
<1>3. ASSUME NEW c \in Client PROVE QuietCall(c)'
  BY <1>1, QuietKept DEF QuietInv
<1> QED
  BY <1>1, <1>2, <1>3 DEF QuietInv

LEMMA QuietNext ==
  ASSUME READ_SERVERS_M = 1, NetInv, OpsOK, QuietInv, RemoteKinds, up' = Server'
  PROVE  QuietInv'
<1>1. NetTypeOK /\ READ_SERVERS_M = 1
  BY DEF NetInv
<1>2. CASE UNCHANGED <<rcVars, op>>
  BY <1>2, QuietSame
<1>3. CASE RemoteStep /\ UNCHANGED op
  BY <1>3, QuietHandle, StopLeavesOne, QuietRecv DEF RemoteStep
<1>4. ASSUME NEW c \in Client, Starts(c) PROVE QuietInv'
  <2>1. cli_box' = cli_box /\ Issues(c) /\ call[c].req = NoRequest
    BY <1>4 DEF Starts, OpsOK, Resting
  <2>2. /\ DOMAIN cli_box'[c] = {}
        /\ \A s \in Server : \A m \in srv_box[s] : m.from # c
    BY <2>1 DEF QuietInv, QuietCall, Waiting
  <2>3. PICK req : \E all \in BOOLEAN : Issue(c, req, all) /\ req # NoRequest
    BY <2>1 DEF Issues
  <2> QED
    BY <2>1, <2>2, <2>3, QuietIssue DEF Issues, BoxTaken
<1>5. ASSUME NEW c \in Client, GoesOn(c) PROVE QuietInv'
  <2>1. /\ Returns(c) /\ TakeLast(c) /\ BoxTaken(c) /\ UNCHANGED <<Num_servers, up>>
        /\ Issues(c)
    BY <1>5, ReturnTakes DEF GoesOn
  <2>2. /\ DOMAIN cli_box'[c] = {}
        /\ \A s \in Server : \A m \in srv_box[s] : m.from # c
    BY <1>1, <2>1, Drains
  <2>3. PICK req : \E all \in BOOLEAN : Issue(c, req, all) /\ req # NoRequest
    BY <2>1 DEF Issues
  <2> QED
    BY <2>1, <2>2, <2>3, QuietIssue
<1>6. ASSUME NEW c \in Client, Ends(c) PROVE QuietInv'
  <2>1. /\ Returns(c) /\ TakeLast(c) /\ BoxTaken(c) /\ UNCHANGED <<Num_servers, up>>
        /\ EndCall(c)
    BY <1>6, ReturnTakes DEF Ends
  <2>2. /\ DOMAIN cli_box'[c] = {}
        /\ \A s \in Server : \A m \in srv_box[s] : m.from # c
    BY <1>1, <2>1, Drains
  <2> QED
    BY <2>1, <2>2, QuietEnd
<1>7. ASSUME NEW c \in Client, Closes(c) PROVE QuietInv'
  BY <1>7, QuietSame DEF Closes
<1> QED
  BY <1>2, <1>3, <1>4, <1>5, <1>6, <1>7 DEF RemoteKinds

LEMMA NoneStops ==
  ASSUME MaxStops = 0, NetTypeOK, QuietInv, RemoteKinds
  PROVE  up' = Server'
<1>1. UNCHANGED <<Num_servers, up>>
  <2>1. CASE RemoteStep
    BY <2>1, QuietStop DEF RemoteStep, Handle, Recv
  <2>2. CASE ~RemoteStep
    BY <2>2, ReturnTakes DEF RemoteKinds, Starts, GoesOn, Ends, Closes, Issues, rcVars
  <2> QED
    BY <2>1, <2>2
<1> QED
  BY <1>1 DEF Server, QuietInv

\* remote_call (snfs_api.c:69-170), as it is compiled (READ_SERVERS_M is 1, line 41)
\* and while no server stops: whatever the clients do and in whichever order the
\* servers answer, a call that returns leaves no answer behind and the next one finds
\* its own.
THEOREM AnswersWhileSteady ==
  Steady => (MyFsSpec => []AnswersOnTheirWay)
<1> SUFFICES ASSUME Steady PROVE MyFsSpec => []AnswersOnTheirWay
  OBVIOUS
<1> DEFINE Inv == NetInv /\ OpsOK /\ QuietInv
<1>1. MyFsInit => Inv
  BY NetInvInit, OpsOKInit, QuietInit
<1>2. Inv /\ [MyFsNext]_fsVars => Inv'
  <2> SUFFICES ASSUME Inv, [MyFsNext]_fsVars PROVE Inv'
    OBVIOUS
  <2>1. RemoteKinds
    BY StepsAreRemote
  <2>2. NumbersFresh
    BY QuietFresh DEF Steady
  <2>3. up' = Server'
    BY <2>1, NoneStops DEF NetInv, Steady
  <2> QED
    BY <2>1, <2>2, <2>3, NetInvNext, OpsOKNext, QuietNext DEF NetInv, Steady
<1>3. Inv => AnswersOnTheirWay
  BY NetInvAnswers
<1> HIDE DEF Inv
<1> QED
  BY <1>1, <1>2, <1>3, PTL DEF MyFsSpec

-----------------------------------------------------------------------------
(* Servers that store the same.                                            *)

\* One client, as the code is compiled.
OneClient == (\E c : Client = {c}) /\ READ_SERVERS_M = 1 /\ SN_RANGE > 1

\* What a server stores that has handled the request under way, if it stored st
\* before.
After(st, c) == IF call[c].req # NoRequest THEN Serve(st, call[c].req).store ELSE st

\* All servers have handled the same requests, but for the one under way.
Alike(st, c) ==
    \A s \in Server : store[s] = IF srv_box[s] = {} THEN After(st, c) ELSE st

AlikeInv == DOMAIN store = Server /\ \A c \in Client : \E st : Alike(st, c)

\* The one message in a server's socket is the request of the call.
LEMMA OneMessage ==
  ASSUME NetInv, QuietInv, NEW c, Client = {c}, NEW s \in Server, NEW msg \in srv_box[s]
  PROVE  srv_box[s] = {msg} /\ msg.req = call[c].req /\ call[c].req # NoRequest
<1>1. ASSUME NEW m \in srv_box[s]
      PROVE  /\ m = [from |-> m.from, sn |-> m.sn, req |-> m.req]
             /\ m.from = c /\ m.sn = call[c].sn /\ m.req = call[c].req /\ Waiting(c)
  <2>1. IsMessage(m) /\ c \in Client
    BY DEF NetInv, NetTypeOK
  <2>2. m.from = c /\ QuietCall(c) /\ CallOK(c)
    BY <2>1 DEF IsMessage, QuietInv, NetInv
  <2>3. Waiting(c) /\ m.sn = call[c].sn
    BY <2>2 DEF QuietCall
  <2>4. m.req = call[c].req
    BY <2>2, <2>3 DEF CallOK, OwnMessages
  <2> QED
    BY <2>1, <2>2, <2>3, <2>4 DEF IsMessage
<1>2. \A m \in srv_box[s] : m = msg
  BY <1>1
<1> QED
  BY <1>1, <1>2 DEF Waiting

LEMMA AlikeInit == MyFsInit => AlikeInv
<1> SUFFICES ASSUME MyFsInit PROVE AlikeInv
  OBVIOUS
<1>1. ASSUME NEW c \in Client PROVE Alike(NewStore, c)
  BY DEF MyFsInit, RemoteInit, NoCall, Alike, After
<1>2. DOMAIN store = Server
  BY DEF MyFsInit, RemoteInit
<1> QED
  BY <1>1, <1>2 DEF AlikeInv

LEMMA AlikeHandle ==
  ASSUME NetInv, QuietInv, AlikeInv, NEW c, Client = {c}, NEW st, Alike(st, c),
         NEW s \in Server, NEW msg \in srv_box[s], Handle(s, msg)
  PROVE  DOMAIN store' = Server' /\ Alike(st, c)'
<1>1. srv_box[s] = {msg} /\ msg.req = call[c].req /\ call[c].req # NoRequest
  BY OneMessage
<1>2. /\ store' = [store EXCEPT ![s] = Serve(store[s], msg.req).store]
      /\ srv_box' = [srv_box EXCEPT ![s] = @ \ {msg}]
      /\ call' = call /\ Server' = Server
  BY DEF Handle, Server
<1>3. store[s] = st /\ DOMAIN store = Server /\ DOMAIN srv_box = Server
  BY <1>1 DEF Alike, AlikeInv, NetInv, NetTypeOK
<1>4. After(st, c)' = Serve(st, msg.req).store /\ After(st, c)' = After(st, c)
  BY <1>1, <1>2 DEF After
<1>5. srv_box'[s] = {} /\ store'[s] = Serve(st, msg.req).store
  BY <1>1, <1>2, <1>3
<1>6. \A r \in Server : r # s => srv_box'[r] = srv_box[r] /\ store'[r] = store[r]
  BY <1>2, <1>3
<1>7. ASSUME NEW r \in Server
      PROVE  store'[r] = IF srv_box'[r] = {} THEN After(st, c)' ELSE st
  <2>1. CASE r = s
    BY <1>4, <1>5, <2>1
  <2>2. CASE r # s
    BY <1>4, <1>6, <2>2 DEF Alike
  <2> QED
    BY <2>1, <2>2
<1>8. DOMAIN store' = Server
  BY <1>2, <1>3
<1> QED
  BY <1>2, <1>7, <1>8 DEF Alike

LEMMA AlikeSame ==
  ASSUME NEW c, NEW st, Alike(st, c), UNCHANGED <<Num_servers, store, srv_box>>,
         call'[c].req = call[c].req
  PROVE  Alike(st, c)'
<1>1. Server' = Server /\ After(st, c)' = After(st, c)
  BY DEF Server, After
<1> QED
  BY <1>1 DEF Alike

LEMMA AlikeRecv ==
  ASSUME NetInv, AlikeInv, NEW c \in Client, NEW st, Alike(st, c), Recv(c)
  PROVE  Alike(st, c)'
<1>1. /\ UNCHANGED <<Num_servers, store, srv_box>>
      /\ \/ call' = call
         \/ call' = [call EXCEPT ![c].got = Append(@, Head(cli_box[c]).answer)]
  BY DEF Recv
<1>2. call'[c].req = call[c].req
  BY <1>1 DEF NetInv, NetTypeOK
<1> QED
  BY <1>1, <1>2, AlikeSame

\* When no request is under way the servers store the same, and the next one finds
\* them so.
LEMMA AlikeIssue ==
  ASSUME NetInv, QuietInv, AlikeInv, NEW c \in Client, NEW st, Alike(st, c),
         NEW req, NEW all \in BOOLEAN, Issue(c, req, all), req # NoRequest,
         all \/ OnlyReads(req), UNCHANGED <<Num_servers, up, store>>,
         \A s \in Server : srv_box[s] = {}
  PROVE  \E now : Alike(now, c)'
<1> DEFINE msg == Message(c, req)
<1>0. PICK now : now = After(st, c)
  OBVIOUS
<1>1. \A s \in Server : store'[s] = now
  BY <1>0 DEF Alike
<1>2. /\ call'[c].req = req /\ Server' = Server
      /\ \A s \in Server : srv_box'[s] = IF s \in Reached(c, all) THEN {msg} ELSE {}
  BY DEF Issue, NetInv, NetTypeOK, Server
<1>3. all => Reached(c, all) = Server
  <2> SUFFICES ASSUME all PROVE Reached(c, all) = Server
    OBVIOUS
  <2> DEFINE to == Targets(c, all)
  <2>1. /\ DOMAIN to = 1 .. Num_servers /\ Num_servers \in Nat
        /\ \A i \in 1 .. Num_servers : to[i] = i - 1
    BY DEF Targets, NetInv, NetTypeOK
  <2> HIDE DEF to
  <2>2. ASSUME NEW s \in Server PROVE s \in ToSet(to)
    <3>1. s + 1 \in 1 .. Num_servers /\ to[s + 1] = s
      BY <2>1 DEF Server
    <3> QED
      BY <2>1, <3>1 DEF ToSet
  <2>3. ToSet(to) \subseteq Server
    BY TargetsCounted DEF to, NetInv
  <2>4. ToSet(to) = Server /\ up = Server
    BY <2>2, <2>3 DEF QuietInv
  <2>5. ToSet(to) \subseteq up => Reached(c, all) = ToSet(to)
    BY AllReached DEF to, NetInv
  <2> QED
    BY <2>4, <2>5
<1> HIDE DEF msg
<1>4. ASSUME NEW s \in Server, srv_box'[s] = {} PROVE Serve(now, req).store = now
  <2>1. s \notin Reached(c, all)
    BY <1>2, <1>4
  <2>2. OnlyReads(req)
    BY <1>3, <2>1
  <2> QED
    BY <2>2 DEF OnlyReads
<1>5. ASSUME NEW s \in Server
      PROVE  store'[s] = IF srv_box'[s] = {} THEN Serve(now, req).store ELSE now
  BY <1>1, <1>4
<1>6. After(now, c)' = Serve(now, req).store
  BY <1>2 DEF After
<1>7. Alike(now, c)'
  BY <1>2, <1>5, <1>6 DEF Alike
<1> QED
  BY <1>7

LEMMA AlikeEnd ==
  ASSUME NetInv, AlikeInv, NEW c \in Client, NEW st, Alike(st, c), EndCall(c),
         UNCHANGED <<Num_servers, store>>, \A s \in Server : srv_box[s] = {}
  PROVE  \E now : Alike(now, c)'
<1>0. PICK now : now = After(st, c)
  OBVIOUS
<1>1. call'[c].req = NoRequest /\ srv_box' = srv_box /\ Server' = Server
  BY DEF EndCall, NoCall, NetInv, NetTypeOK, Server
<1>2. \A s \in Server : store'[s] = now
  BY <1>0 DEF Alike
<1>3. Alike(now, c)'
  BY <1>1, <1>2 DEF Alike, After
<1> QED
  BY <1>3

LEMMA AlikeNext ==
  ASSUME OneClient, NetInv, OpsOK, QuietInv, AlikeInv, RemoteKinds, up' = Server'
  PROVE  AlikeInv'
<1>1. PICK c : Client = {c}
  BY DEF OneClient
<1>2. PICK st : Alike(st, c)
  BY <1>1 DEF AlikeInv
<1>3. c \in Client /\ DOMAIN store = Server
  BY <1>1 DEF AlikeInv
<1>4. ASSUME NEW now, Alike(now, c)', UNCHANGED <<Num_servers, store>> PROVE AlikeInv'
  <2>1. Server' = Server
    BY <1>4 DEF Server
  <2> QED
    BY <1>1, <1>3, <1>4, <2>1 DEF AlikeInv
<1>5. ASSUME \A s \in Server : \A m \in srv_box[s] : m.from # c
      PROVE  \A s \in Server : srv_box[s] = {}
  BY <1>1, <1>5 DEF NetInv, NetTypeOK, IsMessage
<1>6. ASSUME Issues(c), \A s \in Server : srv_box[s] = {} PROVE AlikeInv'
  <2>1. PICK req : \E all \in BOOLEAN : /\ Issue(c, req, all) /\ req # NoRequest
                                        /\ all \/ OnlyReads(req)
    BY <1>6 DEF Issues
  <2>2. UNCHANGED <<Num_servers, up, store>>
    BY <1>6 DEF Issues
  <2>3. \E now : Alike(now, c)'
    BY <1>2, <1>3, <1>6, <2>1, <2>2, AlikeIssue
  <2> QED
    BY <1>4, <2>2, <2>3
<1>7. CASE UNCHANGED <<rcVars, op>>
  BY <1>2, <1>4, <1>7, AlikeSame DEF rcVars
<1>8. CASE RemoteStep
  <2>1. ASSUME NEW s \in Server, NEW msg \in srv_box[s], Handle(s, msg) PROVE AlikeInv'
    BY <1>1, <1>2, <2>1, AlikeHandle DEF AlikeInv
  <2>2. ASSUME NEW d \in Client, Recv(d) PROVE AlikeInv'
    <3>1. Alike(st, c)'
      BY <1>1, <1>2, <2>2, AlikeRecv
    <3> QED
      BY <1>4, <2>2, <3>1 DEF Recv
  <2> QED
    BY <1>8, <2>1, <2>2, StopLeavesOne DEF RemoteStep
<1>9. CASE Starts(c)
  <2>1. \A s \in Server : \A m \in srv_box[s] : m.from # c
    BY <1>3, <1>9 DEF Starts, OpsOK, Resting, QuietInv, QuietCall, Waiting
  <2> QED
    BY <1>5, <1>6, <1>9, <2>1 DEF Starts
<1>10. ASSUME Returns(c), TakeLast(c) PROVE \A s \in Server : srv_box[s] = {}
  BY <1>3, <1>5, <1>10, Drains DEF OneClient
<1>11. CASE GoesOn(c)
  BY <1>6, <1>10, <1>11 DEF GoesOn
<1>12. CASE Ends(c)
  <2>1. EndCall(c) /\ UNCHANGED <<Num_servers, store>>
    BY <1>12 DEF Ends, TakeLast
  <2>2. \A s \in Server : srv_box[s] = {}
    BY <1>10, <1>12 DEF Ends
  <2>3. \E now : Alike(now, c)'
    BY <1>2, <1>3, <2>1, <2>2, AlikeEnd
  <2> QED
    BY <1>4, <2>1, <2>3
<1>13. CASE Closes(c)
  BY <1>2, <1>4, <1>13, AlikeSame DEF Closes, rcVars
<1> QED
  BY <1>1, <1>7, <1>8, <1>9, <1>11, <1>12, <1>13 DEF RemoteKinds

\* Which servers run.
RunningOK == Num_servers \in 1 .. 8 /\ up \subseteq Server

LEMMA RunningNext ==
  ASSUME RunningOK, [MyFsNext]_fsVars
  PROVE  RunningOK' /\ Server' = Server /\ up' \subseteq up
<1>1. Num_servers' = Num_servers /\ up' \subseteq up
  <2>1. CASE UNCHANGED fsVars
    BY <2>1 DEF fsVars, rcVars
  <2>2. CASE RemoteStep
    BY <2>2 DEF RemoteStep, Handle, Stop, Recv
  <2>3. ASSUME NEW c \in Client, MyCall(c) PROVE UNCHANGED <<Num_servers, up>>
    BY <2>3 DEF MyCall, my_open, my_mkdir, my_listdir, my_close, my_read, my_write,
                Begin, rcVars
  <2>4. ASSUME NEW c \in Client, MyStep(c) PROVE UNCHANGED <<Num_servers, up>>
    BY <2>4 DEF MyStep, OpenFound, OpenNotFound, OpenDir, OpenCreated, ReadPart,
                WritePart, PartFails, ListFound, Listing, MkdirLookedUp, MkdirDir,
                MkdirMade, Exit, Back, TakeLast
  <2> QED
    BY <2>1, <2>2, <2>3, <2>4 DEF MyFsNext
<1> QED
  BY <1>1 DEF RunningOK, Server

\* The servers that run store the same whenever nothing is under way: a change goes to
\* all of them and the next is sent when all have answered (snfs_api.c:86-131), and
\* what goes to one only changes nothing.
THEOREM ReplicasCorrect == OneClient => (MyFsSpec => []ReplicasAgree)
<1> SUFFICES ASSUME OneClient PROVE MyFsSpec => []ReplicasAgree
  OBVIOUS
<1> DEFINE All == NetInv /\ OpsOK /\ QuietInv /\ AlikeInv
           Inv == RunningOK /\ (up = Server => All)
<1>1. MyFsInit => Inv
  BY NetInvInit, OpsOKInit, QuietInit, AlikeInit DEF RunningOK, NetInv, NetTypeOK
<1>2. Inv /\ [MyFsNext]_fsVars => Inv'
  <2> SUFFICES ASSUME Inv, [MyFsNext]_fsVars PROVE Inv'
    OBVIOUS
  <2>1. RunningOK' /\ Server' = Server /\ up' \subseteq up /\ up \subseteq Server
    BY RunningNext DEF RunningOK
  <2>2. ASSUME up' = Server' PROVE All'
    <3>1. up = Server
      BY <2>1, <2>2
    <3>2. NetInv /\ OpsOK /\ QuietInv /\ AlikeInv
      BY <3>1
    <3>3. RemoteKinds
      BY <3>2, StepsAreRemote
    <3>4. NumbersFresh /\ READ_SERVERS_M = 1
      BY <3>2, QuietFresh DEF OneClient
    <3>5. NetInv' /\ OpsOK'
      BY <3>2, <3>3, <3>4, NetInvNext, OpsOKNext DEF NetInv
    <3>6. QuietInv' /\ AlikeInv'
      BY <2>2, <3>2, <3>3, <3>4, QuietNext, AlikeNext
    <3> QED
      BY <3>5, <3>6
  <2> QED
    BY <2>1, <2>2
<1>3. Inv => ReplicasAgree
  <2> SUFFICES ASSUME Inv, OneOrder, \A s \in Server : srv_box[s] = {},
                      NEW s \in up, NEW r \in up
               PROVE  store[s] = store[r]
    BY DEF ReplicasAgree
  <2>1. s \in Server /\ r \in Server /\ Num_servers \in 1 .. 8
    BY DEF RunningOK
  <2>2. CASE up = Server
    <3>1. PICK c \in Client : TRUE
      BY DEF OneClient
    <3>2. PICK st : Alike(st, c)
      BY <2>2, <3>1 DEF AlikeInv
    <3> QED
      BY <2>1, <3>2 DEF Alike
  <2>3. CASE up # Server
    <3>1. s = r
      <4>1. Num_servers \in {1, 2}
        BY <2>3 DEF OneOrder
      <4>2. Server \subseteq {0, 1}
        BY <4>1 DEF Server
      <4>3. PICK x \in Server : x \notin up
        BY <2>3 DEF RunningOK
      <4> QED
        BY <2>1, <4>2, <4>3
    <3> QED
      BY <3>1
  <2> QED
    BY <2>2, <2>3
<1> HIDE DEF Inv
<1> QED
  BY <1>1, <1>2, <1>3, PTL DEF MyFsSpec
=============================================================================
