------------------------------ MODULE Monitor -------------------------------
(***************************************************************************)
(* What a monitor promises: mutual exclusion, entry in FIFO order with     *)
(* direct hand-over, and waiting threads that a signal moves, oldest       *)
(* first, behind the threads that already want to enter.                   *)
(***************************************************************************)
EXTENDS Sequences, Functions

CONSTANTS Thread, NULL

VARIABLES owner, entry, waiting

monitorVars == <<owner, entry, waiting>>

Outside(t) == t # owner /\ t \notin Range(entry) \cup Range(waiting)

MonitorInit == owner = NULL /\ entry = << >> /\ waiting = << >>

Enter(t) ==
    /\ Outside(t)
    /\ IF owner = NULL
       THEN owner' = t /\ UNCHANGED entry
       ELSE entry' = Append(entry, t) /\ UNCHANGED owner
    /\ UNCHANGED waiting

\* The owner goes; the thread that has waited longest to enter is the next.
HandOver ==
    /\ owner # NULL
    /\ IF entry = << >>
       THEN owner' = NULL /\ UNCHANGED entry
       ELSE owner' = Head(entry) /\ entry' = Tail(entry)

Leave == HandOver /\ UNCHANGED waiting

Wait == HandOver /\ waiting' = Append(waiting, owner)

Signal ==
    /\ owner # NULL
    /\ waiting # << >>
    /\ waiting' = Tail(waiting)
    /\ entry' = Append(entry, Head(waiting))
    /\ UNCHANGED owner

\* Signal and then Leave, in one step: nobody else can act in between.
SignalLeave ==
    /\ owner # NULL
    /\ IF waiting = << >>
       THEN Leave
       ELSE LET e == Append(entry, Head(waiting))
            IN  owner' = Head(e) /\ entry' = Tail(e) /\ waiting' = Tail(waiting)

MonitorNext == (\E t \in Thread : Enter(t)) \/ Leave \/ Wait \/ Signal

MonitorSpec == MonitorInit /\ [][MonitorNext]_monitorVars
=============================================================================
