------------------------------ MODULE MCServer ------------------------------
(***************************************************************************)
(* Small instances of Server for TLC.                                      *)
(***************************************************************************)
EXTENDS Server, TLC

CONSTANTS c1, c2, c3

Symmetry == Permutations(Consumer)

-----------------------------------------------------------------------------
(* Traffic that never ends: whenever the socket has nothing, an empty      *)
(* datagram comes.                                                         *)

Trickle ==
    /\ inbox = << >>
    /\ \E r \in Empty : inbox' = <<r>>
    /\ UNCHANGED <<unsent, ringVars, cpc, req_d, replies, rwVars>>

TrickleSpec == /\ ServerInit
               /\ [][ServerNext \/ Trickle]_serverVars
               /\ Fairness
               /\ WF_serverVars(Trickle)
=============================================================================
