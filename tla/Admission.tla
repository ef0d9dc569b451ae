------------------------------ MODULE Admission ------------------------------
(***************************************************************************)
(* What --max-connections promises, with no counter in it: a connection is *)
(* admitted, that is, dialled through to its Cloud SQL instance, only      *)
(* while fewer than MaxConnections others are.  Zero means no limit.       *)
(* Refusing a connection is a stuttering step here: the promise bounds     *)
(* what is established and says nothing about who is turned away.          *)
(***************************************************************************)
EXTENDS Naturals, FiniteSets

CONSTANTS Conns,            \* client connections
          MaxConnections    \* Config.MaxConnections, 0 for no limit

VARIABLE admitted           \* the connections being dialled or proxied

Init == admitted = {}

Admit(c) ==
    /\ c \notin admitted
    /\ MaxConnections > 0 => Cardinality(admitted) < MaxConnections
    /\ admitted' = admitted \cup {c}

Release(c) ==
    /\ c \in admitted
    /\ admitted' = admitted \ {c}

Next == \E c \in Conns : Admit(c) \/ Release(c)

Spec == Init /\ [][Next]_admitted
==============================================================================
