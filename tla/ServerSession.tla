--------------------------- MODULE ServerSession ----------------------------
(***************************************************************************)
(* What sharing a server promises to its users: whoever joins finds a      *)
(* server, keeps that one until the own departure, whoever else comes or   *)
(* goes, and a server is closed only when it has no users.                 *)
(***************************************************************************)
CONSTANTS
    Users,       \* whoever may use or be the server
    NoServer

VARIABLES
    users,       \* who uses the server
    host         \* the server that answers, or NoServer

Init == users = {} /\ host = NoServer

Open(s) == /\ host = NoServer /\ users = {}
           /\ host' = s
           /\ UNCHANGED users

Join(u) == /\ host # NoServer
           /\ users' = users \cup {u}
           /\ UNCHANGED host

Depart(u) == u \in users /\ users' = users \ {u} /\ UNCHANGED host

Close == users = {} /\ host' = NoServer /\ UNCHANGED users

Next == Close \/ \E u \in Users : Open(u) \/ Join(u) \/ Depart(u)

Step == Next \/ UNCHANGED <<users, host>>

Spec == Init /\ [][Step]_<<users, host>>
=============================================================================
