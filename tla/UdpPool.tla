------------------------------ MODULE UdpPool ------------------------------
(***************************************************************************)
(* What the sessions expect of the UDP port pair they share: it is bound   *)
(* for the first user, stays the same as long as somebody uses it, and is  *)
(* given back with the last user.  Port 0 means that no pair was free.     *)
(***************************************************************************)
EXTENDS Naturals

CONSTANTS Session, Port

VARIABLES
    users,   \* the sessions that use the pair
    port     \* the RTP port of the pair

poolVars == <<users, port>>

Init ==
    /\ users = {}
    /\ port = 0

Acquire(s) ==
    /\ s \notin users
    /\ users' = users \cup {s}
    /\ IF users = {} THEN port' \in Port \cup {0} ELSE port' = port

Leave(s) ==
    /\ s \in users
    /\ users' = users \ {s}
    /\ port' = IF users' = {} THEN 0 ELSE port

Next == \E s \in Session : Acquire(s) \/ Leave(s)

Spec == Init /\ [][Next]_poolVars
=============================================================================
