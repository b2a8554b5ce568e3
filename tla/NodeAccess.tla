----------------------------- MODULE NodeAccess -----------------------------
(***************************************************************************)
(* What the console lock promises of the consoles of devices (comment of   *)
(* type ConsoleLock): a GNS3 console takes one connection at a time, so a  *)
(* device is owned by at most one user, and only its owner is connected.   *)
(***************************************************************************)
CONSTANTS Nodes, Users

VARIABLES
    owner,   \* owner[n]: who owns node n, empty or a singleton
    conn     \* conn[n]: who is connected to the console of n

vars == <<owner, conn>>

Init ==
    /\ owner = [n \in Nodes |-> {}]
    /\ conn = [n \in Nodes |-> {}]

Acquire(p, n) ==
    /\ owner[n] = {}
    /\ owner' = [owner EXCEPT ![n] = {p}]
    /\ UNCHANGED conn

Connect(p, n) ==
    /\ owner[n] = {p}
    /\ conn' = [conn EXCEPT ![n] = @ \cup {p}]
    /\ UNCHANGED owner

Disconnect(p, n) ==
    /\ conn' = [conn EXCEPT ![n] = @ \ {p}]
    /\ UNCHANGED owner

\* Ownership outlives the connection.
Release(p, n) ==
    /\ owner[n] = {p} /\ conn[n] = {}
    /\ owner' = [owner EXCEPT ![n] = {}]
    /\ UNCHANGED conn

Next ==
    \E p \in Users, n \in Nodes :
        Acquire(p, n) \/ Connect(p, n) \/ Disconnect(p, n) \/ Release(p, n)

Spec == Init /\ [][Next]_vars
=============================================================================
