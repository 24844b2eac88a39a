------------------------------ MODULE ConnLease ------------------------------
(***************************************************************************)
(* What the pool of backend connections promises the sessions: a session   *)
(* has at most one connection, no two sessions have the same one, and no   *)
(* more than MaxSize are out at any time.  How a connection is found,      *)
(* created, checked or queued is left open.                                *)
(***************************************************************************)
EXTENDS Naturals, FiniteSets

CONSTANTS Clients, Conns, None, MaxSize

VARIABLE lease   \* the connection each session has, or None

Leased == {s \in Clients : lease[s] # None}

Init == lease = [s \in Clients |-> None]

(* A session gets a connection nobody has.                                 *)
Lease(s, c) ==
  /\ lease[s] = None
  /\ Cardinality(Leased) < MaxSize
  /\ \A t \in Clients : lease[t] # c
  /\ lease' = [lease EXCEPT ![s] = c]

(* A session gives its connection back.                                    *)
Return(s) ==
  /\ lease[s] # None
  /\ lease' = [lease EXCEPT ![s] = None]

Next == \E s \in Clients : Return(s) \/ \E c \in Conns : Lease(s, c)

Spec == Init /\ [][Next]_lease
==============================================================================
