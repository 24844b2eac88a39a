------------------------------- MODULE Backend -------------------------------
(***************************************************************************)
(* The MySQL server at the far end of one pooled connection, as the proxy  *)
(* uses it.  The server is not part of the repository: what is modelled    *)
(* here is the exchange that authenticator.rs and the forwarders rely on.  *)
(*                                                                         *)
(* A server connection is a record.  `inbox' holds the packets the server  *)
(* has sent and the proxy has not read.  The server answers a request in   *)
(* the step that sends it: the proxy reads in order and blocks until a     *)
(* packet arrives, so a slower server only delays the read.                *)
(***************************************************************************)
EXTENDS Naturals, Sequences

CONSTANTS
  Clients,   \* client connections accepted by the proxy
  Users,     \* database users
  None       \* "nothing here"

ASSUME NoneAssumption == None \notin Clients /\ None \notin Users

(* What a packet is, as far as its first byte and its length tell.  A      *)
(* "switch" (AuthSwitchRequest), an "eof" (EOF packet, at most 5 bytes)    *)
(* and a "reof" (the OK packet that ends a result set for clients with     *)
(* CLIENT_DEPRECATE_EOF, at least 7 bytes) all start with 0xfe.            *)
Kinds == {"greeting", "switch", "ok", "err", "data", "eof", "reof", "infile"}

HeaderFE(kind) == kind \in {"switch", "eof", "reof"}

(* `to' is the client whose request the packet answers.                    *)
Packet == [kind : Kinds, to : Clients]

Pkt(k, s) == [kind |-> k, to |-> s]

(* greeted: handshake sent; switching: waits for the answer to an          *)
(* AuthSwitchRequest; ready: authenticated; infile: waits for the file of  *)
(* a LOAD DATA LOCAL; closed: the server end is gone.                      *)
BStates == {"greeted", "switching", "ready", "infile", "closed"}

BackendConn ==
  [state : BStates,
   user  : Users \cup {None},     \* authenticated as
   pend  : Users \cup {None},     \* being authenticated
   dirty : Clients \cup {None},   \* whose statements shaped the session state
   deof  : BOOLEAN,               \* CLIENT_DEPRECATE_EOF was negotiated
   inbox : Seq(Packet)]

NoConn ==
  [state |-> "closed", user |-> None, pend |-> None, dirty |-> None,
   deof |-> FALSE, inbox |-> <<>>]

(* A new TCP connection: the server greets.                                *)
Greet(s) ==
  [state |-> "greeted", user |-> None, pend |-> None, dirty |-> None,
   deof |-> FALSE, inbox |-> <<Pkt("greeting", s)>>]

Send(b, k, s) == Append(b.inbox, Pkt(k, s))

(* The server gives up on a packet it did not expect.                      *)
Reject(b, s) ==
  [b EXCEPT !.state = "closed", !.user = None, !.pend = None,
            !.inbox = Send(b, "err", s)]

(* A HandshakeResponse or a COM_CHANGE_USER that names an unknown plugin:  *)
(* the session state is dropped and an AuthSwitchRequest is sent.  Only    *)
(* the HandshakeResponse carries capabilities.  A server that still waits  *)
(* for the answer to an earlier AuthSwitchRequest takes the packet for     *)
(* that answer and refuses it; one that waits for a file takes it for a    *)
(* part of the file.                                                       *)
RequestAuth(b, s, u, d) ==
  CASE b.state \in {"greeted", "ready"} ->
         [b EXCEPT !.state = "switching", !.user = None, !.pend = u,
                   !.dirty = None, !.inbox = Send(b, "switch", s),
                   !.deof = IF b.state = "greeted" THEN d ELSE @]
    [] b.state = "switching" -> Reject(b, s)
    [] OTHER -> b

(* The client's answer to an AuthSwitchRequest; `good' is the server's     *)
(* verdict on the password.                                                *)
AnswerAuth(b, s, good) ==
  CASE b.state = "switching" /\ good ->
         [b EXCEPT !.state = "ready", !.user = b.pend, !.pend = None,
                   !.inbox = Send(b, "ok", s)]
    [] b.state = "switching" /\ ~good -> Reject(b, s)
    [] b.state = "ready" -> [b EXCEPT !.inbox = Send(b, "err", s)]
    [] OTHER -> b

(* The packets of a result set; its rows are one "data" packet.            *)
ResultSet(b) ==
  IF b.deof THEN <<"data", "reof">> ELSE <<"data", "eof", "data", "eof">>

Rows(b) == IF b.deof THEN <<"data", "reof">> ELSE <<"data", "eof">>

(* A statement that is answered by the packets `kinds'.                    *)
Execute(b, s, kinds) ==
  CASE b.state = "ready" ->
         [b EXCEPT !.state = IF kinds = <<"infile">> THEN "infile" ELSE @,
                   !.dirty = s,
                   !.inbox = @ \o [i \in 1..Len(kinds) |-> Pkt(kinds[i], s)]]
    [] b.state = "switching" -> Reject(b, s)
    [] OTHER -> b

(* COM_RESET_CONNECTION.                                                   *)
ResetSession(b, s) ==
  CASE b.state = "ready" ->
         [b EXCEPT !.dirty = None, !.inbox = Send(b, "ok", s)]
    [] b.state = "switching" -> Reject(b, s)
    [] OTHER -> b

(* The proxy reads one packet.                                             *)
Read(b) == [b EXCEPT !.inbox = Tail(b.inbox)]

(* The server goes away; what it sent before can still be read.            *)
Close(b) == [b EXCEPT !.state = "closed", !.user = None, !.pend = None]
==============================================================================
