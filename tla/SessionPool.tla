----------------------------- MODULE SessionPool -----------------------------
(***************************************************************************)
(* The life of a client connection in the proxy: HaentglServer::connect    *)
(* and on_com (server/haentgl_server.rs), the authenticator, the command   *)
(* forwarders, and the pool of backend connections they share              *)
(* (backend/pool, on top of deadpool's managed pool).                      *)
(*                                                                         *)
(* Each client is served by one spawned task.  Its program counter says    *)
(* which await the task is at; one action is what the task does between    *)
(* two awaits that other tasks or the peers can affect.  The pool of one   *)
(* backend instance is modelled; sessions of different instances share     *)
(* nothing.                                                                *)
(***************************************************************************)
EXTENDS Backend, Integers, FiniteSets

CONSTANTS
  Conns,       \* identities of backend connections
  MaxSize,     \* BackendPoolConfig.max_size
  Commands,    \* the command classes the clients use
  Caps,        \* CLIENT_DEPRECATE_EOF values the clients announce
  Aborts,      \* may a client vanish in the middle of an exchange?
  AnswersFF,   \* may a client's answer to an AuthSwitchRequest, which is a
               \* hash, start with 0xff?
  InboxBound   \* requests are followed while at most so many packets of the
               \* connection are unread

CommandClasses ==
  {"query", "fetch", "generic", "close", "changeuser", "infile", "longdata"}

ASSUME PoolAssumption ==
  /\ MaxSize \in Nat \ {0}
  /\ None \notin Conns
  /\ IsFiniteSet(Clients)
  /\ Commands \subseteq CommandClasses
  /\ Caps \subseteq BOOLEAN
  /\ Aborts \in BOOLEAN /\ AnswersFF \in BOOLEAN
  /\ InboxBound \in Nat

VARIABLES
  pc,        \* where the task of each client is
  user,      \* the user the client asked to be
  deof,      \* the client's CLIENT_DEPRECATE_EOF flag
  held,      \* the pooled connection the task holds
  foreign,   \* has the client been sent a packet that answers another client?
  waiters,   \* tasks queued on the pool's semaphore, first come first served
  permits,   \* free permits of the semaphore
  idle,      \* the pool's queue of idle connections
  size,      \* the pool's count of live connections
  phase,     \* DbUserConnLifeCycle.conn_phase of each connection
  be         \* the server end of each connection

clientVars == <<pc, user, deof, held, foreign>>
poolVars == <<waiters, permits, idle, size, phase>>
vars == <<pc, user, deof, held, foreign, waiters, permits, idle, size, phase,
          be>>

(* start: no connection from this client; routed: handshake done; get:     *)
(* waits in Pool::get; slot: owns a permit, looks for a connection;        *)
(* create: opens one; auth: has one, authentication not begun; greeting,   *)
(* switch, answer, verdict: the steps of the authentication; command:      *)
(* on_com waits for a command; first, cols, rows, one: a forwarder waits   *)
(* for the backend; cuser, cuanswer: ChangeUserForwarder waits for the     *)
(* backend, for the client; reset: ResetConnForwarder waits.               *)
Outside   == {"start", "routed", "get"}
Acquiring == {"slot", "create"}
AuthSteps == {"auth", "greeting", "switch", "answer", "verdict"}
ReadSteps == {"greeting", "switch", "verdict"}
FwdSteps  == {"first", "cols", "rows", "one", "cuser", "reset"}
ComSteps  == {"command", "cuanswer"} \cup FwdSteps
Steps     == Outside \cup Acquiring \cup AuthSteps \cup ComSteps
Phases    == {"None", "Connection", "Command"}

TypeOK ==
  /\ pc \in [Clients -> Steps]
  /\ user \in [Clients -> Users \cup {None}]
  /\ deof \in [Clients -> BOOLEAN]
  /\ held \in [Clients -> Conns \cup {None}]
  /\ foreign \in [Clients -> BOOLEAN]
  /\ waiters \in Seq(Clients)
  /\ permits \in 0..MaxSize
  /\ idle \in Seq(Conns)
  /\ size \in 0..MaxSize
  /\ phase \in [Conns -> Phases]
  /\ be \in [Conns -> BackendConn]

Init ==
  /\ pc = [s \in Clients |-> "start"]
  /\ user = [s \in Clients |-> None]
  /\ deof = [s \in Clients |-> FALSE]
  /\ held = [s \in Clients |-> None]
  /\ foreign = [s \in Clients |-> FALSE]
  /\ waiters = <<>>
  /\ permits = MaxSize
  /\ idle = <<>>
  /\ size = 0
  /\ phase = [c \in Conns |-> "None"]
  /\ be = [c \in Conns |-> NoConn]

----------------------------------------------------------------------------
(* Building blocks.                                                        *)

Goto(s, step) == pc' = [pc EXCEPT ![s] = step]

(* The task is over: the client's record is forgotten.                     *)
EndTask(s) ==
  /\ Goto(s, "start")
  /\ user' = [user EXCEPT ![s] = None]
  /\ deof' = [deof EXCEPT ![s] = FALSE]
  /\ foreign' = [foreign EXCEPT ![s] = FALSE]

(* Dropping the pooled object, on a return, an error or a panic: deadpool  *)
(* queues it and frees the permit.                                         *)
ReturnObject(s) ==
  /\ held' = [held EXCEPT ![s] = None]
  /\ idle' = Append(idle, held[s])
  /\ permits' = permits + 1
  /\ UNCHANGED <<waiters, size>>

(* The session ends with the life cycle of its connection as it is.        *)
EndSession(s) ==
  /\ EndTask(s)
  /\ ReturnObject(s)
  /\ UNCHANGED phase

(* The authentication failed: the connection is marked before it goes      *)
(* back.                                                                   *)
AuthFailed(s) ==
  /\ EndTask(s)
  /\ ReturnObject(s)
  /\ phase' = [phase EXCEPT ![held[s]] = "Connection"]

(* The next packet of the backend, and its consumption.                    *)
HasPacket(s) == be[held[s]].inbox # <<>>
Room(s) == Len(be[held[s]].inbox) <= InboxBound
NextPacket(s) == Head(be[held[s]].inbox)
ReadPacket(s) == be' = [be EXCEPT ![held[s]] = Read(@)]

(* The packet is passed on to the client.                                  *)
Deliver(s) ==
  /\ ReadPacket(s)
  /\ foreign' = [foreign EXCEPT ![s] = @ \/ NextPacket(s).to # s]

----------------------------------------------------------------------------
(* Before the pool.                                                        *)

(* on_conn: the proxy greets the client and parses its response.           *)
OnConn(s, u, d) ==
  /\ pc[s] = "start"
  /\ Goto(s, "routed")
  /\ user' = [user EXCEPT ![s] = u]
  /\ deof' = [deof EXCEPT ![s] = d]
  /\ UNCHANGED <<held, foreign, poolVars, be>>

(* connect_to_backend finds a pool: the task queues on its semaphore.      *)
ConnectToBackend(s) ==
  /\ pc[s] = "routed"
  /\ Goto(s, "get")
  /\ waiters' = Append(waiters, s)
  /\ UNCHANGED <<user, deof, held, foreign, permits, idle, size, phase, be>>

(* connect_to_backend finds none: the session ends.                        *)
NoBackend(s) ==
  /\ pc[s] = "routed"
  /\ EndTask(s)
  /\ UNCHANGED <<held, poolVars, be>>

----------------------------------------------------------------------------
(* Pool::get.                                                              *)

(* Mutant: the newest waiter is served first.                              *)
AcquirePermitNewest(s) ==
  /\ pc[s] = "get"
  /\ waiters # <<>>
  /\ waiters[Len(waiters)] = s
  /\ permits > 0
  /\ permits' = permits - 1
  /\ waiters' = SubSeq(waiters, 1, Len(waiters) - 1)
  /\ Goto(s, "slot")
  /\ UNCHANGED <<user, deof, held, foreign, idle, size, phase, be>>

(* The first waiter gets a permit.                                         *)
AcquirePermit(s) ==
  /\ pc[s] = "get"
  /\ waiters # <<>>
  /\ Head(waiters) = s
  /\ permits > 0
  /\ permits' = permits - 1
  /\ waiters' = Tail(waiters)
  /\ Goto(s, "slot")
  /\ UNCHANGED <<user, deof, held, foreign, idle, size, phase, be>>

(* PooledConnMgr::recycle accepts a connection that never authenticated    *)
(* and one that is in the command phase.                                   *)
Recyclable(c) == phase[c] # "Connection"

(* Mutant: the connection is used but stays in the queue.                  *)
TakeIdleShared(s) ==
  /\ pc[s] = "slot"
  /\ idle # <<>>
  /\ Recyclable(Head(idle))
  /\ held' = [held EXCEPT ![s] = Head(idle)]
  /\ Goto(s, "auth")
  /\ UNCHANGED <<user, deof, foreign, waiters, permits, idle, size, phase, be>>

(* The oldest idle connection is popped and recycled.                      *)
TakeIdle(s) ==
  /\ pc[s] = "slot"
  /\ idle # <<>>
  /\ Recyclable(Head(idle))
  /\ held' = [held EXCEPT ![s] = Head(idle)]
  /\ idle' = Tail(idle)
  /\ Goto(s, "auth")
  /\ UNCHANGED <<user, deof, foreign, waiters, permits, size, phase, be>>

(* recycle refuses it: it is detached (closed) and the search goes on.     *)
DiscardIdle(s) ==
  /\ pc[s] = "slot"
  /\ idle # <<>>
  /\ ~Recyclable(Head(idle))
  /\ idle' = Tail(idle)
  /\ size' = size - 1
  /\ phase' = [phase EXCEPT ![Head(idle)] = "None"]
  /\ be' = [be EXCEPT ![Head(idle)] = NoConn]
  /\ UNCHANGED <<clientVars, waiters, permits>>

(* No idle connection: the task goes on to open one.                       *)
NoneIdle(s) ==
  /\ pc[s] = "slot"
  /\ idle = <<>>
  /\ Goto(s, "create")
  /\ UNCHANGED <<user, deof, held, foreign, poolVars, be>>

(* The connections that exist.                                             *)
Live == {idle[i] : i \in DOMAIN idle} \cup {held[s] : s \in Clients}

(* PooledConnMgr::create: a new connection, with no life cycle yet.        *)
Create(s, c) ==
  /\ pc[s] = "create"
  /\ c \notin Live
  /\ held' = [held EXCEPT ![s] = c]
  /\ size' = size + 1
  /\ phase' = [phase EXCEPT ![c] = "None"]
  /\ be' = [be EXCEPT ![c] = Greet(s)]
  /\ Goto(s, "auth")
  /\ UNCHANGED <<user, deof, foreign, waiters, permits, idle>>

(* Mutant: a task that panics in create keeps its permit.                  *)
CreatePanicsLeaks(s) ==
  /\ pc[s] = "create"
  /\ EndTask(s)
  /\ UNCHANGED <<held, permits, waiters, idle, size, phase, be>>

(* BackendIO::new fails and create unwraps the error: the task panics and  *)
(* unwinding gives the permit back.                                        *)
CreatePanics(s) ==
  /\ pc[s] = "create"
  /\ EndTask(s)
  /\ permits' = permits + 1
  /\ UNCHANGED <<held, waiters, idle, size, phase, be>>

----------------------------------------------------------------------------
(* Authentication on the pooled connection.                                *)

(* Mutant: a connection last used by the same user is not authenticated    *)
(* again.                                                                  *)
ContinueAuthSkips(s) ==
  /\ pc[s] = "auth"
  /\ phase[held[s]] = "Command"
  /\ Room(s)
  /\ IF be[held[s]].user = user[s]
       THEN Goto(s, "command") /\ UNCHANGED be
       ELSE /\ be' = [be EXCEPT ![held[s]] = RequestAuth(@, s, user[s], deof[s])]
            /\ Goto(s, "switch")
  /\ UNCHANGED <<user, deof, held, foreign, poolVars>>

(* The connection served a session before: continue_auth sends a           *)
(* COM_CHANGE_USER for the new client.                                     *)
ContinueAuth(s) ==
  /\ pc[s] = "auth"
  /\ phase[held[s]] = "Command"
  /\ Room(s)
  /\ be' = [be EXCEPT ![held[s]] = RequestAuth(@, s, user[s], deof[s])]
  /\ Goto(s, "switch")
  /\ UNCHANGED <<user, deof, held, foreign, poolVars>>

(* Otherwise reply_handshake_response waits for the server's greeting.     *)
AwaitGreeting(s) ==
  /\ pc[s] = "auth"
  /\ phase[held[s]] # "Command"
  /\ Goto(s, "greeting")
  /\ UNCHANGED <<user, deof, held, foreign, poolVars, be>>

(* The greeting is read and dropped; the client's response is sent on with *)
(* an unknown plugin name.                                                 *)
ReplyHandshake(s) ==
  /\ pc[s] = "greeting"
  /\ HasPacket(s)
  /\ be' = [be EXCEPT ![held[s]] = RequestAuth(Read(@), s, user[s], deof[s])]
  /\ Goto(s, "switch")
  /\ UNCHANGED <<user, deof, held, foreign, poolVars>>

(* mysql_common cannot parse what the proxy's own parser accepted: `?'     *)
(* ends the authentication after the greeting was read.                    *)
ReplyHandshakeFails(s) ==
  /\ pc[s] = "greeting"
  /\ HasPacket(s)
  /\ ReadPacket(s)
  /\ AuthFailed(s)

(* Mutant: the AuthSwitchRequest is shown to the client but not consumed.  *)
ForwardSwitchPeeks(s) ==
  /\ pc[s] = "switch"
  /\ HasPacket(s)
  /\ HeaderFE(NextPacket(s).kind)
  /\ Goto(s, "answer")
  /\ UNCHANGED <<user, deof, held, foreign, be, poolVars>>

(* process_auth_switch_plugin: a packet that starts with 0xfe is passed on *)
(* as the AuthSwitchRequest.                                               *)
ForwardSwitch(s) ==
  /\ pc[s] = "switch"
  /\ HasPacket(s)
  /\ HeaderFE(NextPacket(s).kind)
  /\ Deliver(s)
  /\ Goto(s, "answer")
  /\ UNCHANGED <<user, deof, held, poolVars>>

(* assert_eq!(AUTH_SWITCH_REQUEST, pkt[0]) fails: the task panics, and the *)
(* connection goes back with the life cycle it had.                        *)
SwitchAssertPanics(s) ==
  /\ pc[s] = "switch"
  /\ HasPacket(s)
  /\ ~HeaderFE(NextPacket(s).kind)
  /\ ReadPacket(s)
  /\ EndSession(s)

(* The client's answer is passed on.                                       *)
ForwardAnswer(s, good) ==
  /\ pc[s] = "answer"
  /\ be' = [be EXCEPT ![held[s]] = AnswerAuth(@, s, good)]
  /\ Goto(s, "verdict")
  /\ UNCHANGED <<user, deof, held, foreign, poolVars>>

(* Anything but an ERR packet is taken for success.                        *)
AuthSucceeds(s) ==
  /\ pc[s] = "verdict"
  /\ HasPacket(s)
  /\ NextPacket(s).kind # "err"
  /\ Deliver(s)
  /\ phase' = [phase EXCEPT ![held[s]] = "Command"]
  /\ Goto(s, "command")
  /\ UNCHANGED <<user, deof, held, waiters, permits, idle, size>>

AuthRefused(s) ==
  /\ pc[s] = "verdict"
  /\ HasPacket(s)
  /\ NextPacket(s).kind = "err"
  /\ ReadPacket(s)
  /\ AuthFailed(s)

(* The client is gone: no answer can be read from it, or the packet just   *)
(* read cannot be written to it.                                           *)
AuthClientGone(s) ==
  /\ \/ pc[s] = "answer" /\ UNCHANGED be
     \/ /\ pc[s] \in {"switch", "verdict"}
        /\ HasPacket(s)
        /\ pc[s] = "switch" => HeaderFE(NextPacket(s).kind)
        /\ ReadPacket(s)
  /\ AuthFailed(s)

(* The backend is gone: a write fails, or a read finds nothing.            *)
AuthBackendGone(s) ==
  /\ pc[s] \in AuthSteps
  /\ be[held[s]].state = "closed"
  /\ pc[s] \in ReadSteps => ~HasPacket(s)
  /\ AuthFailed(s)
  /\ UNCHANGED be

----------------------------------------------------------------------------
(* Commands: on_com picks the forwarder, writes to the backend, forwards.  *)

SendCommand(s, class, b, step) ==
  /\ class \in Commands
  /\ Room(s)
  /\ be' = [be EXCEPT ![held[s]] = b]
  /\ Goto(s, step)
  /\ UNCHANGED <<deof, held, foreign, poolVars>>

(* ComQuery, ComStmtExecute, ComProcessInfo: QueryForwarder::forward_query.*)
Query(s) ==
  /\ pc[s] = "command"
  /\ \E kinds \in {<<"ok">>, <<"err">>, ResultSet(be[held[s]])} :
       SendCommand(s, "query", Execute(be[held[s]], s, kinds), "first")
  /\ UNCHANGED user

(* A query that is LOAD DATA LOCAL INFILE.                                 *)
LoadLocal(s) ==
  /\ pc[s] = "command"
  /\ SendCommand(s, "infile", Execute(be[held[s]], s, <<"infile">>), "first")
  /\ UNCHANGED user

(* ComFieldList, ComStmtFetch: forward_until_result_end.                   *)
Fetch(s) ==
  /\ pc[s] = "command"
  /\ \E kinds \in {<<"err">>, Rows(be[held[s]])} :
       SendCommand(s, "fetch", Execute(be[held[s]], s, kinds), "rows")
  /\ UNCHANGED user

(* Commands answered by one packet: GenericComForwarder.                   *)
Generic(s) ==
  /\ pc[s] = "command"
  /\ \E kinds \in {<<"ok">>, <<"err">>} :
       SendCommand(s, "generic", Execute(be[held[s]], s, kinds), "one")
  /\ UNCHANGED user

(* ComStmtSendLongData is handled by the same forwarder, but the server    *)
(* does not answer it.                                                     *)
SendLongData(s) ==
  /\ pc[s] = "command"
  /\ SendCommand(s, "longdata", Execute(be[held[s]], s, <<>>), "one")
  /\ UNCHANGED user

(* ComStmtClose has no answer, and forward_close_stmt waits for none.      *)
StmtClose(s) ==
  /\ pc[s] = "command"
  /\ SendCommand(s, "close", Execute(be[held[s]], s, <<>>), "command")
  /\ UNCHANGED user

(* ComChangeUser.                                                          *)
ChangeUser(s, u) ==
  /\ pc[s] = "command"
  /\ SendCommand(s, "changeuser", RequestAuth(be[held[s]], s, u, deof[s]),
                 "cuser")
  /\ user' = [user EXCEPT ![s] = u]

(* ComQuit is not sent on: ResetConnForwarder resets the connection.       *)
Quit(s) ==
  /\ pc[s] = "command"
  /\ Room(s)
  /\ be' = [be EXCEPT ![held[s]] = ResetSession(@, s)]
  /\ Goto(s, "reset")
  /\ UNCHANGED <<user, deof, held, foreign, poolVars>>

(* The client closes its connection between two commands, or sends a byte  *)
(* that is no command code: an error and a panic that both end the session *)
(* with nothing sent.                                                      *)
ClientLeaves(s) ==
  /\ pc[s] = "command"
  /\ EndSession(s)
  /\ UNCHANGED be

----------------------------------------------------------------------------
(* Forwarding the answer.                                                  *)

Forward(s, step) ==
  /\ Deliver(s)
  /\ Goto(s, step)
  /\ UNCHANGED <<user, deof, held, poolVars>>

(* forward_query, first packet: OK or ERR is the whole answer, anything    *)
(* else but a LOCAL INFILE request starts a result set.  The answers of    *)
(* this server are single result sets without a cursor: the loop over      *)
(* several and the return on a cursor are in CommandExchange.              *)
ForwardFirst(s) ==
  /\ pc[s] = "first"
  /\ HasPacket(s)
  /\ NextPacket(s).kind # "infile"
  /\ Forward(s, CASE NextPacket(s).kind \in {"ok", "err"} -> "command"
               [] deof[s] -> "rows"
               [] OTHER -> "cols")

(* unimplemented!("not supported LocalInFileHeader")                       *)
InfilePanics(s) ==
  /\ pc[s] = "first"
  /\ HasPacket(s)
  /\ NextPacket(s).kind = "infile"
  /\ ReadPacket(s)
  /\ EndSession(s)

(* forward_result: column definitions up to an EOF packet.                 *)
ForwardCols(s) ==
  /\ pc[s] = "cols"
  /\ HasPacket(s)
  /\ Forward(s, IF NextPacket(s).kind = "eof" THEN "rows" ELSE "cols")

(* Mutant: the first row is taken for the end of the rows.                 *)
EndsRowsEarly(s, kind) == kind \in {"err", "data", "eof"} \/ deof[s]

(* is_eof_packet, is_result_set_eof_packet: which of the two ends the rows *)
(* depends on the client's capability.  An AuthSwitchRequest is long       *)
(* enough to pass for the second.                                          *)
EndsRows(s, kind) ==
  \/ kind = "err"
  \/ ~deof[s] /\ kind = "eof"
  \/ deof[s] /\ kind \in {"reof", "switch"}

(* forward_until_result_end.                                               *)
ForwardRows(s) ==
  /\ pc[s] = "rows"
  /\ HasPacket(s)
  /\ Forward(s, IF EndsRows(s, NextPacket(s).kind) THEN "command" ELSE "rows")

(* GenericComForwarder: exactly one packet.                                *)
ForwardOne(s) ==
  /\ pc[s] = "one"
  /\ HasPacket(s)
  /\ Forward(s, "command")

(* ChangeUserForwarder: OK ends the exchange, ERR ends the session,        *)
(* anything else is a question to the client.                              *)
ForwardChangeUser(s) ==
  /\ pc[s] = "cuser"
  /\ HasPacket(s)
  /\ NextPacket(s).kind # "err"
  /\ Forward(s, IF NextPacket(s).kind = "ok" THEN "command" ELSE "cuanswer")

ChangeUserRefused(s) ==
  /\ pc[s] = "cuser"
  /\ HasPacket(s)
  /\ NextPacket(s).kind = "err"
  /\ ReadPacket(s)
  /\ EndSession(s)

ForwardChangeUserAnswer(s, good) ==
  /\ pc[s] = "cuanswer"
  /\ be' = [be EXCEPT ![held[s]] = AnswerAuth(@, s, good)]
  /\ Goto(s, "cuser")
  /\ UNCHANGED <<user, deof, held, foreign, poolVars>>

(* The same answer, when its first byte is 0xff, as that of one hash in    *)
(* 256 is.  It has been sent on already; then is_err_packet() takes it for *)
(* an error and the session ends, with the server's verdict unread.        *)
ChangeUserAnswerErr(s) ==
  /\ AnswersFF
  /\ pc[s] = "cuanswer"
  /\ \E good \in BOOLEAN : be' = [be EXCEPT ![held[s]] = AnswerAuth(@, s, good)]
  /\ EndSession(s)

(* ResetConnForwarder reads one packet, whatever it is; on_com returns and *)
(* the session ends.                                                       *)
ForwardReset(s) ==
  /\ pc[s] = "reset"
  /\ HasPacket(s)
  /\ ReadPacket(s)
  /\ EndSession(s)

(* The client is gone in the middle of an exchange: the packet just read   *)
(* cannot be written to it, or no answer can be read from it.              *)
ClientAborts(s) ==
  /\ Aborts
  /\ \/ pc[s] = "cuanswer" /\ UNCHANGED be
     \/ /\ pc[s] \in FwdSteps \ {"reset"}
        /\ HasPacket(s)
        /\ ReadPacket(s)
  /\ EndSession(s)

(* Mutant: a read that finds the connection closed is tried again.         *)
ComBackendGoneRetries(s) ==
  /\ pc[s] \in ComSteps
  /\ be[held[s]].state = "closed"
  /\ pc[s] \in FwdSteps => ~HasPacket(s)
  /\ UNCHANGED vars

(* The backend is gone: a write fails, or a read finds nothing.            *)
ComBackendGone(s) ==
  /\ pc[s] \in ComSteps
  /\ be[held[s]].state = "closed"
  /\ pc[s] \in FwdSteps => ~HasPacket(s)
  /\ EndSession(s)
  /\ UNCHANGED be

(* A server closes a connection: timeout, restart, crash.                  *)
BackendCloses(c) ==
  /\ c \in Live
  /\ be[c].state # "closed"
  /\ be' = [be EXCEPT ![c] = Close(@)]
  /\ UNCHANGED <<clientVars, poolVars>>

----------------------------------------------------------------------------
(* What the proxy's task does on its own, ...                              *)
TaskStep(s) ==
  \/ ConnectToBackend(s) \/ NoBackend(s)
  \/ AcquirePermit(s) \/ TakeIdle(s) \/ DiscardIdle(s) \/ NoneIdle(s)
  \/ (\E c \in Conns : Create(s, c)) \/ CreatePanics(s)
  \/ ContinueAuth(s) \/ AwaitGreeting(s)
  \/ ReplyHandshake(s) \/ ReplyHandshakeFails(s)
  \/ ForwardSwitch(s) \/ SwitchAssertPanics(s)
  \/ AuthSucceeds(s) \/ AuthRefused(s) \/ AuthBackendGone(s)
  \/ ForwardFirst(s) \/ InfilePanics(s) \/ ForwardCols(s) \/ ForwardRows(s)
  \/ ForwardOne(s) \/ ForwardChangeUser(s) \/ ChangeUserRefused(s)
  \/ ForwardReset(s) \/ ComBackendGone(s)

(* ... what it does when its client answers, ...                           *)
AnswerStep(s) ==
  \E good \in BOOLEAN : ForwardAnswer(s, good) \/ ForwardChangeUserAnswer(s, good)

(* ... when its client leaves, ...                                         *)
LeaveStep(s) == Quit(s) \/ ClientLeaves(s)

(* ... and when its client does something it need not do.                  *)
ClientStep(s) ==
  \/ \E u \in Users, d \in Caps : OnConn(s, u, d)
  \/ Query(s) \/ LoadLocal(s) \/ Fetch(s) \/ Generic(s) \/ SendLongData(s)
  \/ StmtClose(s)
  \/ \E u \in Users : ChangeUser(s, u)
  \/ AuthClientGone(s) \/ ChangeUserAnswerErr(s) \/ ClientAborts(s)

Next ==
  \/ \E s \in Clients :
       TaskStep(s) \/ AnswerStep(s) \/ LeaveStep(s) \/ ClientStep(s)
  \/ \E c \in Conns : BackendCloses(c)

Spec == Init /\ [][Next]_vars

(* Fairness.  The runtime keeps polling a task that can go on.  A client   *)
(* that is asked for a password answers or goes away.  A client does not   *)
(* stay for ever: each time it is between two commands it may leave, and   *)
(* it does so in the end.                                                  *)
Fairness ==
  \A s \in Clients :
    /\ WF_vars(TaskStep(s))
    /\ WF_vars(AnswerStep(s) \/ ChangeUserAnswerErr(s) \/ AuthClientGone(s))
    /\ SF_vars(LeaveStep(s))

FairSpec == Spec /\ Fairness

----------------------------------------------------------------------------
(* Properties that hold whatever clients and servers do.                   *)

HasConn == AuthSteps \cup ComSteps

Holders == {s \in Clients : held[s] # None}
Permitted == {s \in Clients : pc[s] \notin Outside}
Creating == {s \in Clients : pc[s] = "create"}

(* A backend connection is with one session or in the idle queue, and in   *)
(* one place only, however sessions end (return, `?', panic) and whatever  *)
(* recycle decides.  haentgl_server.rs:70, pooled_conn_mgr.rs:53.          *)
ExclusiveConn ==
  /\ \A s, t \in Clients : s # t /\ held[s] # None => held[s] # held[t]
  /\ \A i, j \in 1..Len(idle) : i # j => idle[i] # idle[j]
  /\ \A i \in 1..Len(idle), s \in Clients : idle[i] # held[s]

(* No permit leaks or is given back twice, on any of the ways a task can   *)
(* end: permits and permit holders add up to max_size, and a task has a    *)
(* connection exactly from the moment Pool::get returns.                   *)
PermitAccounting ==
  /\ permits + Cardinality(Permitted) = MaxSize
  /\ \A s \in Clients : held[s] # None <=> pc[s] \in HasConn

(* The backend never sees more than max_size connections of a pool, those  *)
(* about to be opened by tasks inside create included.                     *)
SizeBounded ==
  /\ size = Len(idle) + Cardinality(Holders)
  /\ size + Cardinality(Creating) <= MaxSize

(* The pool's books are right: permits and connections alike.              *)
PoolAccounting == PermitAccounting /\ SizeBounded

(* A connection on which an authentication failed never reaches another    *)
(* session: recycle discards it.  haentgl_server.rs:133-142.               *)
RefusedNotReused ==
  \A s \in Clients : held[s] # None => phase[held[s]] # "Connection"

(* Connections are shared between clients, yet a command runs as the user  *)
(* its client authenticated as, in a session state no other client has     *)
(* touched: also when the previous session left without COM_QUIT, was cut  *)
(* off in the middle of an answer, or panicked.                            *)
IsolatedSession ==
  \A s \in Clients :
    pc[s] \in ComSteps /\ be[held[s]].state = "ready" =>
      be[held[s]].user = user[s] /\ be[held[s]].dirty \in {None, s}

(* The pool implements ConnLease.                                          *)
Pool == INSTANCE ConnLease WITH lease <- held
LeaseSpec == Pool!Spec

----------------------------------------------------------------------------
(* Properties of well-behaved clients: none vanishes in the middle of an   *)
(* exchange, none uses a command the proxy does not support, and none has  *)
(* a COM_CHANGE_USER answered by a hash that starts with 0xff.  Without    *)
(* the last of these, which is no client's fault, they do not hold.        *)

(* A client only ever receives answers to its own requests                 *)
(* (forwarder.rs, authenticator.rs:43-61).                                 *)
OwnPackets == \A s \in Clients : ~foreign[s]

(* The assertion of authenticator.rs:44: the packet that is read after a   *)
(* COM_CHANGE_USER or a HandshakeResponse starts with 0xfe.                *)
AuthSwitchAsserted ==
  \A s \in Clients :
    pc[s] = "switch" /\ HasPacket(s) => HeaderFE(NextPacket(s).kind)

(* What process_auth_switch_plugin takes for a request to switch is one,   *)
(* and so is what it takes for the verdict (authenticator.rs:43-62).       *)
AuthInStep ==
  /\ AuthSwitchAsserted
  /\ \A s \in Clients :
       pc[s] = "verdict" /\ HasPacket(s) => NextPacket(s).kind \in {"ok", "err"}

----------------------------------------------------------------------------
(* Liveness, under FairSpec.                                               *)

(* A task that waits in Pool::get is served, however full the pool is: the *)
(* semaphore is fair and every session ends.  haentgl_server.rs:69 warns   *)
(* that get blocks.                                                        *)
WaiterServed ==
  \A s \in Clients : pc[s] = "get" ~> pc[s] = "slot"

(* server/mod.rs:129, "Forwards packets between the client and the         *)
(* Backend.": the answer to a command is forwarded to its end, or the      *)
(* session ends; the forwarder does not wait for packets that never come.  *)
(* The next line of that comment, "If the backend connection fails, it     *)
(* redirects to an available backend connection.", is not what the code    *)
(* does: a session whose backend is gone ends (ComBackendGone).            *)
AnswerCompletes ==
  \A s \in Clients :
    pc[s] \in FwdSteps ~> pc[s] \in {"command", "start"}
==============================================================================
