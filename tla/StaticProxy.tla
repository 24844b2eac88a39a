----------------------------- MODULE StaticProxy -----------------------------
(***************************************************************************)
(* StaticProxyServer (proxy/src/server/static_proxy.rs): a MySQL server    *)
(* around a CmdHandler.  on_recv takes clients from a channel and serves   *)
(* them one after the other; `run' serves one.  The client's handshake is  *)
(* read by one PacketReader, everything later by a second one around it,   *)
(* which takes what the first has read too much.                           *)
(*                                                                         *)
(* The CmdHandler is external: it accepts or refuses a login and answers a *)
(* command with a packet, or fails.  Clients are external too: one speaks  *)
(* when it has its greeting, may send commands right behind the handshake  *)
(* when no other login method can be asked for, and may go away anywhere.  *)
(***************************************************************************)
EXTENDS PacketReader

CONSTANTS
  Callers,      \* what is called, and with what: [mode, buffered]
  Handshakes,   \* handshakes of clients: [whole, p41, ssl, ...]
  Heads,        \* first bytes of commands
  MaxClients,   \* bound: clients that arrive
  MaxCmds,      \* bound: commands of a session
  MaxLost       \* bound: bytes lost when a client goes

ASSUME StaticAssumption ==
  /\ Callers \subseteq [mode : {"recv", "run"}, buffered : BOOLEAN]
  /\ Handshakes \subseteq
       [whole : BOOLEAN, p41 : BOOLEAN, ssl : BOOLEAN, empty : BOOLEAN,
        native : BOOLEAN, db : {"none", "utf8", "bytes"}, track : BOOLEAN]
  /\ MaxClients \in Nat /\ MaxCmds \in Nat /\ MaxLost \in Nat

VARIABLES
  mode,      \* on_recv or run
  exit,      \* has exit_send changed, or its sender gone?
  waiting,   \* clients in the channel
  connId,    \* conn_id
  at,        \* where the service is
  inn,       \* the reader of the session
  held,      \* bytes in the inner reader that the outer one has not taken
  resp,      \* client_handshake
  buffered,  \* does the writer keep what it gets until it is flushed?
  out,       \* packets in that buffer
  got,       \* packets the client has got
  verdict,   \* what CmdHandler::auth has said
  stage,     \* what the client sends next
  asked,     \* commands the client has sent
  done,      \* commands on_cmd has taken
  gone,      \* has the client closed the connection?
  lost       \* bytes of the client that will not arrive

svcVars == <<mode, exit, waiting, connId>>
cliVars == <<stage, asked, gone, lost>>
vars == <<svcVars, at, inn, held, resp, buffered, out, got, verdict,
          cliVars, done>>

Reading == {"greeted", "tls", "switch", "command"}
Ended == at \in {"over", "failed", "panicked"}

(* An OK packet's fields behind the header, as far as the capabilities     *)
(* decide about them; the info text of the server is empty.                *)
OkFields(track) == <<"status", "warnings">> \o (IF track THEN <<"length">> ELSE <<>>)

Nobody == [whole |-> FALSE, p41 |-> TRUE, ssl |-> FALSE, empty |-> FALSE,
           native |-> TRUE, db |-> "none", track |-> TRUE, user |-> FALSE]

Init ==
  /\ \E c \in Callers : mode = c.mode /\ buffered = c.buffered
  /\ exit = FALSE /\ waiting = (IF mode = "run" THEN 1 ELSE 0) /\ connId = 0
  /\ at = "idle"
  /\ inn = NewReader /\ held = 0 /\ resp = Nobody
  /\ out = <<>> /\ got = <<>> /\ verdict = "none"
  /\ stage = "handshake" /\ asked = <<>> /\ done = <<>>
  /\ gone = FALSE /\ lost = 0

----------------------------------------------------------------------------
(* Writing.  A packet is what it is, the command it answers and its number.*)
Pkt(kind, to, num, fields) ==
  [kind |-> kind, to |-> to, num |-> num % NumMod, fields |-> fields]

(* end_packet on the stream the caller has given.                          *)
Written(p) == IF buffered THEN out' = Append(out, p) /\ UNCHANGED got
              ELSE got' = Append(got, p) /\ UNCHANGED out

(* end_packet and flush_all.                                               *)
Flushed(p) == got' = Append(got \o out, p) /\ out' = <<>>

----------------------------------------------------------------------------
(* The channel, the exit signal and the clients (external).                *)
Arrive ==
  /\ mode = "recv" /\ ~Ended
  /\ connId + waiting < MaxClients
  /\ waiting' = waiting + 1
  /\ UNCHANGED <<mode, exit, connId, at, inn, held, resp, buffered, out,
                 got, verdict, cliVars, done>>

ExitSent ==
  /\ mode = "recv" /\ ~Ended /\ ~exit
  /\ exit' = TRUE
  /\ UNCHANGED <<mode, waiting, connId, at, inn, held, resp, buffered,
                 out, got, verdict, cliVars, done>>

(* Is the server going to ask for another login method?                    *)
Switches(h) == h.empty /\ ~h.native

Client ==
  /\ at \in Reading /\ ~gone
  /\ UNCHANGED <<svcVars, at, held, resp, buffered, out, got, verdict, done>>

Sends(m, num) == inn' = [inn EXCEPT !.wire = @ \o Cut(Payload(m), num)]

SendHandshake(h) ==
  /\ Client
  /\ stage \in {"handshake", "tls"} /\ (stage = "tls" => h.ssl)
  /\ Sends([head |-> "handshake", len |-> 1, of |-> h],
           IF stage = "tls" THEN 2 ELSE 1)
  /\ stage' = CASE h.ssl /\ stage = "handshake" -> "tls"
                [] Switches(h)                  -> "method"
                [] OTHER                        -> "commands"
  /\ UNCHANGED <<asked, gone, lost>>

(* The answer to the request for another method, the packet after it.      *)
SendAuth ==
  /\ Client
  /\ stage = "method" /\ got # <<>> /\ got[Len(got)].kind = "switch"
  /\ Sends([head |-> "auth", len |-> 1], got[Len(got)].num + 1)
  /\ stage' = "commands"
  /\ UNCHANGED <<asked, gone, lost>>

SendCommand(head) ==
  LET m == [head |-> head, len |-> 1, of |-> Len(asked) + 1]
  IN  /\ Client
      /\ stage = "commands" /\ Len(asked) < MaxCmds
      /\ \A i \in 1..Len(asked) : asked[i].head # "quit"
      /\ Sends(m, 0)
      /\ asked' = Append(asked, m)
      /\ UNCHANGED <<stage, gone, lost>>

(* The client goes, and the last bytes may get lost.                       *)
HangUp ==
  /\ Client
  /\ gone' = TRUE
  /\ lost' \in {n \in 0..MaxLost : n <= InFlight(inn) - held}
  /\ UNCHANGED <<inn, stage, asked>>

----------------------------------------------------------------------------
(* Reading.                                                                *)
Arrived == InFlight(inn) - held - lost

(* next_async asks for bytes: of the client, ...                           *)
Read ==
  /\ at \in Reading /\ ~Ready(inn) /\ held = 0
  /\ \E n \in 1..Arrived : n <= Room(inn) /\ inn' = Filled(inn, n)
  /\ UNCHANGED <<svcVars, at, held, resp, buffered, out, got, verdict,
                 cliVars, done>>

(* ... or of the inner reader: poll_read gives all it has in one slice,    *)
(* and put_slice panics if the outer buffer has no room for it.            *)
PollRead ==
  /\ at \in Reading /\ ~Ready(inn) /\ held > 0
  /\ IF held > Room(inn)
       THEN at' = "panicked" /\ UNCHANGED <<inn, held>>
       ELSE inn' = Filled(inn, held) /\ held' = 0 /\ UNCHANGED at
  /\ UNCHANGED <<svcVars, resp, buffered, out, got, verdict, cliVars, done>>

----------------------------------------------------------------------------
(* initial_handshake.                                                      *)

(* client_handshake_response: the packet before a TLS handshake ends with  *)
(* its flags, without a user; a HandshakeResponse320 has no plugin.        *)
Early(h, afterTls) == h.p41 /\ h.ssl /\ ~afterTls

ClientHandshakeResponse(h, afterTls) ==
  [whole |-> h.whole, p41 |-> h.p41, ssl |-> h.ssl, track |-> h.track,
   user   |-> ~Early(h, afterTls),
   empty  |-> h.empty \/ Early(h, afterTls),
   native |-> h.native /\ h.p41 /\ ~Early(h, afterTls),
   db     |-> IF Early(h, afterTls) THEN "none" ELSE h.db]

(* The next client of the channel; write_initial_handshake.                *)
Receive ==
  /\ at = "idle" /\ waiting > 0
  /\ waiting' = waiting - 1 /\ connId' = connId + 1
  /\ at' = "greeted"
  /\ Flushed(Pkt("greeting", 0, 0, <<>>))
  /\ UNCHANGED <<mode, exit, inn, held, resp, buffered, verdict, cliVars, done>>

(* A session fails: on_recv returns, and with it the whole service.        *)
Fails == at' = "failed" /\ UNCHANGED <<out, got>>

(* CmdHandler::auth, then on_init or an OK packet, or an ERR packet.       *)
Auth(h, num) ==
  \/ Fails /\ UNCHANGED verdict
  \/ /\ verdict' = "no" /\ at' = "failed"
     /\ Flushed(Pkt("err", 0, num + 1, <<>>))
  \/ /\ verdict' = "yes"
     /\ \/ at' = "command" /\ Flushed(IF h.db = "utf8" THEN Pkt("answer", 0, num + 1, <<>>)
                                      ELSE Pkt("ok", 0, num + 1, OkFields(h.track)))
        \/ h.db = "utf8" /\ Fails

(* respond_client_handshake_rsp from the check of PROTOCOL_41 on.          *)
Respond(h, num) ==
  \/ ~h.p41 /\ Fails /\ UNCHANGED verdict
  \/ /\ h.p41 /\ ~h.user
     /\ at' = "command" /\ got' = got \o out /\ out' = <<>>
     /\ UNCHANGED verdict
  \/ /\ h.p41 /\ h.user /\ Switches(h)
     /\ at' = "switch" /\ Flushed(Pkt("switch", 0, num + 1, <<>>))
     /\ UNCHANGED verdict
  \/ h.p41 /\ h.user /\ ~Switches(h) /\ Auth(h, num)

(* The handshake is read; the rest is read by a new reader around this one.*)
OnHandshake ==
  LET h == NextData(inn)[1][1].of
      r == ClientHandshakeResponse(h, FALSE)
      rest == Consume(inn)
  IN  /\ at = "greeted" /\ Takes(inn)
      /\ inn' = [NewReader EXCEPT !.wire = rest.wire] /\ held' = rest.rem
      /\ resp' = r
      /\ \/ ~h.whole /\ Fails /\ UNCHANGED verdict
         \/ h.whole /\ r.ssl /\ at' = "tls" /\ UNCHANGED <<out, got, verdict>>
         \/ h.whole /\ ~r.ssl /\ Respond(r, NextNum(inn))
      /\ UNCHANGED <<svcVars, buffered, cliVars, done>>

(* Mutant: the second handshake of a client that asks for TLS is skipped.  *)
OnTlsHandshakeSkipped ==
  /\ at = "tls"
  /\ Respond(resp, 1)
  /\ UNCHANGED <<svcVars, inn, held, resp, buffered, cliVars, done>>

(* A client that asks for TLS sends its handshake again; TLS itself is     *)
(* never started.                                                          *)
OnTlsHandshake ==
  LET h == NextData(inn)[1][1].of
      r == ClientHandshakeResponse(h, TRUE)
  IN  /\ at = "tls" /\ Takes(inn)
      /\ inn' = Consume(inn)
      /\ resp' = r
      /\ \/ ~h.whole /\ Fails /\ UNCHANGED verdict
         \/ h.whole /\ Respond(r, NextNum(inn))
      /\ UNCHANGED <<svcVars, held, buffered, cliVars, done>>

(* The answer of the other login method.                                   *)
OnSwitched ==
  /\ at = "switch" /\ Takes(inn)
  /\ inn' = Consume(inn)
  /\ Auth(resp, NextNum(inn))
  /\ UNCHANGED <<svcVars, held, resp, buffered, cliVars, done>>

----------------------------------------------------------------------------
(* on_cmd.                                                                 *)

(* The session is over: on_recv goes on with the next client, run returns. *)
EndSession ==
  /\ at' = IF mode = "run" THEN "over" ELSE "idle"
  /\ inn' = NewReader /\ held' = 0 /\ resp' = Nobody
  /\ out' = <<>> /\ got' = <<>> /\ verdict' = "none"
  /\ stage' = "handshake" /\ asked' = <<>> /\ done' = <<>>
  /\ gone' = FALSE /\ lost' = 0

(* from_packet: the commands it knows; anything else is an error.          *)
Handled == {"query", "prepare", "execute", "init"}
Known == Handled \cup {"longdata", "close", "fields", "ping", "quit"}
FromPacket(m) == IF m.head \in Known THEN m.head ELSE "error"

(* Mutant: what from_packet does not know is skipped.                      *)
AnsweredKnown == {"close", "fields", "ping"}

(* What on_cmd answers itself, with the server's capabilities.             *)
Answered == {"close", "fields", "ping", "error"}

(* Mutant: the number of the last answer is counted on.                    *)
OnCmdCounts ==
  LET m == NextData(inn)[1][1]
      cmd == FromPacket(m)
      num == Len(done) + 1
  IN  /\ at = "command" /\ Takes(inn) /\ cmd # "quit"
      /\ done' = Append(done, m)
      /\ inn' = Consume(inn)
      /\ \/ cmd \in Handled /\ Fails
         \/ cmd \in Handled /\ Written(Pkt("answer", m.of, num, <<>>)) /\ UNCHANGED at
         \/ cmd \in Answered /\ Written(Pkt("ok", m.of, num, OkFields(TRUE)))
              /\ UNCHANGED at
         \/ cmd \notin Handled \cup Answered /\ UNCHANGED <<at, out, got>>
      /\ UNCHANGED <<svcVars, held, resp, buffered, verdict, cliVars>>

OnCmd ==
  LET m == NextData(inn)[1][1]
      cmd == FromPacket(m)
      num == NextNum(inn) + 1
  IN  /\ at = "command" /\ Takes(inn) /\ cmd # "quit"
      /\ done' = Append(done, m)
      /\ inn' = Consume(inn)
      /\ \/ cmd \in Handled /\ Fails
         \/ cmd \in Handled /\ Written(Pkt("answer", m.of, num, <<>>)) /\ UNCHANGED at
         \/ cmd \in Answered /\ Written(Pkt("ok", m.of, num, OkFields(TRUE)))
              /\ UNCHANGED at
         \/ cmd \notin Handled \cup Answered /\ UNCHANGED <<at, out, got>>
      /\ UNCHANGED <<svcVars, held, resp, buffered, verdict, cliVars>>

OnQuit ==
  /\ at = "command" /\ Takes(inn)
  /\ FromPacket(NextData(inn)[1][1]) = "quit"
  /\ EndSession
  /\ UNCHANGED <<svcVars, buffered>>

(* The client is gone: on_cmd ends if it was between two packets; anywhere *)
(* else that is an error.                                                  *)
Eof ==
  /\ at \in Reading /\ ~Ready(inn) /\ held = 0 /\ gone /\ Arrived = 0
  /\ UNCHANGED <<svcVars, buffered>>
  /\ \/ at = "command" /\ inn.rem = 0 /\ EndSession
     \/ /\ at # "command" \/ inn.rem > 0
        /\ Fails
        /\ UNCHANGED <<inn, held, resp, verdict, cliVars, done>>

(* select! between the exit signal and the channel, between two clients.   *)
Exit ==
  /\ at = "idle" /\ exit
  /\ at' = "over"
  /\ UNCHANGED <<svcVars, inn, held, resp, buffered, out, got, verdict,
                 cliVars, done>>

----------------------------------------------------------------------------
ServiceStep ==
  \/ Receive \/ Read \/ PollRead \/ OnHandshake \/ OnTlsHandshake
  \/ OnSwitched \/ OnCmd \/ OnQuit \/ Eof

Next ==
  \/ Arrive \/ ExitSent
  \/ \E h \in Handshakes : SendHandshake(h)
  \/ SendAuth \/ HangUp
  \/ \E head \in Heads : SendCommand(head)
  \/ ServiceStep \/ Exit

(* The service's task is polled when there is something for it, TCP        *)
(* delivers what was sent and the CmdHandler returns.  Nothing is assumed  *)
(* of clients.                                                             *)
Spec == Init /\ [][Next]_vars /\ WF_vars(ServiceStep)

----------------------------------------------------------------------------
(* Properties.                                                             *)

(* Commands are only taken from a client whose login the CmdHandler has    *)
(* accepted, in particular not from one that asks for TLS, whose first     *)
(* packet names no user; and a client that is refused has been told.       *)
(* static_proxy.rs:280-289, :311-361.                                      *)
LoginFirst ==
  /\ at = "command" => verdict = "yes"
  /\ verdict = "no" => at = "failed" /\ got[Len(got)].kind = "err"

(* Commands a MySQL server answers.                                        *)
Expecting == SelectSeq(asked, LAMBDA m : m.head \notin {"close", "longdata", "quit"})

Replies == SelectSeq(got, LAMBDA p : p.to > 0)

(* The commands on_cmd works on are those the client has sent, without a   *)
(* gap: nothing is lost or read twice where the second reader takes over   *)
(* from the first, however many bytes came with the handshake              *)
(* (packet_reader.rs:108-124).  And each answer is the one to the command  *)
(* the client takes it for, under the number it expects, and reads as it   *)
(* was written, as long as the client has closed no statement              *)
(* (COM_STMT_CLOSE gets an OK packet it does not wait for) and tracks the  *)
(* session (on_cmd writes OK packets by the server's capabilities).        *)
(* static_proxy.rs:150-198.                                                *)
AnswersInStep ==
  /\ Len(done) <= Len(asked) /\ \A i \in 1..Len(done) : done[i] = asked[i]
  /\ \A i \in 1..Len(Replies) :
       (\A j \in 1..Replies[i].to : asked[j].head # "close") =>
         /\ Replies[i].to = Expecting[i].of
         /\ Replies[i].num = 1
         /\ resp.track => Replies[i].fields \in {<<>>, OkFields(resp.track)}

(* Every command is taken and, if it has an answer, answered, unless the   *)
(* session or the service ends; a stream that buffers keeps the answers,   *)
(* as on_cmd does not flush.  static_proxy.rs:150-198.                     *)
CommandsServed ==
  []<>(at \in Reading /\ ~buffered =>
         Len(done) = Len(asked) /\ Len(Replies) >= Len(Expecting))

==============================================================================
