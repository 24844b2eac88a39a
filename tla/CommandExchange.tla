--------------------------- MODULE CommandExchange ---------------------------
(***************************************************************************)
(* The command phase of one session, packet by packet: the client's        *)
(* requests come in as a byte stream, on_com reads one, writes it to the   *)
(* server and forwards the answer until the forwarder of the command       *)
(* decides, from the first byte and the length of each packet, that the    *)
(* answer is complete.  SessionPool has the life of the connection around  *)
(* it; here are the framing, the reader's buffer, multiple result sets,    *)
(* cursors and the counted answer of COM_STMT_PREPARE.                     *)
(***************************************************************************)
EXTENDS PacketReader

CONSTANTS
  EofLen,               \* the most an EOF packet has (5 bytes)
  OkLen,                \* the least an OK packet has (7 bytes)
  ResetLen,             \* the COM_RESET_CONNECTION the proxy writes (5 bytes)
  CountMod,             \* expected_packets is a u16
  Requests,             \* commands and lengths of requests
  RowLens,              \* lengths of rows
  Flags,                \* CLIENT_DEPRECATE_EOF of client and connection
  MaxRows,              \* bound: rows of a result set
  Counts,               \* column and parameter counts of prepared statements
  MaxCmds               \* bound: commands of a session

Commands == {"query", "fetch", "prepare", "close", "longdata", "generic", "quit"}

ASSUME ExchangeAssumption ==
  /\ EofLen \in Nat \ {0} /\ OkLen \in Nat /\ CountMod \in Nat \ {0}
  /\ EofLen < OkLen /\ OkLen < MaxPayload
  /\ ResetLen \in Nat \ {0} /\ ResetLen < MaxPayload
  /\ Requests \subseteq Commands \X (Nat \ {0}) /\ RowLens \subseteq Nat \ {0}
  /\ Flags \subseteq BOOLEAN \X BOOLEAN
  /\ MaxRows \in Nat /\ Counts \subseteq Nat \X Nat /\ MaxCmds \in Nat

VARIABLES
  deof,    \* the client's CLIENT_DEPRECATE_EOF
  bdeof,   \* that of the client the connection was opened for
  cin,     \* the reader of the client's bytes
  bin,     \* the reader of the server's bytes
  bnum,    \* PacketWriter::seq of the writer to the server
  bout,    \* frames on their way to the server
  got,     \* frames the client got since the last request was read
  at,      \* where on_com is: which read it waits in
  left,    \* packets forward_prepare_stmt still expects
  asked,   \* requests the client has sent
  served,  \* payloads the server has taken for requests
  sent,    \* frames the server sent since then
  wrapped  \* expected_packets has overflowed

vars == <<deof, bdeof, cin, bin, bnum, bout, got, at, left,
          asked, served, sent, wrapped>>

(* "command": next_async on the client.  "first", "cols", "rows": the      *)
(* loops of forward_query, forward_result, forward_until_result_end;       *)
(* "fetch": the latter on its own.  "reset": the answer to the reset.      *)
Reading == {"first", "cols", "rows", "fetch", "prepare", "defs", "one", "reset"}
Steps == {"command", "left", "panicked"} \cup Reading

----------------------------------------------------------------------------
(* The server's answers (external): what a MySQL server sends for each     *)
(* command, as far as the forwarders tell packets apart.                   *)

Msg(head, len) ==
  [head |-> head, len |-> len, more |-> FALSE, cursor |-> FALSE,
   cols |-> 0, params |-> 0]

Ok(more) == [Msg("ok", OkLen) EXCEPT !.more = more]
Err == Msg("err", 1)
Def == Msg("other", 1)

(* A row; one with a value of 16 MB or more starts with 0xfe.              *)
Row(len) == Msg(IF len > MaxPayload THEN "fe" ELSE "other", len)

(* What ends rows: an EOF packet, or an OK packet with header 0xfe.        *)
End(d, more, cursor) ==
  [Msg("fe", IF d THEN OkLen ELSE EofLen) EXCEPT !.more = more,
                                                 !.cursor = cursor]

Defs(n) == [i \in 1..n |-> Def]
Eof(d) == IF d THEN <<>> ELSE <<End(FALSE, FALSE, FALSE)>>

RowSets == UNION {[1..n -> {Row(l) : l \in RowLens}] : n \in 0..MaxRows}

Results(d, more) ==
  {<<Def, Def>> \o Eof(d) \o rows \o <<End(d, more, FALSE)>> : rows \in RowSets}

QueryAnswers(d) ==
  LET single == {<<Ok(FALSE)>>, <<Err>>} \cup Results(d, FALSE)
  IN  single
      \cup {<<Msg("infile", 1)>>}
      \cup {<<Def, Def>> \o Eof(d) \o rows \o <<Err>> : rows \in RowSets}
      \cup {<<Def, Def, End(d, FALSE, TRUE)>>}
      \cup {a \o b : a \in {<<Ok(TRUE)>>,
                            <<Def, Def>> \o Eof(d) \o <<End(d, TRUE, FALSE)>>},
                     b \in {<<Ok(FALSE)>>, <<Err>>}}

FetchAnswers(d) ==
  {<<Err>>} \cup {rows \o <<End(d, FALSE, FALSE)>> : rows \in RowSets}

PrepareAnswers(d) ==
  LET part(n) == IF n = 0 THEN <<>> ELSE Defs(n) \o Eof(d)
  IN  {<<Err>>} \cup
      {<<[Ok(FALSE) EXCEPT !.cols = c[1], !.params = c[2]]>>
         \o part(c[2]) \o part(c[1]) : c \in Counts}

Answers(com, d) ==
  CASE com = "query"   -> QueryAnswers(d)
    [] com = "fetch"   -> FetchAnswers(d)
    [] com = "prepare" -> PrepareAnswers(d)
    [] com = "generic" -> {<<Ok(FALSE)>>, <<Err>>, <<Def>>}
    [] com = "reset"   -> {<<Ok(FALSE)>>, <<Err>>}
    [] com \in {"close", "longdata"} -> {<<>>}
    [] OTHER           -> {<<Err>>}

(* The frames of an answer to a request whose last frame had number n.     *)
AnswerFrames(a, n) ==
  LET w[k \in 0..Len(a)] ==
        IF k = 0 THEN <<>>
        ELSE LET before == w[k - 1]
             IN  before \o Cut(Payload(a[k]), (n + 1 + Len(before)) % NumMod)
  IN  w[Len(a)]

(* What the server may send for a request whose last frame had number n.   *)
Replies ==
  [com \in Commands \cup {"reset"} |-> [d \in BOOLEAN |-> [n \in 0..(NumMod - 1) |->
     {AnswerFrames(a, n) : a \in Answers(com, d)}]]]

----------------------------------------------------------------------------
Init ==
  /\ \E f \in Flags : deof = f[1] /\ bdeof = f[2]
  /\ cin = NewReader /\ bin = NewReader
  /\ bnum = 0 /\ bout = <<>>
  /\ at = "command" /\ left = 0
  /\ got = <<>> /\ asked = <<>> /\ served = <<>> /\ sent = <<>>
  /\ wrapped = FALSE

(* The client sends a request, also while an earlier one is worked on.     *)
Ask(com, len) ==
  LET m == [Msg("other", len) EXCEPT !.head = com]
  IN  /\ at \notin {"left", "panicked"}
      /\ Len(asked) < MaxCmds
      /\ \A i \in 1..Len(asked) : asked[i].head # "quit"
      /\ asked' = Append(asked, m)
      /\ cin' = [cin EXCEPT !.wire = @ \o Cut(Payload(m), 0)]
      /\ UNCHANGED <<deof, bdeof, bin, bnum, bout, got, at, left, served, sent, wrapped>>

(* The server reads a request and answers as it agreed to when the         *)
(* connection was opened: COM_CHANGE_USER has no flags.                    *)
Serve ==
  LET r == [wire |-> bout, rem |-> WireLen(bout)]
      p == NextData(r)
  IN  /\ Ready(r)
      /\ \E w \in Replies[p[1][1].head][bdeof][NextNum(r)] :
           /\ bin' = [bin EXCEPT !.wire = @ \o w]
           /\ sent' = sent \o w
      /\ served' = Append(served, p)
      /\ bout' = SubSeq(bout, Joined(r) + 1, Len(bout))
      /\ UNCHANGED <<deof, bdeof, cin, bnum, got, at, left, asked, wrapped>>

(* next_async needs more bytes.  (A read into a buffer without room would  *)
(* return 0, which next_async takes for the end of the stream: RoomToRead  *)
(* says that this cannot happen.)                                          *)
ReadClient ==
  /\ at = "command" /\ ~Ready(cin)
  /\ \E n \in 1..InFlight(cin) : n <= Room(cin) /\ cin' = Filled(cin, n)
  /\ UNCHANGED <<deof, bdeof, bin, bnum, bout, got, at, left, asked, served, sent, wrapped>>

ReadBackend ==
  /\ at \in Reading /\ ~Ready(bin)
  /\ \E n \in 1..InFlight(bin) : n <= Room(bin) /\ bin' = Filled(bin, n)
  /\ UNCHANGED <<deof, bdeof, cin, bnum, bout, got, at, left, asked, served, sent, wrapped>>

----------------------------------------------------------------------------
(* on_com.                                                                 *)

(* Mutant: COM_STMT_CLOSE gets GenericComForwarder too.                    *)
ForwarderAnswers(com) ==
  CASE com = "query"   -> "first"
    [] com = "fetch"   -> "fetch"
    [] com = "prepare" -> "prepare"
    [] OTHER           -> "one"

(* Which forwarder a command gets.  COM_STMT_CLOSE has no answer;          *)
(* COM_STMT_SEND_LONG_DATA has none either, but gets GenericComForwarder.  *)
Forwarder(com) ==
  CASE com = "query"   -> "first"
    [] com = "fetch"   -> "fetch"
    [] com = "prepare" -> "prepare"
    [] com = "close"   -> "command"
    [] OTHER           -> "one"

WriteBackend(p, num) ==
  /\ bout' = bout \o EndPacket(p, num)
  /\ bnum' = SeqAfter(p, num)

(* on_com reads a request, write_to_backend sends it under the number it   *)
(* was read with.                                                          *)
OnCom ==
  LET p == NextData(cin)
  IN  /\ at = "command" /\ Takes(cin)
      /\ p[1][1].head # "quit"
      /\ WriteBackend(p, NextNum(cin))
      /\ at' = Forwarder(p[1][1].head)
      /\ cin' = Consume(cin)
      /\ got' = <<>> /\ sent' = bin.wire
      /\ UNCHANGED <<deof, bdeof, bin, left, asked, served, wrapped>>

(* COM_QUIT is replaced by a COM_RESET_CONNECTION: the command and         *)
(* CONN_ID, sent under the number the writer has reached.                  *)
OnQuit ==
  /\ at = "command" /\ Takes(cin)
  /\ NextData(cin)[1][1].head = "quit"
  /\ WriteBackend(Payload([Msg("other", ResetLen) EXCEPT !.head = "reset"]), bnum)
  /\ at' = "reset"
  /\ cin' = Consume(cin)
  /\ got' = <<>> /\ sent' = bin.wire
  /\ UNCHANGED <<deof, bdeof, bin, left, asked, served, wrapped>>

----------------------------------------------------------------------------
(* The forwarders.                                                         *)

IsEof(p) == Starts(p, "fe") /\ Len(p) <= EofLen
IsResultSetEof(p) == Starts(p, "fe") /\ OkLen <= Len(p) /\ Len(p) < MaxPayload

(* Mutant: the writer's own number is kept.                                *)
ForwardOnePacketUnnumbered(p) ==
  got' = got \o EndPacket(p, IF got = <<>> THEN 0 ELSE (got[Len(got)].num + 1) % NumMod)

(* forward_one_packet: the packet goes to the client under the number it   *)
(* was read with.                                                          *)
ForwardOnePacket(p) == got' = got \o EndPacket(p, NextNum(bin))

(* A step of a forwarder that reads and forwards one packet.               *)
Forward(step) ==
  /\ at = step /\ Takes(bin)
  /\ ForwardOnePacket(NextData(bin))
  /\ bin' = Consume(bin)
  /\ UNCHANGED <<deof, bdeof, cin, bnum, bout, asked, served, sent>>

(* forward_query goes on as long as a status says that results follow.     *)
NextResult(p) == IF p[1][1].more THEN "first" ELSE "command"

ForwardFirst ==
  LET p == NextData(bin)
  IN  /\ Forward("first")
      /\ at' = CASE Starts(p, "ok")     -> NextResult(p)
                 [] Starts(p, "err")    -> "command"
                 [] Starts(p, "infile") -> "panicked"
                 [] OTHER               -> IF deof THEN "rows" ELSE "cols"
      /\ UNCHANGED <<left, wrapped>>

(* forward_result, up to the EOF packet after the column definitions.      *)
ForwardCols ==
  LET p == NextData(bin)
  IN  /\ Forward("cols")
      /\ at' = IF ~IsEof(p) THEN "cols"
               ELSE IF p[1][1].cursor THEN NextResult(p) ELSE "rows"
      /\ UNCHANGED <<left, wrapped>>

(* Mutant: any packet that starts with 0xfe ends the rows.                 *)
EndsRowsByHead(p) == Starts(p, "fe")

EndsRows(p) == IF deof THEN IsResultSetEof(p) ELSE IsEof(p)

(* forward_until_result_end.                                               *)
ForwardRows ==
  LET p == NextData(bin)
  IN  /\ Forward("rows")
      /\ at' = CASE Starts(p, "err") -> "command"
                 [] EndsRows(p)      -> NextResult(p)
                 [] OTHER            -> "rows"
      /\ UNCHANGED <<left, wrapped>>

ForwardFetch ==
  LET p == NextData(bin)
  IN  /\ Forward("fetch")
      /\ at' = IF Starts(p, "err") \/ EndsRows(p) THEN "command" ELSE "fetch"
      /\ UNCHANGED <<left, wrapped>>

(* The packets that follow the first one of an answer to COM_STMT_PREPARE: *)
(* the definitions, and an EOF packet after each kind there is.            *)
Expected(p, d) ==
  LET m == p[1][1]
      eof(n) == IF ~d /\ n > 0 THEN 1 ELSE 0
  IN  m.cols + m.params + eof(m.cols) + eof(m.params)

(* forward_prepare_stmt; u16 addition wraps in a release build.            *)
ForwardPrepare ==
  LET p == NextData(bin)
  IN  /\ Forward("prepare")
      /\ left' = IF Starts(p, "ok") THEN Expected(p, deof) % CountMod ELSE 0
      /\ at' = CASE Starts(p, "err") -> "command"
                 [] Starts(p, "ok")  -> IF left' > 0 THEN "defs" ELSE "command"
                 [] OTHER            -> "panicked"
      /\ wrapped' = (wrapped \/ Expected(p, deof) >= CountMod)

ForwardDefs ==
  /\ Forward("defs")
  /\ left' = left - 1
  /\ at' = IF left = 1 THEN "command" ELSE "defs"
  /\ UNCHANGED wrapped

(* GenericComForwarder.                                                    *)
ForwardGeneric == Forward("one") /\ at' = "command" /\ UNCHANGED <<left, wrapped>>

(* ResetConnForwarder reads the answer and keeps it.                       *)
ForwardReset ==
  /\ at = "reset" /\ Takes(bin)
  /\ at' = "left"
  /\ bin' = Consume(bin)
  /\ UNCHANGED <<deof, bdeof, cin, bnum, bout, got, left, asked, served, sent, wrapped>>

----------------------------------------------------------------------------
ForwardStep ==
  \/ ForwardFirst \/ ForwardCols \/ ForwardRows \/ ForwardFetch
  \/ ForwardPrepare \/ ForwardDefs \/ ForwardGeneric \/ ForwardReset

ProxyStep == ReadClient \/ ReadBackend \/ OnCom \/ OnQuit \/ ForwardStep

Next ==
  \/ \E r \in Requests : Ask(r[1], r[2])
  \/ Serve
  \/ ProxyStep

Spec == Init /\ [][Next]_vars

(* The session's task is polled when bytes have arrived, TCP delivers what *)
(* was sent, and the server answers; the client need not send anything.    *)
FairSpec == Spec /\ WF_vars(ProxyStep) /\ WF_vars(Serve)

----------------------------------------------------------------------------
(* Properties.                                                             *)

(* The lengths the framing cannot express: PacketWriter sends no empty     *)
(* frame after a payload of a multiple of MaxPayload bytes.                *)
Exact(len) == len % MaxPayload = 0

(* The connection is new, or the one that it was opened for had the same   *)
(* flag: the server ends results the way the forwarders expect             *)
(* (query_forward.rs:70).                                                  *)
Agreed == deof = bdeof

(* All requests so far can be written.                                     *)
WholeRequests == \A i \in 1..Len(asked) : ~Exact(asked[i].len)

(* The client gets the bytes the server sent, all of them, in order, and   *)
(* cut at the ends of messages: whatever TCP does to them, however long a  *)
(* row is (but for multiples of MaxPayload) and however many bytes of the  *)
(* next packet come with the last.  packet_reader.rs:127,                  *)
(* packet_writer.rs:94, forwarder/mod.rs:30.                               *)
AnswerIntact ==
  /\ at # "left" => Data(got) \o Data(bin.wire) = Data(sent)
  /\ \A i \in 1..Len(got) :
       got[i].data # <<>> =>
         LET b == got[i].data[Len(got[i].data)]
         IN  Exact(b[1].len) \/ (b[2] = b[1].len <=> ~IsFull(got[i]))

(* The server gets the requests the client sent, one by one and in order,  *)
(* with the client's next request already in the reader's buffer or not;   *)
(* only a COM_QUIT, the last one, becomes a COM_RESET_CONNECTION.          *)
(* haentgl_server.rs:242, packet_writer.rs:94.                             *)
RequestIntact ==
  WholeRequests =>
    /\ Len(served) <= Len(asked)
    /\ \A i \in 1..Len(served) :
         \/ asked[i].head # "quit" /\ served[i] = Payload(asked[i])
         \/ /\ asked[i].head = "quit" /\ i = Len(asked)
            /\ Starts(served[i], "reset") /\ Len(served[i]) = ResetLen

(* The number of the last frame of a request; the one PacketWriter has     *)
(* reached when it has written the request under that number; and so the   *)
(* number of the COM_RESET_CONNECTION that ends the session.               *)
LastNum(m) == (Len(Cut(Payload(m), 0)) - 1) % NumMod
NumberAfter(m) == SeqAfter(Payload(m), LastNum(m))
ResetNum == IF Len(asked) = 1 THEN 0 ELSE NumberAfter(asked[Len(asked) - 1])

(* While no message of an answer needs more than one frame, the client     *)
(* sees the numbers the server gave.  A request starts for the server with *)
(* the number of the last frame it was read from: 0 if, and up to NumMod   *)
(* frames only if, the client sent it in one frame.  A COM_RESET_          *)
(* CONNECTION goes on from the request before it, and has the 0 that a new *)
(* command must have only if the session had no other command:             *)
(* reset_conn_forward.rs:29 does not reset the number, which               *)
(* forwarder/mod.rs:84 does for every other command.                       *)
NumbersFollow ==
  /\ at # "left" /\ (\A i \in 1..Len(sent) : ~IsFull(sent[i]))
       => got \o bin.wire = sent
  /\ WholeRequests =>
       \A i \in 1..Len(bout) :
         LET b == bout[i].data[1]
         IN  b[2] = 1 =>
               bout[i].num = IF b[1].head = "reset" THEN ResetNum ELSE LastNum(b[1])

(* A forwarder stops where the answer ends, neither before nor after: when *)
(* on_com waits for the next request nothing of an earlier answer is left  *)
(* to be taken for the next one, with several result sets, cursors, rows   *)
(* that start like an EOF packet, errors in the middle of rows, and any    *)
(* counts of a prepared statement that fit into 16 bits.                   *)
(* query_forward.rs:30-57, :73-88, :106-131; stmt_prepare_forward.rs:46.   *)
StopsAtEnd ==
  at \in {"command", "left"} /\ Agreed /\ ~wrapped /\ WholeRequests =>
    /\ bin.wire = <<>> /\ bin.rem = 0
    /\ \A i \in 1..Len(bout) : Starts(bout[i].data, "close")

(* The reader never asks for bytes without room for at least one: it would *)
(* take the answer, 0 bytes, for the end of the stream.                    *)
(* packet_reader.rs:163-178.                                               *)
RoomToRead == Room(cin) > 0 /\ Room(bin) > 0

(* The proxy always catches up with its client: on_com comes back to the   *)
(* read of the next request with all of the earlier ones served.  No       *)
(* forwarder waits for a packet the server does not send, but for the one  *)
(* of a COM_STMT_SEND_LONG_DATA, which waits for ever                      *)
(* (haentgl_server.rs:242).  A LOAD DATA LOCAL ends the session with a     *)
(* panic.                                                                  *)
CommandAnswered ==
  []<>(\/ at \in {"left", "panicked"}
       \/ Len(served) >= Len(asked) /\ at = "command"
       \/ at = "one" /\ served # <<>> /\ Starts(served[Len(served)], "longdata")
       \/ wrapped \/ ~WholeRequests \/ ~Agreed)
==============================================================================
