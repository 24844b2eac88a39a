------------------------------ MODULE Handshake ------------------------------
(***************************************************************************)
(* A login on bytes (auth/authenticator.rs, protocol/mysql/basic.rs): the  *)
(* proxy greets, the client answers with a HandshakeResponse that the      *)
(* proxy parses field by field, the tenant key in its user name routes it  *)
(* (TenantKey), and the server is asked for the user, by a new             *)
(* HandshakeResponse on a new connection and by a COM_CHANGE_USER on one   *)
(* that was used before.  The server switches the plugin, the client       *)
(* answers once more, and the verdict goes back.                           *)
(*                                                                         *)
(* The capabilities, 4 bytes at the front of the packet, are a set; the    *)
(* other fields of fixed size are left out.                                *)
(***************************************************************************)
EXTENDS TenantKey

CONSTANTS
  Offers,   \* what a client may put into its HandshakeResponse
  Plugin    \* the name of its authentication plugin

(* Of default_capabilities, the flags that say which fields follow.        *)
DefaultCapabilities == {"LENENC", "SECURE", "DB", "PLUGIN", "ATTRS"}

Byte == 0..255

(* Lengths that three bytes hold; a packet is shorter.                     *)
MaxLen == 256 * 256 * 256

VARIABLES
  step,    \* where the login is
  offer,   \* the client's flags, password hash, database and attributes
  pkt,     \* the bytes of its HandshakeResponse
  read,    \* what client_handshake_response made of them
  conn,    \* the pooled connection: "new" or "used"
  asked,   \* the user and the database that the server was asked for
  cnum,    \* the numbers of the packets between client and proxy
  snum     \* and between proxy and server

loginVars == <<step, offer, pkt, read, conn, asked, cnum, snum>>
hsVars == <<key, user, sync, login, resp, tenant, at,
            step, offer, pkt, read, conn, asked, cnum, snum>>

----------------------------------------------------------------------------
(* The parsers: what was read from place i on, and the place after it.     *)

Got(v, n) == [ok |-> TRUE, val |-> v, next |-> n]
Fail == [ok |-> FALSE, val |-> None, next |-> 0]

Nuls(b, i) == {j \in i..Len(b) : b[j] = 0}
FirstNul(b, i) == CHOOSE j \in Nuls(b, i) : \A k \in Nuls(b, i) : j <= k

(* take_until(1.., "\0"): at least one byte, and the NUL is not read.      *)
TakeUntilNul(b, i) ==
  IF Nuls(b, i) = {} \/ (i <= Len(b) /\ b[i] = 0) THEN Fail
  ELSE Got(SubSeq(b, i, FirstNul(b, i) - 1), FirstNul(b, i))

(* ... and then the NUL.                                                   *)
NulString(b, i) ==
  LET s == TakeUntilNul(b, i) IN IF s.ok THEN Got(s.val, s.next + 1) ELSE Fail

Take(b, i, n) ==
  IF i + n - 1 <= Len(b) THEN Got(SubSeq(b, i, i + n - 1), i + n) ELSE Fail

(* Mutant: three bytes follow 0xfc.                                        *)
LenencWidthWide(c) == CASE c = 252 -> 3 [] c = 253 -> 3 [] c = 254 -> 8 [] OTHER -> 0

LenencWidth(c) == CASE c = 252 -> 2 [] c = 253 -> 3 [] c = 254 -> 8 [] OTHER -> 0

LittleEndian(s) ==
  LET value[n \in 0..Len(s)] ==
        IF n = 0 THEN 0 ELSE 256 * value[n - 1] + s[Len(s) + 1 - n]
  IN  value[Len(s)]

ReadLengthEncodedNumber(b, i) ==
  IF i > Len(b) THEN Fail
  ELSE LET w == LenencWidth(b[i])
           s == Take(b, i + 1, w)
       IN  IF b[i] = 251 THEN Got(0, i + 1)
           ELSE IF w = 0 THEN Got(b[i], i + 1)
           ELSE IF s.ok THEN Got(LittleEndian(s.val), s.next) ELSE Fail

ReadLengthEncodedString(b, i) ==
  LET n == ReadLengthEncodedNumber(b, i)
  IN  IF n.ok THEN Take(b, n.next, n.val) ELSE Fail

(* The three ways to write the password hash; the last one leaves its NUL. *)
AuthResponse(b, i, f) ==
  CASE "LENENC" \in f -> ReadLengthEncodedString(b, i)
    [] "LENENC" \notin f /\ "SECURE" \in f ->
         IF i <= Len(b) THEN Take(b, i + 1, b[i]) ELSE Fail
    [] OTHER -> TakeUntilNul(b, i)

Present(b, i, f, flag) == flag \in f /\ i <= Len(b)

Database(b, i, f) ==
  IF Present(b, i, f, "DB") THEN NulString(b, i) ELSE Got(None, i)

AuthPlugin(b, i, f) ==
  IF Present(b, i, f, "PLUGIN") THEN NulString(b, i) ELSE Got(<<>>, i)

(* HashMap::insert.                                                        *)
Insert(map, k, v) == [x \in DOMAIN map \cup {k} |-> IF x = k THEN v ELSE map[x]]

(* One turn of the loop over the attributes, after the turns that made s.  *)
Pair(d, s) ==
  LET k == ReadLengthEncodedString(d, s.next)
      v == IF k.ok THEN ReadLengthEncodedString(d, k.next) ELSE Fail
  IN  IF ~s.ok \/ s.next > Len(d) THEN s
      ELSE IF v.ok THEN Got(Insert(s.val, k.val, v.val), v.next) ELSE Fail

(* The loop ends with the bytes, of which every turn reads some.           *)
Pairs(d) ==
  LET loop[n \in 0..Len(d)] ==
        IF n = 0 THEN Got(<<>>, 1) ELSE Pair(d, loop[n - 1])
  IN  loop[Len(d)]

ConnectAttributes(b, i, f) ==
  LET d == ReadLengthEncodedString(b, i)
      p == IF d.ok THEN Pairs(d.val) ELSE Fail
  IN  IF ~Present(b, i, f, "ATTRS") THEN Got(None, i)
      ELSE IF p.ok THEN Got(p.val, d.next) ELSE Fail

(* client_handshake_response for a client that keeps to the flags of the   *)
(* greeting: it has CLIENT_PROTOCOL_41 and, in a build without TLS, not    *)
(* CLIENT_SSL.  The short packet before a TLS handshake (basic.rs:230-245) *)
(* and HandshakeResponse320 (basic.rs:318-353) do not come up.             *)
ClientHandshakeResponse(b, f) ==
  LET u == NulString(b, 1)
      a == IF u.ok THEN AuthResponse(b, u.next, f) ELSE Fail
      d == IF a.ok THEN Database(b, a.next, f) ELSE Fail
      p == IF d.ok THEN AuthPlugin(b, d.next, f) ELSE Fail
      c == IF p.ok THEN ConnectAttributes(b, p.next, f) ELSE Fail
  IN  IF c.ok THEN Got([username |-> u.val, auth_response |-> a.val,
                        database |-> d.val, auth_plugin |-> p.val,
                        connect_attributes |-> c.val], c.next)
      ELSE Fail

----------------------------------------------------------------------------
(* The client's side, as MySQL's documentation lays the packet out.        *)

LenencNumber(n) ==
  CASE n < 251 -> <<n>>
    [] n >= 251 /\ n < 256 * 256 -> <<252, n % 256, n \div 256>>
    [] OTHER -> <<253, n % 256, (n \div 256) % 256, (n \div 256) \div 256>>

Lenenc(s) == LenencNumber(Len(s)) \o s

Nul(s) == s \o <<0>>

WrittenAuth(o) ==
  CASE "LENENC" \in o.flags -> Lenenc(o.auth)
    [] "LENENC" \notin o.flags /\ "SECURE" \in o.flags -> <<Len(o.auth)>> \o o.auth
    [] OTHER -> Nul(o.auth)

WrittenPair(a) == Lenenc(a[1]) \o Lenenc(a[2])

WrittenAttrs(attrs) ==
  LET pairs[n \in 0..Len(attrs)] ==
        IF n = 0 THEN <<>> ELSE pairs[n - 1] \o WrittenPair(attrs[n])
  IN  pairs[Len(attrs)]

Written(name, o) ==
  Nul(name)
  \o (WrittenAuth(o)
  \o ((IF "DB" \in o.flags THEN Nul(o.db) ELSE <<>>)
  \o ((IF "PLUGIN" \in o.flags THEN Nul(Plugin) ELSE <<>>)
  \o (IF "ATTRS" \in o.flags THEN Lenenc(WrittenAttrs(o.attrs)) ELSE <<>>))))

(* What it means by it; of two attributes with a name the later counts.    *)
LastOf(attrs, k) ==
  {i \in 1..Len(attrs) : attrs[i][1] = k /\ \A j \in 1..Len(attrs) : attrs[j][1] = k => j <= i}

Attributes(attrs) ==
  [k \in {attrs[i][1] : i \in 1..Len(attrs)} |-> attrs[CHOOSE i \in LastOf(attrs, k) : TRUE][2]]

Meant(name, o) ==
  [username |-> name, auth_response |-> o.auth,
   database |-> IF "DB" \in o.flags THEN o.db ELSE None,
   auth_plugin |-> IF "PLUGIN" \in o.flags THEN Plugin ELSE <<>>,
   connect_attributes |-> IF "ATTRS" \in o.flags THEN Attributes(o.attrs) ELSE None]

(* What MySQL's documentation lets a client write: a name has no NUL,      *)
(* without LENENC the length of the password hash is one byte, and         *)
(* attributes are text, which from_utf8 takes (in ASCII here).             *)
Text == Seq(0..127)

OfferOK(o) ==
  /\ o.flags \subseteq DefaultCapabilities
  /\ o.auth \in Seq(Byte) /\ Len(o.auth) < MaxLen
  /\ o.flags \cap {"LENENC", "SECURE"} = {"SECURE"} => Len(o.auth) < 256
  /\ o.db \in Seq(Byte \ {0})
  /\ o.attrs \in Seq(Text \X Text)
  /\ \A i \in 1..Len(o.attrs) : Len(o.attrs[i][1]) < MaxLen /\ Len(o.attrs[i][2]) < MaxLen
  /\ Len(WrittenAttrs(o.attrs)) < MaxLen

ASSUME HandshakeAssumption ==
  /\ Plugin \in Seq(Char) /\ Plugin # <<>>
  /\ \A o \in Offers : OfferOK(o)

----------------------------------------------------------------------------
(* A packet has the number after the one it answers.                       *)
Last(s) == s[Len(s)]
Reply(s) == Append(s, Last(s) + 1)

HsInit ==
  /\ Init
  /\ step = "greet"
  /\ offer \in Offers
  /\ pkt = <<>> /\ read = None /\ conn = None /\ asked = None
  /\ cnum = <<>> /\ snum = <<>>

(* write_initial_handshake, on a new writer.                               *)
WriteInitialHandshake ==
  /\ step = "greet" /\ step' = "respond"
  /\ cnum' = <<0>>
  /\ UNCHANGED <<vars, offer, pkt, read, conn, asked, snum>>

ClientResponds ==
  /\ step = "respond" /\ step' = "parse"
  /\ Login
  /\ pkt' = Written(login', offer)
  /\ cnum' = Reply(cnum)
  /\ UNCHANGED <<offer, read, conn, asked, snum>>

(* The client is gone: an error is written and the login ends.             *)
ClientLeaves ==
  /\ step = "respond" /\ step' = "closed"
  /\ cnum' = Reply(cnum)
  /\ UNCHANGED <<vars, offer, pkt, read, conn, asked, snum>>

(* initial_handshake reads the packet and changes the tenant.              *)
InitialHandshake ==
  /\ step = "parse" /\ step' = "route"
  /\ ClientHandshakeResponse(pkt, offer.flags).ok
  /\ read' = ClientHandshakeResponse(pkt, offer.flags).val
  /\ resp' = Changed(read'.username)
  /\ at' = "split"
  /\ UNCHANGED <<key, user, sync, login, tenant, offer, pkt, conn, asked, cnum, snum>>

(* unwrap on what the parser returns.                                      *)
ParsePanics ==
  /\ step = "parse" /\ step' = "panicked"
  /\ ~ClientHandshakeResponse(pkt, offer.flags).ok
  /\ UNCHANGED <<vars, offer, pkt, read, conn, asked, cnum, snum>>

Route ==
  /\ step = "route"
  /\ \/ ConnectToBackend /\ step' = "get"
     \/ DecodePanics /\ step' = "panicked"
  /\ UNCHANGED <<offer, pkt, read, conn, asked, cnum, snum>>

(* The pool has a connection; a server greets on a new one.                *)
GetConn(c) ==
  /\ step = "get" /\ step' = "ask"
  /\ conn' = c
  /\ snum' = IF c = "new" THEN <<0>> ELSE <<>>
  /\ UNCHANGED <<vars, offer, pkt, read, asked, cnum>>

(* The number of the HandshakeResponse, which initial_handshake returns.   *)
ClientSeq == cnum[2]

(* mysql_common's reading of the client's packet.                          *)
DbName == Meant(login, offer).database

(* Mutant: the name in the client's packet is passed on.                   *)
ReplyHandshakeResponseRaw ==
  /\ step = "ask" /\ conn = "new" /\ step' = "switch"
  /\ asked' = [user |-> login, db |-> DbName]
  /\ snum' = Reply(Append(snum, ClientSeq))
  /\ UNCHANGED <<vars, offer, pkt, read, conn, cnum>>

(* reply_handshake_response, with the packet of reset_handshake_plugin and *)
(* the number of the client's; the server asks to switch.                  *)
ReplyHandshakeResponse ==
  /\ step = "ask" /\ conn = "new" /\ step' = "switch"
  /\ asked' = [user |-> resp.username, db |-> DbName]
  /\ snum' = Reply(Append(snum, ClientSeq))
  /\ UNCHANGED <<vars, offer, pkt, read, conn, cnum>>

(* `?' on reset_handshake_plugin: mysql_common cannot read the packet that *)
(* the proxy's own parser took (authenticator.rs:225).                     *)
ReplyHandshakeFails ==
  /\ step = "ask" /\ conn = "new" /\ step' = "refused"
  /\ UNCHANGED <<vars, offer, pkt, read, conn, asked, cnum, snum>>

(* Mutant: the writer goes on from the last number of the client before.   *)
ContinueAuthNoReset ==
  /\ step = "ask" /\ conn = "used" /\ step' = "switch"
  /\ asked' = [user |-> resp.username, db |-> read.database]
  /\ snum' = Reply(Append(snum, 1))
  /\ UNCHANGED <<vars, offer, pkt, read, conn, cnum>>

(* continue_auth: COM_CHANGE_USER, after reset_seq.                        *)
ContinueAuth ==
  /\ step = "ask" /\ conn = "used" /\ step' = "switch"
  /\ asked' = [user |-> resp.username, db |-> read.database]
  /\ snum' = Reply(Append(snum, 0))
  /\ UNCHANGED <<vars, offer, pkt, read, conn, cnum>>

(* process_auth_switch_plugin passes the AuthSwitchRequest on, then the    *)
(* client's answer; the server decides.                                    *)
Switch ==
  /\ step = "switch" /\ step' = "verdict"
  /\ cnum' = Reply(Append(cnum, ClientSeq + 1))
  /\ snum' = Reply(Append(snum, Last(snum) + 1))
  /\ UNCHANGED <<vars, offer, pkt, read, conn, asked>>

(* The verdict keeps the number that the server gave it.                   *)
Verdict ==
  /\ step = "verdict" /\ step' = "done"
  /\ cnum' = Append(cnum, Last(snum))
  /\ UNCHANGED <<vars, offer, pkt, read, conn, asked, snum>>

HsNext ==
  \/ WriteInitialHandshake \/ ClientResponds \/ ClientLeaves
  \/ InitialHandshake \/ ParsePanics
  \/ Route \/ ReplyHandshakeResponse \/ ReplyHandshakeFails
  \/ ContinueAuth \/ Switch \/ Verdict
  \/ \E c \in {"new", "used"} : GetConn(c)

HsSpec == HsInit /\ [][HsNext]_hsVars

----------------------------------------------------------------------------
(* A client that says how long its password hash is and that leaves no     *)
(* string empty.                                                           *)
Plain ==
  /\ offer.flags \cap {"LENENC", "SECURE"} # {}
  /\ login # <<>>
  /\ "DB" \in offer.flags => offer.db # <<>>

(* The proxy reads every field as the client wrote it, whichever fields    *)
(* the flags announce and however long they are (basic.rs:212-317).        *)
ReadAsSent ==
  step \notin {"greet", "respond", "parse", "closed"} /\ Plain => read = Meant(login, offer)

(* A login asks the server for the same user and database on a new and on  *)
(* a used connection: two parsers and two packets (authenticator.rs:93-160) *)
(* agree on what the client meant.                                         *)
SameRequest ==
  asked # None /\ Plain /\ Dots(user) = {} =>
    asked = [user |-> IF sync THEN user ELSE login,
             db |-> IF "DB" \in offer.flags THEN offer.db ELSE None]

Consecutive(s) == \A i \in 1..Len(s) : s[i] = i - 1

(* Each side sees consecutive packet numbers, although they come from the  *)
(* client's packet, from a writer that was set back, and from the server   *)
(* (authenticator.rs:45-58).  The exception is the verdict on a used       *)
(* connection: it keeps the server's number, which counts from the         *)
(* COM_CHANGE_USER.                                                        *)
NumbersInOrder ==
  /\ Consecutive(snum)
  /\ IF step = "done" /\ conn = "used"
       THEN Consecutive(SubSeq(cnum, 1, 4)) /\ cnum[5] = 3
       ELSE Consecutive(cnum)
==============================================================================
