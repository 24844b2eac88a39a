--------------------------- MODULE FramingProofs ----------------------------
(***************************************************************************)
(* What the exchange of commands rests on, for all lengths.                *)
(*                                                                         *)
(* Framing: a message is cut into pieces, Carries(w, ms) says that the     *)
(* frames w are those of the messages ms, and PacketReader takes the       *)
(* messages from them one by one, as PacketWriter writes them.             *)
(*                                                                         *)
(* Answers: the forwarders are an automaton that stops where each answer   *)
(* the server may give ends.                                               *)
(***************************************************************************)
EXTENDS CommandExchange, WellFoundedInduction, TLAPS

(* The facts on sequences that the proofs use.                             *)
LEMMA LenProperties ==
  ASSUME NEW S, NEW s \in Seq(S)
  PROVE  Len(s) \in Nat /\ s \in [1..Len(s) -> S] /\ DOMAIN s = 1..Len(s)
  OBVIOUS

LEMMA EmptySeq ==
  ASSUME NEW S
  PROVE  << >> \in Seq(S) /\ Len(<< >>) = 0 /\ \A s \in Seq(S) : s # << >> => Len(s) \in Nat \ {0}
  OBVIOUS

LEMMA SeqEqual ==
  ASSUME NEW S, NEW s \in Seq(S), NEW t \in Seq(S), Len(s) = Len(t),
         \A i \in 1..Len(s) : s[i] = t[i]
  PROVE  s = t
  OBVIOUS

LEMMA ConcatProperties ==
  ASSUME NEW S, NEW s \in Seq(S), NEW t \in Seq(S)
  PROVE  /\ s \o t \in Seq(S) /\ Len(s \o t) = Len(s) + Len(t)
         /\ \A i \in 1..(Len(s) + Len(t)) :
              (s \o t)[i] = (IF i <= Len(s) THEN s[i] ELSE t[i - Len(s)])
  OBVIOUS

LEMMA ConcatAssociative ==
  ASSUME NEW S, NEW s \in Seq(S), NEW t \in Seq(S), NEW u \in Seq(S)
  PROVE  (s \o t) \o u = s \o (t \o u)
  OBVIOUS

LEMMA SubSeqProperties ==
  ASSUME NEW S, NEW s, NEW m \in Int, NEW n \in Int, \A i \in m..n : s[i] \in S
  PROVE  /\ SubSeq(s, m, n) \in Seq(S)
         /\ Len(SubSeq(s, m, n)) = (IF m <= n THEN n - m + 1 ELSE 0)
         /\ \A i \in 1..(n - m + 1) : SubSeq(s, m, n)[i] = s[m + i - 1]
  OBVIOUS

LEMMA HeadTailProperties ==
  ASSUME NEW S, NEW s \in Seq(S), s # << >>
  PROVE  /\ Head(s) \in S /\ Tail(s) \in Seq(S) /\ Len(Tail(s)) = Len(s) - 1
         /\ \A i \in 1..Len(Tail(s)) : Tail(s)[i] = s[i + 1]
  OBVIOUS

LEMMA AppendProperties ==
  ASSUME NEW S, NEW s \in Seq(S), NEW e \in S
  PROVE  /\ Append(s, e) \in Seq(S) /\ Append(s, e) # << >> /\ Append(s, e) = s \o <<e>>
         /\ Len(Append(s, e)) = Len(s) + 1 /\ Append(s, e)[Len(s) + 1] = e
         /\ \A i \in 1..Len(s) : Append(s, e)[i] = s[i]
  OBVIOUS

(* The messages: what the server may be asked and what it answers.         *)
Heads == Commands \cup {"reset", "ok", "err", "infile", "fe", "other"}

Messages ==
  [head : Heads, len : Nat \ {0}, more : BOOLEAN, cursor : BOOLEAN,
   cols : Nat, params : Nat]

ResetMsg == [Msg("other", ResetLen) EXCEPT !.head = "reset"]

RequestMsgs == {m \in Messages : m.head \in Commands \cup {"reset"}}

(* Msg makes a message, ...                                                *)
LEMMA MsgType ==
  ASSUME NEW h \in Heads, NEW len \in Nat \ {0}
  PROVE  Msg(h, len) \in Messages
BY DEF Msg, Messages

(* ... with these fields.                                                  *)
LEMMA MsgFields ==
  ASSUME NEW h, NEW len
  PROVE  /\ Msg(h, len).head = h /\ Msg(h, len).len = len
         /\ Msg(h, len).more = FALSE /\ Msg(h, len).cursor = FALSE
BY DEF Msg

PrepareOk(c) == [Ok(FALSE) EXCEPT !.cols = c[1], !.params = c[2]]

(* A request, ...                                                          *)
LEMMA RequestType ==
  ASSUME NEW com \in Commands \cup {"reset"}, NEW len \in Nat \ {0}
  PROVE  LET m == [Msg("other", len) EXCEPT !.head = com]
         IN  m \in RequestMsgs /\ m.head = com /\ m.len = len
<1> DEFINE m == Msg("other", len)
<1>1. m \in Messages /\ m.len = len
  BY MsgType, MsgFields, ZenonT(60) DEF Heads
<1>2. com \in Heads
  BY DEF Heads
<1> HIDE DEF m
<1>3. LET n == [m EXCEPT !.head = com]
      IN  n \in Messages /\ n.head = com /\ n.len = m.len
  BY <1>1, <1>2 DEF Messages
<1> QED BY <1>1, <1>3, Zenon DEF RequestMsgs, m

(* ... and the one that replaces COM_QUIT.                                 *)
LEMMA ResetType ==
  ResetMsg \in RequestMsgs /\ ResetMsg.head = "reset" /\ ResetMsg.len = ResetLen
BY RequestType, ExchangeAssumption DEF ResetMsg

(* The forwarders as an automaton: s is where on_com is and what it still  *)
(* expects, m the message it reads.                                        *)
Ends(d, m) ==
  m.head = "fe" /\ IF d THEN OkLen <= m.len /\ m.len < MaxPayload ELSE m.len <= EofLen

AfterResult(m) == IF m.more THEN "first" ELSE "command"

Follow(m, d) ==
  LET eof(n) == IF ~d /\ n > 0 THEN 1 ELSE 0
  IN  m.cols + m.params + eof(m.cols) + eof(m.params)

NextAt(d, s, m) ==
  CASE s[1] = "first" -> CASE m.head = "ok"     -> AfterResult(m)
                           [] m.head = "err"    -> "command"
                           [] m.head = "infile" -> "panicked"
                           [] OTHER             -> IF d THEN "rows" ELSE "cols"
    [] s[1] = "cols"  -> IF ~Ends(FALSE, m) THEN "cols"
                         ELSE IF m.cursor THEN AfterResult(m) ELSE "rows"
    [] s[1] = "rows"  -> CASE m.head = "err"    -> "command"
                           [] Ends(d, m)        -> AfterResult(m)
                           [] OTHER             -> "rows"
    [] s[1] = "fetch" -> IF m.head = "err" \/ Ends(d, m) THEN "command" ELSE "fetch"
    [] s[1] = "prepare" -> CASE m.head = "err"  -> "command"
                             [] m.head = "ok"   -> IF Follow(m, d) > 0 THEN "defs"
                                                   ELSE "command"
                             [] OTHER           -> "panicked"
    [] s[1] = "defs"  -> IF s[2] = 1 THEN "command" ELSE "defs"
    [] s[1] = "reset" -> "left"
    [] OTHER          -> "command"

NextLeft(d, s, m) ==
  CASE s[1] = "prepare" -> IF m.head = "ok" THEN Follow(m, d) ELSE 0
    [] s[1] = "defs"    -> s[2] - 1
    [] OTHER            -> s[2]

Go(d, s, m) == <<NextAt(d, s, m), NextLeft(d, s, m)>>

(* The forwarders read the messages a, all of them, on their way from s    *)
(* to t, ...                                                               *)
Runs(d, s, a, t, q) ==
  /\ q[0] = s /\ q[Len(a)] = t
  /\ \A i \in 1..Len(a) : q[i - 1][1] \in Reading /\ q[i] = Go(d, q[i - 1], a[i])

Path(d, s, a, t) == a \in Seq(Messages) /\ \E q : Runs(d, s, a, t, q)

(* ... and stop there.                                                     *)
Stops(d, s, a) == \E t : Path(d, s, a, t) /\ t[1] \notin Reading

(* A forwarder that stops where messages end reads the first of them and  *)
(* stops where the others end.                                             *)
LEMMA StopsTail ==
  ASSUME NEW d, NEW s, NEW a, Stops(d, s, a), a # <<>>
  PROVE  s[1] \in Reading /\ a[1] \in Messages /\ Stops(d, Go(d, s, a[1]), Tail(a))
<1>1. PICK t : Path(d, s, a, t) /\ t[1] \notin Reading
  BY DEF Stops
<1>2. PICK f : Runs(d, s, a, t, f)
  BY <1>1 DEF Path
<1> DEFINE n == Len(a)
           T == Tail(a)
<1>3. /\ a \in Seq(Messages) /\ n \in Nat \ {0} /\ T \in Seq(Messages) /\ Len(T) = n - 1
      /\ \A i \in 1..(n - 1) : T[i] = a[i + 1]
      /\ a[1] \in Messages
  BY <1>1 DEF Path
<1>4. /\ f[0] = s /\ f[n] = t
      /\ \A i \in 1..n : f[i - 1][1] \in Reading /\ f[i] = Go(d, f[i - 1], a[i])
  BY <1>2, Zenon DEF Runs
<1> HIDE DEF n, T
<1>5. s[1] \in Reading /\ f[1] = Go(d, s, a[1])
  <2>1. 1 \in 1..n /\ 1 - 1 = 0
    BY <1>3
  <2> QED BY <1>4, <2>1
<1> DEFINE q == [i \in 0..(n - 1) |-> f[i + 1]]
<1>6. \A i \in 0..(n - 1) : q[i] = f[i + 1]
  OBVIOUS
<1> HIDE DEF q
<1>7. ASSUME NEW i \in 1..(n - 1)
      PROVE  q[i - 1][1] \in Reading /\ q[i] = Go(d, q[i - 1], T[i])
  <2>1. /\ i \in 0..(n - 1) /\ i - 1 \in 0..(n - 1) /\ i + 1 \in 1..n /\ (i + 1) - 1 = i
        /\ (i - 1) + 1 = i
    BY <1>3
  <2>2. q[i] = f[i + 1] /\ q[i - 1] = f[i] /\ T[i] = a[i + 1]
    BY <1>3, <1>6, <2>1
  <2>3. f[i][1] \in Reading /\ f[i + 1] = Go(d, f[i], a[i + 1])
    BY <1>4, <2>1
  <2> QED BY <2>2, <2>3, Zenon
<1>8. q[0] = f[1] /\ q[n - 1] = t
  <2>1. 0 \in 0..(n - 1) /\ n - 1 \in 0..(n - 1) /\ 0 + 1 = 1 /\ (n - 1) + 1 = n
    BY <1>3
  <2> QED BY <1>4, <1>6, <2>1
<1>9. Runs(d, f[1], T, t, q)
  BY <1>3, <1>7, <1>8, Zenon DEF Runs
<1>10. Stops(d, f[1], T)
  BY <1>1, <1>3, <1>9, Zenon DEF Stops, Path
<1> QED BY <1>3, <1>5, <1>10 DEF T

----------------------------------------------------------------------------
(* Single steps.                                                           *)
LEMMA AtStep ==
  ASSUME NEW x, NEW l
  PROVE  <<x, l>>[1] = x /\ <<x, l>>[2] = l
OBVIOUS

(* Which steps wait for a packet of the server.                            *)
LEMMA ReadingSteps ==
  /\ "first" \in Reading /\ "cols" \in Reading /\ "rows" \in Reading /\ "fetch" \in Reading
  /\ "prepare" \in Reading /\ "defs" \in Reading /\ "one" \in Reading /\ "reset" \in Reading
  /\ "command" \notin Reading /\ "left" \notin Reading /\ "panicked" \notin Reading
BY DEF Reading

----------------------------------------------------------------------------
(* The definitions of parameters or columns, and the EOF packet after them.*)
Block(d, k) == IF k = 0 THEN <<>> ELSE Defs(k) \o Eof(d)

BlockLen(d, k) == k + (IF ~d /\ k > 0 THEN 1 ELSE 0)

(* The forwarder that waits for the answer to a request, ...               *)
Sends(com) == IF com = "reset" THEN "reset" ELSE Forwarder(com)

Unanswered == {"close", "longdata"}

(* Whatever answer the protocol allows to a command, with EOF packets or   *)
(* with DEPRECATE_EOF, the forwarder that dispatches the command           *)
(* (QueryForwarder, StmtPrepareForwarder, ResetConnForwarder or            *)
(* GenericComForwarder) reads on until the last packet of the answer and   *)
(* stops at it: at no earlier one.  The answers to the two commands that   *)
(* get none are empty.                                                     *)
THEOREM AnswersStop ==
  \A com \in Commands \cup {"reset"}, d \in BOOLEAN : \A l : \A a \in Answers(com, d) :
    /\ a \in Seq(Messages)
    /\ com \in Unanswered => a = <<>>
    /\ com \notin Unanswered => Stops(d, <<Sends(com), l>>, a)
(* OK and EOF packets are not empty.                                       *)
<1>LensOK.
      OkLen \in Nat \ {0} /\ EofLen \in Nat \ {0}
  BY ExchangeAssumption
(* An OK packet, ...                                                       *)
<1>OkType.
      ASSUME NEW more \in BOOLEAN
      PROVE  /\ Ok(more) \in Messages /\ Ok(more).head = "ok" /\ Ok(more).more = more
             /\ Ok(more).len = OkLen
  <2> DEFINE m == Msg("ok", OkLen)
  <2>1. m \in Messages
    BY <1>LensOK, MsgType DEF Heads
  <2>2. m.head = "ok" /\ m.len = OkLen
    BY MsgFields, ZenonT(60)
  <2> HIDE DEF m
  <2>3. LET n == [m EXCEPT !.more = more]
        IN  n \in Messages /\ n.head = m.head /\ n.more = more /\ n.len = m.len
    BY <2>1 DEF Messages
  <2> QED BY <2>2, <2>3 DEF Ok, m
(* ... the first packet of an answer to COM_STMT_PREPARE, ...              *)
<1>PrepareOkType.
      ASSUME NEW c \in Nat \X Nat
      PROVE  /\ PrepareOk(c) \in Messages /\ PrepareOk(c).head = "ok"
             /\ PrepareOk(c).cols = c[1] /\ PrepareOk(c).params = c[2]
  <2>1. Ok(FALSE) \in Messages /\ Ok(FALSE).head = "ok"
    BY <1>OkType, Zenon
  <2> QED BY <2>1, Zenon DEF PrepareOk, Messages
(* ... an ERR packet, ...                                                  *)
<1>ErrType.
      Err \in Messages /\ Err.head = "err"
  <2>1. "err" \in Heads /\ 1 \in Nat \ {0}
    BY DEF Heads
  <2> QED BY <2>1, MsgType, MsgFields, Zenon DEF Err
(* ... a definition, ...                                                   *)
<1>DefType.
      Def \in Messages /\ Def.head = "other"
  <2>1. "other" \in Heads /\ 1 \in Nat \ {0}
    BY DEF Heads
  <2> QED BY <2>1, MsgType, MsgFields, Zenon DEF Def
(* ... a row, which starts with 0xfe only if it is long, ...               *)
<1>RowType.
      ASSUME NEW len \in Nat \ {0}
      PROVE  /\ Row(len) \in Messages /\ Row(len).len = len /\ Row(len).head # "err"
             /\ Row(len).head = "fe" => len > MaxPayload
  <2> DEFINE h == IF len > MaxPayload THEN "fe" ELSE "other"
  <2>1. Row(len) = Msg(h, len)
    BY DEF Row
  <2>2. h \in Heads /\ h # "err" /\ (h = "fe" => len > MaxPayload)
    BY DEF Heads
  <2> HIDE DEF h
  <2>3. Msg(h, len) \in Messages /\ Msg(h, len).len = len /\ Msg(h, len).head = h
    BY <2>2, MsgType, MsgFields, ZenonT(60)
  <2> QED BY <2>1, <2>2, <2>3, Zenon
(* ... and what ends the rows.                                             *)
<1>EndType.
      ASSUME NEW d \in BOOLEAN, NEW more \in BOOLEAN, NEW cursor \in BOOLEAN
      PROVE  /\ End(d, more, cursor) \in Messages /\ End(d, more, cursor).head = "fe"
             /\ End(d, more, cursor).len = (IF d THEN OkLen ELSE EofLen)
             /\ End(d, more, cursor).more = more /\ End(d, more, cursor).cursor = cursor
  <2> DEFINE l == IF d THEN OkLen ELSE EofLen
             m == Msg("fe", l)
  <2>1. End(d, more, cursor) = [m EXCEPT !.more = more, !.cursor = cursor]
    BY DEF End
  <2>2. l \in Nat \ {0}
    BY <1>LensOK
  <2> HIDE DEF l
  <2>3. m \in Messages /\ m.head = "fe" /\ m.len = l
    BY <2>2, MsgType, MsgFields, ZenonT(60) DEF Heads
  <2> HIDE DEF m
  <2>4. LET n == [m EXCEPT !.more = more, !.cursor = cursor]
        IN  n \in Messages /\ n.head = m.head /\ n.more = more /\ n.cursor = cursor /\ n.len = m.len
    BY <2>3, Zenon DEF Messages
  <2> QED BY <2>1, <2>3, <2>4 DEF l
(* The rows of a result.                                                   *)
<1>RowSetsType.
      \A rows \in RowSets : /\ rows \in Seq(Messages)
                            /\ \A i \in 1..Len(rows) : \E l \in Nat \ {0} : rows[i] = Row(l)
  <2> SUFFICES ASSUME NEW rows \in RowSets
               PROVE  /\ rows \in Seq(Messages)
                      /\ \A i \in 1..Len(rows) : \E l \in Nat \ {0} : rows[i] = Row(l)
    OBVIOUS
  <2>1. PICK n \in 0..MaxRows : rows \in [1..n -> {Row(l) : l \in RowLens}]
    BY DEF RowSets
  <2>2. n \in Nat /\ RowLens \subseteq Nat \ {0}
    BY ExchangeAssumption
  <2>3. \A i \in 1..n : \E l \in Nat \ {0} : rows[i] = Row(l)
    BY <2>1, <2>2
  <2>4. \A i \in 1..n : rows[i] \in Messages
    BY <2>3, <1>RowType
  <2>5. rows \in [1..n -> Messages]
    BY <2>1, <2>4
  <2>6. rows \in Seq(Messages) /\ Len(rows) = n
    BY <2>2, <2>5
  <2> QED BY <2>3, <2>6
(* A sequence of one element.                                              *)
<1>OneSeq.
      ASSUME NEW S, NEW x \in S
      PROVE  <<x>> \in Seq(S) /\ Len(<<x>>) = 1 /\ <<x>>[1] = x
  OBVIOUS
(* The EOF packet after definitions, where there is one.                   *)
<1>EofType.
      \A d \in BOOLEAN : Eof(d) \in Seq(Messages)
  <2> SUFFICES ASSUME NEW d \in BOOLEAN PROVE Eof(d) \in Seq(Messages)
    OBVIOUS
  <2>1. End(FALSE, FALSE, FALSE) \in Messages
    BY <1>EndType, Zenon
  <2>2. <<>> \in Seq(Messages) /\ <<End(FALSE, FALSE, FALSE)>> \in Seq(Messages)
    <3>1. <<>> \in Seq(Messages)
      OBVIOUS
    <3> QED BY <2>1, <3>1, <1>OneSeq, Zenon
  <2> QED BY <2>2, Zenon DEF Eof
(* No messages, no steps.                                                  *)
<1>PathNone.
      ASSUME NEW d, NEW s
      PROVE  Path(d, s, <<>>, s)
  <2> DEFINE q == [i \in 0..0 |-> s]
  <2>1. q[0] = s
    OBVIOUS
  <2> HIDE DEF q
  <2>2. Runs(d, s, <<>>, s, q)
    BY <2>1 DEF Runs
  <2> QED BY <2>2 DEF Path
(* One message, one step.                                                  *)
<1>PathOne.
      ASSUME NEW d, NEW s, s[1] \in Reading, NEW m \in Messages
      PROVE  Path(d, s, <<m>>, Go(d, s, m))
  <2> USE <1>PathOne
  <2> DEFINE t == Go(d, s, m)
             q == [i \in 0..1 |-> IF i = 0 THEN s ELSE t]
             a == <<m>>
  <2>1. a \in Seq(Messages) /\ Len(a) = 1 /\ a[1] = m
    BY <1>OneSeq
  <2> HIDE DEF t, a
  <2>2. q[0] = s /\ q[1] = t
    OBVIOUS
  <2> HIDE DEF q
  <2>3. \A i \in 1..1 : i = 1 /\ i - 1 = 0
    OBVIOUS
  <2>4. \A i \in 1..1 : q[i - 1][1] \in Reading /\ q[i] = Go(d, q[i - 1], a[i])
    BY <2>1, <2>2, <2>3 DEF t
  <2>5. Runs(d, s, a, t, q)
    BY <2>1, <2>2, <2>4, Zenon DEF Runs
  <2> QED BY <2>1, <2>5 DEF Path, a, t
(* Messages that keep the forwarder where it is.                           *)
<1>PathLoop.
      ASSUME NEW d, NEW s, s[1] \in Reading, NEW a \in Seq(Messages),
             \A i \in 1..Len(a) : Go(d, s, a[i]) = s
      PROVE  Path(d, s, a, s)
  <2> USE <1>PathLoop
  <2> DEFINE n == Len(a)
             q == [i \in 0..n |-> s]
  <2>1. n \in Nat
    OBVIOUS
  <2> HIDE DEF n
  <2>2. \A i \in 0..n : q[i] = s
    OBVIOUS
  <2> HIDE DEF q
  <2>3. 0 \in 0..n /\ n \in 0..n /\ \A i \in 1..n : i \in 0..n /\ i - 1 \in 0..n
    BY <2>1
  <2>4. \A i \in 1..n : q[i - 1][1] \in Reading /\ q[i] = Go(d, q[i - 1], a[i])
    BY <2>2, <2>3, Zenon DEF n
  <2>5. q[0] = s /\ q[n] = s
    BY <2>2, <2>3
  <2>6. Runs(d, s, a, s, q)
    BY <2>4, <2>5, Zenon DEF Runs, n
  <2> QED BY <2>6 DEF Path
(* Two paths, one after the other.                                         *)
<1>PathConcat.
      ASSUME NEW d, NEW s, NEW t, NEW u, NEW a, NEW b, Path(d, s, a, t), Path(d, t, b, u)
      PROVE  Path(d, s, a \o b, u)
  <2> USE <1>PathConcat
  <2>1. PICK f : Runs(d, s, a, t, f)
    BY DEF Path
  <2>2. PICK g : Runs(d, t, b, u, g)
    BY DEF Path
  <2> DEFINE na == Len(a)
             nb == Len(b)
             c == a \o b
  <2>3. /\ na \in Nat /\ nb \in Nat /\ c \in Seq(Messages) /\ Len(c) = na + nb
        /\ \A i \in 1..na : c[i] = a[i]
        /\ \A i \in 1..nb : c[na + i] = b[i]
    BY DEF Path
  <2>4. f[0] = s /\ f[na] = t /\ g[0] = t /\ g[nb] = u
    BY <2>1, <2>2 DEF Runs
  <2>5. /\ \A i \in 1..na : f[i - 1][1] \in Reading /\ f[i] = Go(d, f[i - 1], a[i])
        /\ \A i \in 1..nb : g[i - 1][1] \in Reading /\ g[i] = Go(d, g[i - 1], b[i])
    BY <2>1, <2>2, Zenon DEF Runs
  <2> HIDE DEF na, nb, c
  <2> DEFINE q == [i \in 0..(na + nb) |-> IF i <= na THEN f[i] ELSE g[i - na]]
  <2>6. \A i \in 0..na : q[i] = f[i]
    BY <2>3
  <2>7. \A i \in 0..nb : q[na + i] = g[i]
    <3>1. \A i \in 1..nb : q[na + i] = g[i]
      BY <2>3
    <3>2. q[na + 0] = g[0]
      BY <2>3, <2>4
    <3>3. \A i \in 0..nb : i = 0 \/ i \in 1..nb
      BY <2>3
    <3> HIDE DEF q
    <3> QED BY <3>1, <3>2, <3>3, Zenon
  <2> HIDE DEF q
  <2>8. ASSUME NEW i \in 1..(na + nb)
        PROVE  q[i - 1][1] \in Reading /\ q[i] = Go(d, q[i - 1], c[i])
    <3>1. CASE i \in 1..na
      <4>1. i \in 0..na /\ i - 1 \in 0..na
        BY <2>3, <3>1
      <4>2. q[i] = f[i] /\ q[i - 1] = f[i - 1] /\ c[i] = a[i]
        BY <2>3, <2>6, <3>1, <4>1
      <4> QED BY <2>5, <3>1, <4>2, Zenon
    <3>2. CASE i \notin 1..na
      <4>1. PICK j \in 1..nb : i = na + j
        <5>1. i - na \in 1..nb /\ i = na + (i - na)
          BY <2>3, <3>2
        <5> QED BY <5>1
      <4>2. j \in 0..nb /\ j - 1 \in 0..nb /\ i - 1 = na + (j - 1)
        BY <2>3, <4>1
      <4>3. q[i] = g[j] /\ q[i - 1] = g[j - 1] /\ c[i] = b[j]
        BY <2>3, <2>7, <4>1, <4>2, Zenon
      <4> QED BY <2>5, <4>3, Zenon
    <3> QED BY <3>1, <3>2
  <2>9. q[0] = s /\ q[na + nb] = u
    <3>1. 0 \in 0..na /\ nb \in 0..nb
      BY <2>3
    <3> QED BY <2>4, <2>6, <2>7, <3>1
  <2>10. Runs(d, s, c, u, q)
    BY <2>3, <2>8, <2>9, Zenon DEF Runs
  <2> QED BY <2>3, <2>10 DEF Path, c
(* What each forwarder does with a packet: forward_query, ...              *)
<1>GoFirst.
      ASSUME NEW d, NEW l, NEW m
      PROVE  /\ m.head = "ok" => Go(d, <<"first", l>>, m) = <<AfterResult(m), l>>
             /\ m.head = "err" => Go(d, <<"first", l>>, m) = <<"command", l>>
             /\ m.head = "infile" => Go(d, <<"first", l>>, m) = <<"panicked", l>>
             /\ m.head = "other" =>
                  Go(d, <<"first", l>>, m) = <<IF d THEN "rows" ELSE "cols", l>>
  BY DEF Go, NextAt, NextLeft
(* ... forward_result with the definitions, ...                            *)
<1>GoCols.
      ASSUME NEW d, NEW l, NEW m
      PROVE  /\ ~Ends(FALSE, m) => Go(d, <<"cols", l>>, m) = <<"cols", l>>
             /\ Ends(FALSE, m) /\ m.cursor => Go(d, <<"cols", l>>, m) = <<AfterResult(m), l>>
             /\ Ends(FALSE, m) /\ ~m.cursor => Go(d, <<"cols", l>>, m) = <<"rows", l>>
  BY Zenon DEF Go, NextAt, NextLeft
(* ... with the rows, ...                                                  *)
<1>GoRows.
      ASSUME NEW d, NEW l, NEW m
      PROVE  /\ m.head = "err" => Go(d, <<"rows", l>>, m) = <<"command", l>>
             /\ m.head # "err" /\ Ends(d, m) => Go(d, <<"rows", l>>, m) = <<AfterResult(m), l>>
             /\ m.head # "err" /\ ~Ends(d, m) => Go(d, <<"rows", l>>, m) = <<"rows", l>>
  BY DEF Go, NextAt, NextLeft, Ends
(* ... forward_until_result_end on its own, ...                            *)
<1>GoFetch.
      ASSUME NEW d, NEW l, NEW m
      PROVE  /\ m.head = "err" \/ Ends(d, m) => Go(d, <<"fetch", l>>, m) = <<"command", l>>
             /\ m.head # "err" /\ ~Ends(d, m) => Go(d, <<"fetch", l>>, m) = <<"fetch", l>>
  BY DEF Go, NextAt, NextLeft
(* ... forward_prepare_stmt with the first packet, ...                     *)
<1>GoPrepare.
      ASSUME NEW d, NEW l, NEW m
      PROVE  /\ m.head = "err" => Go(d, <<"prepare", l>>, m) = <<"command", 0>>
             /\ m.head = "ok" => Go(d, <<"prepare", l>>, m) =
                  <<IF Follow(m, d) > 0 THEN "defs" ELSE "command", Follow(m, d)>>
  BY DEF Go, NextAt, NextLeft
(* ... with the others, ...                                                *)
<1>GoDefs.
      ASSUME NEW d, NEW l, NEW m
      PROVE  Go(d, <<"defs", l>>, m) = <<IF l = 1 THEN "command" ELSE "defs", l - 1>>
  BY DEF Go, NextAt, NextLeft
(* ... and those that read one packet.                                     *)
<1>GoOne.
      ASSUME NEW d, NEW l, NEW m
      PROVE  /\ Go(d, <<"one", l>>, m) = <<"command", l>>
             /\ Go(d, <<"reset", l>>, m) = <<"left", l>>
  BY DEF Go, NextAt, NextLeft
(* Which messages end rows.                                                *)
<1>EndEnds.
      ASSUME NEW d \in BOOLEAN, NEW more \in BOOLEAN, NEW cursor \in BOOLEAN
      PROVE  Ends(d, End(d, more, cursor))
  <2>1. OkLen \in Nat /\ EofLen \in Nat /\ OkLen < MaxPayload
    BY ExchangeAssumption
  <2>2. /\ End(d, more, cursor).head = "fe"
        /\ End(d, more, cursor).len = (IF d THEN OkLen ELSE EofLen)
    BY <1>EndType
  <2> QED BY <2>1, <2>2 DEF Ends
(* A row is not taken for the end of the rows, nor for an error, ...       *)
<1>RowGoesOn.
      ASSUME NEW d \in BOOLEAN, NEW len \in Nat \ {0}
      PROVE  ~Ends(d, Row(len)) /\ Row(len).head # "err"
  <2>1. OkLen \in Nat /\ EofLen \in Nat /\ OkLen < MaxPayload /\ EofLen < OkLen /\ MaxPayload \in Nat
    BY ExchangeAssumption, FramesAssumption
  <2>2. Row(len).len = len /\ Row(len).head # "err" /\ (Row(len).head = "fe" => len > MaxPayload)
    BY <1>RowType
  <2> QED BY <2>1, <2>2 DEF Ends
(* ... and neither is a definition.                                        *)
<1>DefGoesOn.
      ASSUME NEW d
      PROVE  ~Ends(d, Def) /\ Def.head # "err"
  BY <1>DefType DEF Ends
(* Definitions are passed on.                                              *)
<1>DefPassed.
      ASSUME NEW d \in BOOLEAN, NEW l
      PROVE  LET t == <<IF d THEN "rows" ELSE "cols", l>>
             IN  Go(d, <<"first", l>>, Def) = t /\ Go(d, t, Def) = t
  <2>1. Go(d, <<"first", l>>, Def) = <<IF d THEN "rows" ELSE "cols", l>>
    BY <1>GoFirst, <1>DefType
  <2>2. CASE d
    <3>1. Go(d, <<"rows", l>>, Def) = <<"rows", l>>
      BY <1>DefGoesOn, <1>GoRows
    <3> QED BY <2>1, <2>2, <3>1, Zenon
  <2>3. CASE ~d
    <3>1. Go(d, <<"cols", l>>, Def) = <<"cols", l>>
      BY <1>DefGoesOn, <1>GoCols, Zenon
    <3> QED BY <2>1, <2>3, <3>1
  <2> QED BY <2>2, <2>3
(* Short sequences put together.                                           *)
<1>Tuples.
      ASSUME NEW S, NEW x \in S, NEW y \in S, NEW z \in S
      PROVE  /\ <<x>> \o <<y>> = <<x, y>>
             /\ (<<x>> \o <<y>>) \o <<z>> = <<x, y, z>>
  <2> DEFINE u == <<x>>
             v == <<y>>
             t == <<z>>
             p == <<x, y>>
             q == <<x, y, z>>
  <2>1. /\ u \in Seq(S) /\ Len(u) = 1 /\ u[1] = x
        /\ v \in Seq(S) /\ Len(v) = 1 /\ v[1] = y
        /\ t \in Seq(S) /\ Len(t) = 1 /\ t[1] = z
    BY <1>OneSeq
  <2>2. p \in Seq(S) /\ Len(p) = 2 /\ p[1] = x /\ p[2] = y
    OBVIOUS
  <2>3. q \in Seq(S) /\ Len(q) = 3 /\ q[1] = x /\ q[2] = y /\ q[3] = z
    OBVIOUS
  <2> HIDE DEF u, v, t, p, q
  <2>4. u \o v = p
    <3>0. /\ u \o v \in Seq(S) /\ Len(u \o v) = Len(u) + Len(v)
          /\ \A i \in 1..(Len(u) + Len(v)) :
               (u \o v)[i] = IF i <= Len(u) THEN u[i] ELSE v[i - Len(u)]
      BY <2>1, ConcatProperties
    <3>1. u \o v \in Seq(S) /\ Len(u \o v) = 2
      BY <2>1, <3>0
    <3>2. (u \o v)[1] = x /\ (u \o v)[2] = y
      BY <2>1, <3>0
    <3> DEFINE w == u \o v
    <3> HIDE DEF w
    <3>3. w \in Seq(S) /\ Len(w) = Len(p) /\ \A i \in 1..Len(w) : w[i] = p[i]
      BY <2>2, <3>1, <3>2 DEF w
    <3>4. w = p
      BY <2>2, <3>3, SeqEqual
    <3> QED BY <3>4 DEF w
  <2>5. p \o t = q
    <3>0. /\ p \o t \in Seq(S) /\ Len(p \o t) = Len(p) + Len(t)
          /\ \A i \in 1..(Len(p) + Len(t)) :
               (p \o t)[i] = IF i <= Len(p) THEN p[i] ELSE t[i - Len(p)]
      BY <2>1, <2>2, ConcatProperties, Zenon
    <3>1. p \o t \in Seq(S) /\ Len(p \o t) = 3
      BY <2>1, <2>2, <3>0
    <3>2. (p \o t)[1] = x /\ (p \o t)[2] = y /\ (p \o t)[3] = z
      BY <2>1, <2>2, <3>0
    <3> DEFINE w == p \o t
    <3> HIDE DEF w
    <3>3. w \in Seq(S) /\ Len(w) = Len(q) /\ \A i \in 1..Len(w) : w[i] = q[i]
      BY <2>3, <3>1, <3>2 DEF w
    <3>4. w = q
      BY <2>3, <3>3, SeqEqual
    <3> QED BY <3>4 DEF w
  <2> QED BY <2>4, <2>5, Zenon DEF u, v, t, p, q
(* Rows are passed by.                                                     *)
<1>RowsPath.
      ASSUME NEW d \in BOOLEAN, NEW l, NEW rows \in RowSets
      PROVE  /\ Path(d, <<"rows", l>>, rows, <<"rows", l>>)
             /\ Path(d, <<"fetch", l>>, rows, <<"fetch", l>>)
  <2>1. rows \in Seq(Messages) /\ \A i \in 1..Len(rows) : \E len \in Nat \ {0} : rows[i] = Row(len)
    BY <1>RowSetsType
  <2>2. ASSUME NEW i \in 1..Len(rows)
        PROVE  /\ Go(d, <<"rows", l>>, rows[i]) = <<"rows", l>>
               /\ Go(d, <<"fetch", l>>, rows[i]) = <<"fetch", l>>
    <3>1. PICK len \in Nat \ {0} : rows[i] = Row(len)
      BY <2>1
    <3>2. ~Ends(d, rows[i]) /\ rows[i].head # "err"
      BY <3>1, <1>RowGoesOn
    <3> QED BY <3>2, <1>GoRows, <1>GoFetch
  <2>3. <<"rows", l>>[1] \in Reading /\ <<"fetch", l>>[1] \in Reading
    BY ReadingSteps
  <2> QED BY <2>1, <2>2, <2>3, <1>PathLoop, Zenon
(* The columns of a result: up to the EOF packet behind them, if there is  *)
(* one.                                                                    *)
<1>HeadPath.
      ASSUME NEW d \in BOOLEAN, NEW l
      PROVE  Path(d, <<"first", l>>, <<Def, Def>> \o Eof(d), <<"rows", l>>)
  <2> DEFINE s == <<"first", l>>
             t == <<IF d THEN "rows" ELSE "cols", l>>
             u == <<"rows", l>>
             e == End(FALSE, FALSE, FALSE)
  <2>1. Path(d, s, <<Def>>, t)
    <3>1. Go(d, s, Def) = t /\ s[1] \in Reading
      BY <1>GoFirst, <1>DefType, ReadingSteps
    <3> QED BY <3>1, <1>DefType, <1>PathOne
  <2>2. Path(d, t, <<Def>>, t)
    <3>1. Go(d, t, Def) = t
      BY <1>DefPassed, Zenon
    <3>2. t[1] \in Reading
      BY ReadingSteps
    <3> QED BY <3>1, <3>2, <1>DefType, <1>PathOne
  <2>3. Path(d, s, <<Def, Def>>, t)
    <3>1. <<Def>> \o <<Def>> = <<Def, Def>>
      BY <1>DefType, <1>Tuples
    <3>2. Path(d, s, <<Def>> \o <<Def>>, t)
      <4> HIDE DEF s, t
      <4> QED BY <2>1, <2>2, <1>PathConcat
    <3> QED BY <3>1, <3>2, Zenon
  <2>4. Path(d, t, Eof(d), u)
    <3>1. CASE d
      <4>1. t = u /\ Eof(d) = <<>>
        BY <3>1 DEF Eof
      <4> QED BY <4>1, <1>PathNone
    <3>2. CASE ~d
      <4>1. t = <<"cols", l>> /\ Eof(d) = <<e>>
        BY <3>2, Zenon DEF Eof
      <4>2. e \in Messages /\ Ends(FALSE, e) /\ ~e.cursor
        BY <1>EndType, <1>EndEnds, Zenon
      <4>3. Go(d, <<"cols", l>>, e) = u
        BY <4>2, <1>GoCols, Zenon
      <4>4. <<"cols", l>>[1] \in Reading
        BY ReadingSteps
      <4> QED BY <4>1, <4>2, <4>3, <4>4, <1>PathOne, Zenon
    <3> QED BY <3>1, <3>2
  <2> HIDE DEF s, t, u
  <2>5. Path(d, s, <<Def, Def>> \o Eof(d), u)
    BY <2>3, <2>4, <1>PathConcat
  <2> QED BY <2>5 DEF s, u
(* A path to a step that does not wait for a packet stops.                 *)
<1>StopsBy.
      ASSUME NEW d, NEW s, NEW a, NEW x, NEW l, Path(d, s, a, <<x, l>>), x \notin Reading
      PROVE  Stops(d, s, a)
  <2> USE <1>StopsBy
  <2> DEFINE t == <<x, l>>
  <2>1. Path(d, s, a, t) /\ t[1] \notin Reading
    OBVIOUS
  <2> HIDE DEF t
  <2> QED BY <2>1 DEF Stops
(* Messages that end a result.                                             *)
<1>LastPaths.
      ASSUME NEW d \in BOOLEAN, NEW l
      PROVE  /\ Path(d, <<"first", l>>, <<Ok(FALSE)>>, <<"command", l>>)
             /\ Path(d, <<"first", l>>, <<Ok(TRUE)>>, <<"first", l>>)
             /\ Path(d, <<"first", l>>, <<Err>>, <<"command", l>>)
             /\ Path(d, <<"rows", l>>, <<Err>>, <<"command", l>>)
             /\ Path(d, <<"rows", l>>, <<End(d, FALSE, FALSE)>>, <<"command", l>>)
             /\ Path(d, <<"rows", l>>, <<End(d, TRUE, FALSE)>>, <<"first", l>>)
             /\ Path(d, <<"fetch", l>>, <<Err>>, <<"command", l>>)
             /\ Path(d, <<"fetch", l>>, <<End(d, FALSE, FALSE)>>, <<"command", l>>)
  <2> DEFINE f == <<"first", l>>
             r == <<"rows", l>>
             h == <<"fetch", l>>
  <2>1. f[1] \in Reading /\ r[1] \in Reading /\ h[1] \in Reading
    BY ReadingSteps
  <2>2. Go(d, f, Ok(FALSE)) = <<"command", l>> /\ Ok(FALSE) \in Messages
    <3> DEFINE e == Ok(FALSE)
    <3>1. e \in Messages /\ e.head = "ok" /\ e.more = FALSE
      BY <1>OkType, Zenon
    <3> HIDE DEF e
    <3>2. AfterResult(e) = "command"
      BY <3>1 DEF AfterResult
    <3>3. Go(d, f, e) = <<"command", l>>
      BY <3>1, <3>2, <1>GoFirst
    <3> QED BY <3>1, <3>3, Zenon DEF e
  <2>3. Go(d, f, Ok(TRUE)) = f /\ Ok(TRUE) \in Messages
    <3> DEFINE e == Ok(TRUE)
    <3>1. e \in Messages /\ e.head = "ok" /\ e.more = TRUE
      BY <1>OkType, Zenon
    <3> HIDE DEF e
    <3>2. AfterResult(e) = "first"
      BY <3>1 DEF AfterResult
    <3>3. Go(d, f, e) = f
      BY <3>1, <3>2, <1>GoFirst
    <3> QED BY <3>1, <3>3, Zenon DEF e
  <2>4. /\ Go(d, f, Err) = <<"command", l>> /\ Go(d, r, Err) = <<"command", l>>
        /\ Go(d, h, Err) = <<"command", l>> /\ Err \in Messages
    BY <1>ErrType, <1>GoFirst, <1>GoRows, <1>GoFetch
  <2>5. /\ Go(d, r, End(d, FALSE, FALSE)) = <<"command", l>>
        /\ Go(d, h, End(d, FALSE, FALSE)) = <<"command", l>>
        /\ End(d, FALSE, FALSE) \in Messages
    <3> DEFINE e == End(d, FALSE, FALSE)
    <3>1. e \in Messages /\ e.head = "fe" /\ e.more = FALSE /\ Ends(d, e)
      BY <1>EndType, <1>EndEnds, Zenon
    <3> HIDE DEF e
    <3>2. AfterResult(e) = "command"
      BY <3>1 DEF AfterResult
    <3>3. Go(d, r, e) = <<"command", l>> /\ Go(d, h, e) = <<"command", l>>
      BY <3>1, <3>2, <1>GoRows, <1>GoFetch
    <3> QED BY <3>1, <3>3, Zenon DEF e
  <2>6. Go(d, r, End(d, TRUE, FALSE)) = f /\ End(d, TRUE, FALSE) \in Messages
    <3> DEFINE e == End(d, TRUE, FALSE)
    <3>1. e \in Messages /\ e.head = "fe" /\ e.more = TRUE /\ Ends(d, e)
      BY <1>EndType, <1>EndEnds, Zenon
    <3> HIDE DEF e
    <3>2. AfterResult(e) = "first"
      BY <3>1 DEF AfterResult
    <3>3. Go(d, r, e) = f
      BY <3>1, <3>2, <1>GoRows
    <3> QED BY <3>1, <3>3, Zenon DEF e
  <2> HIDE DEF f, r, h
  <2>7. /\ Path(d, f, <<Ok(FALSE)>>, <<"command", l>>)
        /\ Path(d, f, <<Ok(TRUE)>>, f)
        /\ Path(d, f, <<Err>>, <<"command", l>>)
        /\ Path(d, r, <<Err>>, <<"command", l>>)
        /\ Path(d, r, <<End(d, FALSE, FALSE)>>, <<"command", l>>)
        /\ Path(d, r, <<End(d, TRUE, FALSE)>>, f)
        /\ Path(d, h, <<Err>>, <<"command", l>>)
        /\ Path(d, h, <<End(d, FALSE, FALSE)>>, <<"command", l>>)
    <3>1. Path(d, f, <<Ok(FALSE)>>, Go(d, f, Ok(FALSE))) /\ Path(d, f, <<Ok(TRUE)>>, Go(d, f, Ok(TRUE)))
      BY <2>1, <2>2, <2>3, <1>PathOne, Zenon
    <3>2. /\ Path(d, f, <<Err>>, Go(d, f, Err)) /\ Path(d, r, <<Err>>, Go(d, r, Err))
          /\ Path(d, h, <<Err>>, Go(d, h, Err))
      BY <2>1, <2>4, <1>PathOne
    <3>3. /\ Path(d, r, <<End(d, FALSE, FALSE)>>, Go(d, r, End(d, FALSE, FALSE)))
          /\ Path(d, r, <<End(d, TRUE, FALSE)>>, Go(d, r, End(d, TRUE, FALSE)))
          /\ Path(d, h, <<End(d, FALSE, FALSE)>>, Go(d, h, End(d, FALSE, FALSE)))
      BY <2>1, <2>5, <2>6, <1>PathOne, Zenon
    <3> QED BY <2>2, <2>3, <2>4, <2>5, <2>6, <3>1, <3>2, <3>3, Zenon
  <2> QED BY <2>7 DEF f, r, h
(* forward_query stops where the answer ends.                              *)
<1>QueryStops.
      ASSUME NEW d \in BOOLEAN, NEW l, NEW a \in QueryAnswers(d)
      PROVE  Stops(d, <<"first", l>>, a)
  <2> DEFINE f == <<"first", l>>
             r == <<"rows", l>>
             c == <<"command", l>>
             hd == <<Def, Def>> \o Eof(d)
  <2>0. Path(d, f, hd, r)
    BY <1>HeadPath
  <2>1. /\ Path(d, f, <<Ok(FALSE)>>, c) /\ Path(d, f, <<Ok(TRUE)>>, f) /\ Path(d, f, <<Err>>, c)
        /\ Path(d, r, <<Err>>, c) /\ Path(d, r, <<End(d, FALSE, FALSE)>>, c)
        /\ Path(d, r, <<End(d, TRUE, FALSE)>>, f)
    BY <1>LastPaths, Zenon
  <2>2. ASSUME Path(d, f, a, c) PROVE Stops(d, f, a)
    BY <2>2, <1>StopsBy, ReadingSteps
  <2>3. \A rows \in RowSets : Path(d, r, rows, r)
    BY <1>RowsPath, Zenon
  <2> SUFFICES Stops(d, f, a)
    OBVIOUS
  <2> HIDE DEF f, r, c, hd
  <2>4. CASE a = <<Ok(FALSE)>> \/ a = <<Err>>
    <3>1. Path(d, f, a, c)
      BY <2>1, <2>4, Zenon
    <3> QED BY <2>2, <3>1
  <2>5. ASSUME NEW rows \in RowSets,
               a = hd \o rows \o <<End(d, FALSE, FALSE)>> \/ a = hd \o rows \o <<Err>>
        PROVE  Path(d, f, a, c)
    <3>1. Path(d, f, hd \o rows, r)
      BY <2>0, <2>3, <1>PathConcat
    <3>2. Path(d, f, (hd \o rows) \o <<End(d, FALSE, FALSE)>>, c) /\ Path(d, f, (hd \o rows) \o <<Err>>, c)
      BY <2>1, <3>1, <1>PathConcat, Zenon
    <3> QED BY <2>5, <3>2, Zenon
  <2>6. CASE a = <<Msg("infile", 1)>>
    <3> DEFINE m == Msg("infile", 1)
    <3>1. m \in Messages /\ m.head = "infile"
      <4>1. "infile" \in Heads /\ 1 \in Nat \ {0}
        BY DEF Heads
      <4> QED BY <4>1, MsgType, MsgFields, Zenon
    <3> HIDE DEF m
    <3>2. Go(d, f, m) = <<"panicked", l>> /\ f[1] \in Reading
      BY <3>1, <1>GoFirst, ReadingSteps DEF f
    <3>3. Path(d, f, <<m>>, <<"panicked", l>>)
      BY <3>1, <3>2, <1>PathOne
    <3>4. Path(d, f, a, <<"panicked", l>>)
      BY <2>6, <3>3, Zenon DEF m
    <3> QED BY <3>4, <1>StopsBy, ReadingSteps, Zenon
  <2>7. CASE a = <<Def, Def, End(d, FALSE, TRUE)>>
    <3> DEFINE e == End(d, FALSE, TRUE)
               t == <<IF d THEN "rows" ELSE "cols", l>>
    <3>1. e \in Messages /\ e.head = "fe" /\ e.more = FALSE /\ e.cursor = TRUE /\ Ends(d, e)
      BY <1>EndType, <1>EndEnds, Zenon
    <3> HIDE DEF e
    <3>2. AfterResult(e) = "command"
      BY <3>1 DEF AfterResult
    <3>3. Go(d, t, e) = c
      <4>1. CASE d
        BY <3>1, <3>2, <4>1, <1>GoRows, ZenonT(30) DEF c
      <4>2. CASE ~d
        <5>1. Ends(FALSE, e) /\ t = <<"cols", l>>
          BY <3>1, <4>2, Zenon
        <5> QED BY <3>1, <3>2, <5>1, <1>GoCols, Zenon DEF c
      <4> QED BY <4>1, <4>2
    <3>4. Go(d, f, Def) = t /\ Go(d, t, Def) = t
      BY <1>DefPassed DEF f
    <3>5. f[1] \in Reading /\ t[1] \in Reading
      BY ReadingSteps DEF f
    <3> HIDE DEF t
    <3>6. Path(d, f, <<Def>>, t) /\ Path(d, t, <<Def>>, t) /\ Path(d, t, <<e>>, c)
      <4>1. /\ Path(d, f, <<Def>>, Go(d, f, Def)) /\ Path(d, t, <<Def>>, Go(d, t, Def))
            /\ Path(d, t, <<e>>, Go(d, t, e))
        BY <3>1, <3>5, <1>DefType, <1>PathOne
      <4> QED BY <3>3, <3>4, <4>1, Zenon
    <3>7. Path(d, f, (<<Def>> \o <<Def>>) \o <<e>>, c)
      <4>1. Path(d, f, <<Def>> \o <<Def>>, t)
        BY <3>6, <1>PathConcat
      <4> QED BY <3>6, <4>1, <1>PathConcat
    <3>8. (<<Def>> \o <<Def>>) \o <<e>> = <<Def, Def, e>>
      BY <3>1, <1>DefType, <1>Tuples
    <3>9. a = <<Def, Def, e>>
      BY <2>7 DEF e
    <3>10. Path(d, f, a, c)
      BY <3>7, <3>8, <3>9, Zenon
    <3> QED BY <2>2, <3>10
  <2>8. ASSUME NEW x, NEW y, a = x \o y,
               x = <<Ok(TRUE)>> \/ x = hd \o <<End(d, TRUE, FALSE)>>,
               y = <<Ok(FALSE)>> \/ y = <<Err>>
        PROVE  Path(d, f, a, c)
    <3>1. Path(d, f, hd \o <<End(d, TRUE, FALSE)>>, f)
      BY <2>0, <2>1, <1>PathConcat
    <3>2. Path(d, f, x, f) /\ Path(d, f, y, c)
      BY <2>1, <2>8, <3>1, Zenon
    <3> QED BY <2>8, <3>2, <1>PathConcat
  <2>9. \/ a = <<Ok(FALSE)>> \/ a = <<Err>> \/ a = <<Msg("infile", 1)>>
        \/ a = <<Def, Def, End(d, FALSE, TRUE)>>
        \/ \E rows \in RowSets : \/ a = hd \o rows \o <<End(d, FALSE, FALSE)>>
                                \/ a = hd \o rows \o <<Err>>
        \/ \E x : \E y : /\ a = x \o y
                         /\ x = <<Ok(TRUE)>> \/ x = hd \o <<End(d, TRUE, FALSE)>>
                         /\ y = <<Ok(FALSE)>> \/ y = <<Err>>
    <3> DEFINE X == {<<Ok(TRUE)>>, hd \o <<End(d, TRUE, FALSE)>>}
               Y == {<<Ok(FALSE)>>, <<Err>>}
               R == {hd \o rows \o <<Err>> : rows \in RowSets}
               D == {x \o y : x \in X, y \in Y}
    <3>1. QueryAnswers(d) = Y \cup Results(d, FALSE) \cup {<<Msg("infile", 1)>>}
            \cup R \cup {<<Def, Def, End(d, FALSE, TRUE)>>} \cup D
      BY DEF QueryAnswers, hd
    <3>2. a \in Results(d, FALSE) => \E rows \in RowSets : a = hd \o rows \o <<End(d, FALSE, FALSE)>>
      BY Zenon DEF Results, hd
    <3>3. a \in R => \E rows \in RowSets : a = hd \o rows \o <<Err>>
      BY Zenon
    <3>4. a \in D => \E x \in X, y \in Y : a = x \o y
      <4> HIDE DEF X, Y
      <4> QED OBVIOUS
    <3>5. \A y : y \in Y <=> y = <<Ok(FALSE)>> \/ y = <<Err>>
      BY Zenon
    <3>6. \A x \in X : x = <<Ok(TRUE)>> \/ x = hd \o <<End(d, TRUE, FALSE)>>
      BY Zenon
    <3>7. \/ a \in Y \/ a \in Results(d, FALSE) \/ a = <<Msg("infile", 1)>> \/ a \in R
          \/ a = <<Def, Def, End(d, FALSE, TRUE)>> \/ a \in D
      <4> HIDE DEF X, Y, R, D
      <4> QED BY <3>1, Zenon
    <3> HIDE DEF X, Y, R, D
    <3> QED BY <3>2, <3>3, <3>4, <3>5, <3>6, <3>7, Zenon
  <2>10. CASE \E rows \in RowSets : \/ a = hd \o rows \o <<End(d, FALSE, FALSE)>>
                                    \/ a = hd \o rows \o <<Err>>
    BY <2>2, <2>5, <2>10, Zenon
  <2>11. CASE \E x : \E y : /\ a = x \o y
                            /\ x = <<Ok(TRUE)>> \/ x = hd \o <<End(d, TRUE, FALSE)>>
                            /\ y = <<Ok(FALSE)>> \/ y = <<Err>>
    <3>1. PICK x : \E y : /\ a = x \o y
                          /\ x = <<Ok(TRUE)>> \/ x = hd \o <<End(d, TRUE, FALSE)>>
                          /\ y = <<Ok(FALSE)>> \/ y = <<Err>>
      BY <2>11, Zenon
    <3>3. PICK y : /\ a = x \o y
                   /\ x = <<Ok(TRUE)>> \/ x = hd \o <<End(d, TRUE, FALSE)>>
                   /\ y = <<Ok(FALSE)>> \/ y = <<Err>>
      BY <3>1, Zenon
    <3>2. Path(d, f, a, c)
      BY <3>3, <2>8, Zenon
    <3> QED BY <2>2, <3>2
  <2> QED BY <2>4, <2>6, <2>7, <2>9, <2>10, <2>11, Zenon
(* So does the forwarder of COM_STMT_FETCH.                                *)
<1>FetchStops.
      ASSUME NEW d \in BOOLEAN, NEW l, NEW a \in FetchAnswers(d)
      PROVE  Stops(d, <<"fetch", l>>, a)
  <2> DEFINE h == <<"fetch", l>>
             c == <<"command", l>>
  <2>1. Path(d, h, <<Err>>, c) /\ Path(d, h, <<End(d, FALSE, FALSE)>>, c)
    BY <1>LastPaths, Zenon
  <2>2. \A rows \in RowSets : Path(d, h, rows, h)
    BY <1>RowsPath, Zenon
  <2>3. ASSUME Path(d, h, a, c) PROVE Stops(d, h, a)
    BY <2>3, <1>StopsBy, ReadingSteps
  <2>4. a = <<Err>> \/ \E rows \in RowSets : a = rows \o <<End(d, FALSE, FALSE)>>
    BY Zenon DEF FetchAnswers
  <2> SUFFICES Stops(d, h, a)
    OBVIOUS
  <2> HIDE DEF h, c
  <2>5. \A rows \in RowSets : Path(d, h, rows \o <<End(d, FALSE, FALSE)>>, c)
    BY <2>1, <2>2, <1>PathConcat
  <2>6. Path(d, h, a, c)
    BY <2>1, <2>4, <2>5, Zenon
  <2> QED BY <2>3, <2>6
(* forward_prepare_stmt counts the packets that follow.                    *)
<1>DefsPath.
      ASSUME NEW d, NEW b \in Seq(Messages), b # <<>>
      PROVE  Path(d, <<"defs", Len(b)>>, b, <<"command", 0>>)
  <2> USE <1>DefsPath
  <2> DEFINE n == Len(b)
             c == <<"command", 0>>
             s(i) == <<"defs", n - i>>
             q == [i \in 0..n |-> IF i < n THEN s(i) ELSE c]
  <2>1. n \in Nat \ {0}
    OBVIOUS
  <2> HIDE DEF n
  <2>2. \A i \in Nat : s(i)[1] \in Reading
    BY ReadingSteps
  <2>3. \A i \in 1..n : Go(d, s(i - 1), b[i]) = <<IF n - (i - 1) = 1 THEN "command" ELSE "defs", (n - (i - 1)) - 1>>
    BY <1>GoDefs
  <2>4. \A i \in 1..n : Go(d, s(i - 1), b[i]) = IF i < n THEN s(i) ELSE c
    <3> SUFFICES ASSUME NEW i \in 1..n
                 PROVE  Go(d, s(i - 1), b[i]) = IF i < n THEN s(i) ELSE c
      OBVIOUS
    <3>1. CASE i < n
      <4>1. n - (i - 1) # 1 /\ (n - (i - 1)) - 1 = n - i
        BY <2>1, <3>1
      <4> QED BY <2>3, <3>1, <4>1
    <3>2. CASE ~(i < n)
      <4>1. n - (i - 1) = 1 /\ (n - (i - 1)) - 1 = 0
        BY <2>1, <3>2
      <4> QED BY <2>3, <3>2, <4>1
    <3> QED BY <3>1, <3>2
  <2> HIDE DEF c, s
  <2>5. \A i \in 0..n : q[i] = IF i < n THEN s(i) ELSE c
    OBVIOUS
  <2> HIDE DEF q
  <2>6. ASSUME NEW i \in 1..n
        PROVE  q[i - 1][1] \in Reading /\ q[i] = Go(d, q[i - 1], b[i])
    <3>1. i - 1 \in 0..n /\ i - 1 < n /\ i \in 0..n /\ i - 1 \in Nat
      BY <2>1
    <3>2. q[i - 1] = s(i - 1) /\ q[i] = IF i < n THEN s(i) ELSE c
      BY <2>5, <3>1
    <3> QED BY <2>2, <2>4, <3>1, <3>2, Zenon
  <2>7. q[0] = s(0) /\ q[n] = c
    <3>1. 0 \in 0..n /\ n \in 0..n /\ 0 < n /\ ~(n < n)
      BY <2>1
    <3> QED BY <2>5, <3>1
  <2>8. Runs(d, s(0), b, c, q)
    BY <2>6, <2>7, Zenon DEF Runs, n
  <2>9. Path(d, s(0), b, c)
    BY <2>8 DEF Path
  <2>10. s(0) = <<"defs", n>>
    BY <2>1 DEF s
  <2> QED BY <2>9, <2>10 DEF n, c
(* How many messages these are.                                            *)
<1>BlockType.
      ASSUME NEW d \in BOOLEAN, NEW k \in Nat
      PROVE  Block(d, k) \in Seq(Messages) /\ Len(Block(d, k)) = BlockLen(d, k)
  <2>1. CASE k = 0
    BY <2>1 DEF Block, BlockLen
  <2>2. CASE k # 0
    <3> DEFINE x == Defs(k)
               e == Eof(d)
    <3>1. x \in Seq(Messages) /\ Len(x) = k
      BY <1>DefType DEF Defs
    <3>2. e \in Seq(Messages) /\ Len(e) = IF d THEN 0 ELSE 1
      <4>1. Len(e) = IF d THEN 0 ELSE 1
        BY DEF Eof
      <4> QED BY <4>1, <1>EofType
    <3> HIDE DEF x, e
    <3>3. x \o e \in Seq(Messages) /\ Len(x \o e) = Len(x) + Len(e)
      BY <3>1, <3>2, ConcatProperties, ZenonT(60)
    <3>4. Block(d, k) = x \o e
      BY <2>2 DEF Block, x, e
    <3> QED BY <2>2, <3>1, <3>2, <3>3, <3>4 DEF BlockLen
  <2> QED BY <2>1, <2>2
(* So it stops where the answer to a COM_STMT_PREPARE ends.                *)
<1>PrepareStops.
      ASSUME NEW d \in BOOLEAN, NEW l, NEW a \in PrepareAnswers(d)
      PROVE  Stops(d, <<"prepare", l>>, a)
  <2> DEFINE p == <<"prepare", l>>
             c0 == <<"command", 0>>
  <2>0. p[1] \in Reading
    BY ReadingSteps
  <2>1. CASE a = <<Err>>
    <3>1. Go(d, p, Err) = c0
      BY <1>ErrType, <1>GoPrepare
    <3>2. Path(d, p, <<Err>>, c0)
      BY <2>0, <3>1, <1>ErrType, <1>PathOne
    <3> QED BY <2>1, <3>2, <1>StopsBy, ReadingSteps
  <2>2. ASSUME NEW c \in Counts, a = <<PrepareOk(c)>> \o Block(d, c[2]) \o Block(d, c[1])
        PROVE  Stops(d, p, a)
    <3> DEFINE m == PrepareOk(c)
               x == Block(d, c[2])
               y == Block(d, c[1])
               b == x \o y
               n == Follow(m, d)
    <3>1. c \in Nat \X Nat /\ c[1] \in Nat /\ c[2] \in Nat
      BY ExchangeAssumption
    <3>2. m \in Messages /\ m.head = "ok" /\ m.cols = c[1] /\ m.params = c[2]
      BY <3>1, <1>PrepareOkType
    <3>3. /\ x \in Seq(Messages) /\ y \in Seq(Messages)
          /\ Len(x) = BlockLen(d, c[2]) /\ Len(y) = BlockLen(d, c[1])
      BY <3>1, <1>BlockType
    <3> HIDE DEF m, x, y
    <3>4. b \in Seq(Messages) /\ Len(b) = Len(x) + Len(y)
      BY <3>3
    <3>5. n = Len(b)
      BY <3>1, <3>2, <3>3, <3>4, SMTT(60) DEF Follow, BlockLen
    <3>6. a = <<m>> \o b
      <4>1. <<m>> \in Seq(Messages)
        BY <3>2, <1>OneSeq
      <4> DEFINE u == <<m>>
      <4>2. a = u \o x \o y
        BY <2>2 DEF m, x, y
      <4>3. u \in Seq(Messages)
        BY <4>1
      <4> HIDE DEF u
      <4>4. a = u \o b
        <5>1. u \o x \o y = u \o (x \o y)
          BY <3>3, <4>3, ConcatAssociative, SMTT(60)
        <5> QED BY <4>2, <5>1
      <4> QED BY <4>4 DEF u
    <3> HIDE DEF b, n
    <3>7. Path(d, p, <<m>>, <<IF n > 0 THEN "defs" ELSE "command", n>>)
      <4>1. Go(d, p, m) = <<IF n > 0 THEN "defs" ELSE "command", n>>
        BY <3>2, <1>GoPrepare DEF n
      <4> QED BY <2>0, <3>2, <4>1, <1>PathOne
    <3>8. CASE b = <<>>
      <4>1. n = 0
        BY <3>5, <3>8
      <4>2. Path(d, p, <<m>>, c0)
        BY <3>7, <4>1
      <4>3. Path(d, c0, b, c0)
        BY <3>8, <1>PathNone
      <4> HIDE DEF p
      <4>4. Path(d, p, <<m>> \o b, c0)
        <5> HIDE DEF c0
        <5> QED BY <4>2, <4>3, <1>PathConcat
      <4> QED BY <3>6, <4>4, <1>StopsBy, ReadingSteps
    <3>9. CASE b # <<>>
      <4>1. n > 0
        BY <3>4, <3>5, <3>9
      <4> DEFINE s == <<"defs", n>>
      <4>2. Path(d, p, <<m>>, s)
        BY <3>7, <4>1
      <4>3. Path(d, s, b, c0)
        BY <3>4, <3>5, <3>9, <1>DefsPath
      <4> HIDE DEF p
      <4>4. Path(d, p, <<m>> \o b, c0)
        <5> HIDE DEF c0, s
        <5> QED BY <4>2, <4>3, <1>PathConcat
      <4> QED BY <3>6, <4>4, <1>StopsBy, ReadingSteps
    <3> QED BY <3>8, <3>9
  <2>3. a = <<Err>> \/ \E c \in Counts : a = <<PrepareOk(c)>> \o Block(d, c[2]) \o Block(d, c[1])
    BY Zenon DEF PrepareAnswers, PrepareOk, Block
  <2> QED BY <2>1, <2>2, <2>3, Zenon
(* The forwarders of one packet.                                           *)
<1>OneStops.
      ASSUME NEW d, NEW l, NEW m \in Messages
      PROVE  /\ Stops(d, <<"one", l>>, <<m>>)
             /\ Stops(d, <<"reset", l>>, <<m>>)
  <2> DEFINE s == <<"one", l>>
             r == <<"reset", l>>
  <2>1. Go(d, s, m) = <<"command", l>> /\ Go(d, r, m) = <<"left", l>>
    BY <1>GoOne
  <2>2. s[1] \in Reading /\ r[1] \in Reading
    BY ReadingSteps
  <2> HIDE DEF s, r
  <2>3. Path(d, s, <<m>>, <<"command", l>>) /\ Path(d, r, <<m>>, <<"left", l>>)
    BY <2>1, <2>2, <1>PathOne
  <2>4. Stops(d, s, <<m>>) /\ Stops(d, r, <<m>>)
    BY <2>3, <1>StopsBy, ReadingSteps
  <2> QED BY <2>4 DEF s, r
<1>AnswersStop.
      ASSUME NEW com \in Commands \cup {"reset"}, NEW d \in BOOLEAN, NEW l, NEW a \in Answers(com, d)
      PROVE  /\ a \in Seq(Messages)
             /\ com \in Unanswered => a = <<>>
             /\ com \notin Unanswered => Stops(d, <<Sends(com), l>>, a)
  <2>0. ASSUME NEW s, Stops(d, s, a) PROVE a \in Seq(Messages)
    BY <2>0 DEF Stops, Path
  <2>1. CASE com = "query"
    <3>1. a \in QueryAnswers(d) /\ Sends(com) = "first"
      BY <2>1 DEF Answers, Sends, Forwarder
    <3>2. Stops(d, <<Sends(com), l>>, a)
      BY <3>1, <1>QueryStops
    <3> QED BY <2>0, <2>1, <3>2 DEF Unanswered
  <2>2. CASE com = "fetch"
    <3>1. a \in FetchAnswers(d) /\ Sends(com) = "fetch"
      BY <2>2 DEF Answers, Sends, Forwarder
    <3>2. Stops(d, <<Sends(com), l>>, a)
      BY <3>1, <1>FetchStops
    <3> QED BY <2>0, <2>2, <3>2 DEF Unanswered
  <2>3. CASE com = "prepare"
    <3>1. a \in PrepareAnswers(d) /\ Sends(com) = "prepare"
      BY <2>3 DEF Answers, Sends, Forwarder
    <3>2. Stops(d, <<Sends(com), l>>, a)
      BY <3>1, <1>PrepareStops
    <3> QED BY <2>0, <2>3, <3>2 DEF Unanswered
  <2>4. CASE com \in {"generic", "quit", "reset"}
    <3>1. PICK m \in Messages : a = <<m>>
      <4>1. a = <<Ok(FALSE)>> \/ a = <<Err>> \/ a = <<Def>>
        BY <2>4, Zenon DEF Answers
      <4>2. Ok(FALSE) \in Messages /\ Err \in Messages /\ Def \in Messages
        BY <1>OkType, <1>ErrType, <1>DefType, Zenon
      <4> QED BY <4>1, <4>2, Zenon
    <3>2. Sends(com) = "one" \/ Sends(com) = "reset"
      BY <2>4 DEF Sends, Forwarder
    <3>3. Stops(d, <<Sends(com), l>>, a)
      BY <3>1, <3>2, <1>OneStops, Zenon
    <3> QED BY <2>0, <2>4, <3>3 DEF Unanswered
  <2>5. CASE com \in {"close", "longdata"}
    <3>1. a = <<>>
      BY <2>5 DEF Answers
    <3> QED BY <2>5, <3>1 DEF Unanswered
  <2> QED BY <2>1, <2>2, <2>3, <2>4, <2>5 DEF Commands
<1> QED
  BY <1>AnswersStop

----------------------------------------------------------------------------
(* Induction, with the property as a set.                                  *)
LEMMA Least ==
  ASSUME NEW S \in SUBSET Nat, S # {}
  PROVE  \E x \in S : \A y \in S : x <= y
<1>1. IsWellFoundedOn(OpToRel(<,Nat), Nat)
  BY NatLessThanWellFounded, Zenon
<1>2. PICK x \in S : \A y \in S : ~ (<<y, x>> \in OpToRel(<, Nat))
  BY <1>1, WFMin, Zenon
<1>3. \A y \in S : <<y, x>> \in OpToRel(<, Nat) <=> y < x
  BY DEF OpToRel
<1>4. \A y \in S : ~(y < x)
  BY <1>2, <1>3, Zenon
<1> QED BY <1>4

(* Induction on the natural numbers, with a set for the predicate.         *)
LEMMA SetInduction ==
  ASSUME NEW S, 0 \in S, \A n \in Nat : n \in S => n + 1 \in S
  PROVE  Nat \subseteq S
<1> SUFFICES ASSUME Nat \ S # {} PROVE FALSE
  OBVIOUS
<1>1. PICK x \in Nat \ S : \A y \in Nat \ S : x <= y
  BY Least, Zenon
<1>2. x - 1 \in Nat /\ x - 1 + 1 = x
  BY <1>1
<1> QED BY <1>1, <1>2

(* Division.                                                               *)
LEMMA TimesGrows ==
  ASSUME NEW a \in Nat, NEW b \in Nat, NEW c \in Nat, a < b
  PROVE  a * c + c <= b * c
<1>1. PICK d \in Nat : b = a + 1 + d
  <2>1. b - a - 1 \in Nat /\ b = a + 1 + (b - a - 1)
    OBVIOUS
  <2> QED BY <2>1
<1>2. b * c = a * c + c + d * c
  BY <1>1
<1>3. d * c \in Nat /\ a * c \in Nat
  OBVIOUS
<1> QED BY <1>2, <1>3

(* Quotient and remainder are determined by what they satisfy, ...         *)
LEMMA DivUnique ==
  ASSUME NEW a \in Nat, NEW b \in Nat \ {0}, NEW q \in Nat, NEW r \in 0..(b - 1),
         a = q * b + r
  PROVE  a \div b = q /\ a % b = r
OBVIOUS

(* ... and there always are such numbers.                                  *)
LEMMA DivMod ==
  ASSUME NEW a \in Nat, NEW b \in Nat \ {0}
  PROVE  /\ a \div b \in Nat /\ a % b \in 0..(b - 1)
         /\ a = (a \div b) * b + (a % b)
<1> DEFINE S == {n \in Nat : \E q \in Nat : \E r \in 0..(b - 1) : n = q * b + r}
<1>1. 0 \in S
  <2>1. 0 \in Nat /\ 0 \in 0..(b - 1) /\ 0 = 0 * b + 0
    OBVIOUS
  <2> QED BY <2>1, Zenon
<1>2. ASSUME NEW n \in Nat, n \in S PROVE n + 1 \in S
  <2>1. PICK q \in Nat, r \in 0..(b - 1) : n = q * b + r
    BY <1>2
  <2>2. CASE r + 1 < b
    <3>1. r + 1 \in 0..(b - 1) /\ n + 1 = q * b + (r + 1) /\ n + 1 \in Nat
      BY <2>1, <2>2
    <3> QED BY <3>1, Zenon
  <2>3. CASE r + 1 = b
    <3>1. /\ 0 \in 0..(b - 1) /\ n + 1 = (q + 1) * b + 0
          /\ n + 1 \in Nat /\ q + 1 \in Nat
      BY <2>1, <2>3
    <3> QED BY <3>1, Zenon
  <2> QED BY <2>2, <2>3
<1> HIDE DEF S
<1>3. a \in S
  BY <1>1, <1>2, SetInduction
<1>4. PICK q \in Nat, r \in 0..(b - 1) : a = q * b + r
  BY <1>3 DEF S
<1>5. a \div b = q /\ a % b = r
  BY <1>4, DivUnique
<1> QED BY <1>4, <1>5

(* Recursion: a function that goes on from v0 by F.                        *)
GoesOn(f, n, v0, F) == f[0] = v0 /\ \A k \in 1..n : f[k] = F[k][f[k - 1]]

(* A function that is defined by what it does from each number to the next *)
(* exists.                                                                 *)
LEMMA RecExists ==
  ASSUME NEW V, NEW v0 \in V, NEW F \in [Nat -> [V -> V]], NEW n \in Nat
  PROVE  \E f \in [0..n -> V] : GoesOn(f, n, v0, F)
<1> DEFINE S == {m \in Nat : \E f \in [0..m -> V] : GoesOn(f, m, v0, F)}
<1>1. 0 \in S
  <2> DEFINE f == [k \in 0..0 |-> v0]
  <2>1. f \in [0..0 -> V] /\ GoesOn(f, 0, v0, F)
    BY DEF GoesOn
  <2> HIDE DEF f
  <2> QED BY <2>1
<1>2. ASSUME NEW m \in Nat, m \in S PROVE m + 1 \in S
  <2>1. PICK f \in [0..m -> V] : GoesOn(f, m, v0, F)
    BY <1>2
  <2> DEFINE g == [k \in 0..(m + 1) |-> IF k <= m THEN f[k] ELSE F[m + 1][f[m]]]
  <2>2. F[m + 1][f[m]] \in V
    <3>1. m + 1 \in Nat /\ m \in 0..m
      OBVIOUS
    <3>2. F[m + 1] \in [V -> V] /\ f[m] \in V
      BY <3>1
    <3> QED BY <3>2
  <2>3. g \in [0..(m + 1) -> V]
    BY <2>2
  <2>4. \A k \in 0..m : g[k] = f[k]
    OBVIOUS
  <2>5. g[m + 1] = F[m + 1][f[m]]
    OBVIOUS
  <2> HIDE DEF g
  <2>6. ASSUME NEW k \in 1..(m + 1) PROVE g[k] = F[k][g[k - 1]]
    <3>1. CASE k \in 1..m
      <4>1. k \in 0..m /\ k - 1 \in 0..m
        BY <3>1
      <4>2. g[k] = f[k] /\ g[k - 1] = f[k - 1]
        BY <2>4, <4>1
      <4> QED BY <2>1, <3>1, <4>2, Zenon DEF GoesOn
    <3>2. CASE k = m + 1
      <4>1. k - 1 = m /\ m \in 0..m
        BY <3>2
      <4>2. g[k - 1] = f[m]
        BY <2>4, <4>1
      <4> QED BY <2>5, <3>2, <4>2
    <3> QED BY <3>1, <3>2
  <2>7. g[0] = v0
    BY <2>1, <2>4 DEF GoesOn
  <2>8. GoesOn(g, m + 1, v0, F)
    BY <2>6, <2>7 DEF GoesOn
  <2> QED BY <2>3, <2>8
<1> HIDE DEF S
<1>3. n \in S
  BY <1>1, <1>2, SetInduction
<1> QED BY <1>3 DEF S

(* The bytes of frames.                                                    *)
FramesOf(B) == [num : 0..(NumMod - 1), data : Seq(B)]

(* The fields of a frame on a wire.                                        *)
LEMMA FrameData ==
  ASSUME NEW B, NEW w \in Seq(FramesOf(B)), NEW k \in 1..Len(w)
  PROVE  /\ w[k] \in FramesOf(B) /\ w[k].data \in Seq(B) /\ w[k].num \in 0..(NumMod - 1)
         /\ w[k] = Frame(w[k].num, w[k].data)
<1> DEFINE FB == FramesOf(B)
<1>1. w[k] \in FB
  <2> HIDE DEF FB
  <2>1. w \in Seq(FB)
    BY DEF FB
  <2> QED BY <2>1
<1> QED BY <1>1 DEF FramesOf, Frame

DataSums(w, f) ==
  f[0] = <<>> /\ \A k \in 1..Len(w) : f[k] = f[k - 1] \o w[k].data

DataStep(w, B) ==
  [k \in Nat |-> [v \in Seq(B) |-> IF k \in 1..Len(w) THEN v \o w[k].data ELSE v]]

(* One step of Data is a function on sequences of bytes.                   *)
LEMMA DataStepOK ==
  ASSUME NEW B, NEW w \in Seq(FramesOf(B))
  PROVE  /\ DataStep(w, B) \in [Nat -> [Seq(B) -> Seq(B)]]
         /\ \A k \in 1..Len(w) : \A v \in Seq(B) : DataStep(w, B)[k][v] = v \o w[k].data
<1>1. \A k \in 1..Len(w) : w[k].data \in Seq(B)
  BY FrameData
<1> DEFINE x(k) == w[k].data
<1>2. \A k \in 1..Len(w) : x(k) \in Seq(B)
  BY <1>1
<1> HIDE DEF x
<1>3. \A k \in 1..Len(w) : \A v \in Seq(B) : v \o x(k) \in Seq(B)
  BY <1>2
<1>4. DataStep(w, B) = [k \in Nat |-> [v \in Seq(B) |-> IF k \in 1..Len(w) THEN v \o x(k) ELSE v]]
  BY DEF DataStep, x
<1>5. \A k \in Nat : [v \in Seq(B) |-> IF k \in 1..Len(w) THEN v \o x(k) ELSE v] \in [Seq(B) -> Seq(B)]
  BY <1>3
<1>6. DataStep(w, B) \in [Nat -> [Seq(B) -> Seq(B)]]
  BY <1>4, <1>5
<1>7. \A k \in 1..Len(w) : \A v \in Seq(B) : DataStep(w, B)[k][v] = v \o x(k)
  BY <1>4
<1> QED BY <1>6, <1>7, Zenon DEF x

(* Two functions that add up the same frames end with the same bytes.      *)
LEMMA DataUnique ==
  ASSUME NEW w, Len(w) \in Nat, NEW f, NEW g, DataSums(w, f), DataSums(w, g)
  PROVE  f[Len(w)] = g[Len(w)]
<1> DEFINE n == Len(w)
           S == {m \in Nat : m <= n => f[m] = g[m]}
<1> HIDE DEF n
<1>0. n \in Nat
  BY DEF n
<1>1. 0 \in S
  BY DEF DataSums
<1>2. ASSUME NEW m \in Nat, m \in S PROVE m + 1 \in S
  <2> SUFFICES ASSUME m + 1 <= n PROVE f[m + 1] = g[m + 1]
    OBVIOUS
  <2>1. PICK k \in 1..n : k = m + 1 /\ k - 1 = m
    BY <1>0
  <2>2. f[k - 1] = g[k - 1]
    BY <1>0, <1>2, <2>1
  <2>3. f[k] = f[k - 1] \o w[k].data /\ g[k] = g[k - 1] \o w[k].data
    BY Zenon DEF DataSums, n
  <2>4. f[k] = g[k]
    BY <2>2, <2>3, Zenon
  <2> QED BY <2>1, <2>4, Zenon
<1> HIDE DEF S
<1>3. Nat \subseteq S
  BY <1>1, <1>2, SetInduction
<1> QED BY <1>0, <1>3 DEF S, n

(* Data is the last value of a function that adds up the frames one by     *)
(* one, ...                                                                *)
LEMMA DataOf ==
  ASSUME NEW B, NEW w \in Seq(FramesOf(B))
  PROVE  \E f \in [0..Len(w) -> Seq(B)] : Data(w) = f[Len(w)] /\ DataSums(w, f)
<1> DEFINE N == Len(w)
           data[k \in 0..Len(w)] == IF k = 0 THEN <<>> ELSE data[k - 1] \o w[k].data
           x(k) == w[k].data
           UpTo(f) == [k \in 0..Len(w) |-> IF k = 0 THEN <<>> ELSE f[k - 1] \o w[k].data]
<1>1. Data(w) = data[Len(w)] /\ N \in Nat
  BY DEF Data
<1>2. data = CHOOSE f : f = [k \in 0..Len(w) |-> IF k = 0 THEN <<>>
                                                 ELSE f[k - 1] \o w[k].data]
  OBVIOUS
<1>3. data = CHOOSE f : f = UpTo(f)
  BY <1>2
<1> HIDE DEF data
<1>4. PICK f \in [0..N -> Seq(B)] : GoesOn(f, N, <<>>, DataStep(w, B))
  <2>1. <<>> \in Seq(B)
    OBVIOUS
  <2> HIDE DEF N
  <2> QED BY <1>1, <2>1, DataStepOK, RecExists, Zenon
<1>5. DataSums(w, f)
  <2>1. ASSUME NEW k \in 1..Len(w) PROVE f[k] = f[k - 1] \o w[k].data
    <3>1. f[k - 1] \in Seq(B)
      <4>1. k - 1 \in 0..N
        BY <1>1
      <4> QED BY <4>1
    <3>2. f[k] = DataStep(w, B)[k][f[k - 1]]
      BY <1>4 DEF GoesOn
    <3>3. DataStep(w, B)[k][f[k - 1]] = f[k - 1] \o w[k].data
      BY <3>1, DataStepOK, Zenon
    <3> QED BY <3>2, <3>3, Zenon
  <2> QED BY <1>4, <2>1, Zenon DEF GoesOn, DataSums
<1>6. f = UpTo(f)
  <2> HIDE DEF x
  <2>1. UpTo(f) = [k \in 0..Len(w) |-> IF k = 0 THEN <<>> ELSE f[k - 1] \o x(k)]
    BY DEF x
  <2>2. \A k \in 1..Len(w) : f[k] = f[k - 1] \o x(k)
    BY <1>5, Zenon DEF DataSums, x
  <2>3. f[0] = <<>>
    BY <1>5 DEF DataSums
  <2>4. f = [k \in 0..Len(w) |-> f[k]]
    OBVIOUS
  <2>5. \A k \in 0..Len(w) : f[k] = IF k = 0 THEN <<>> ELSE f[k - 1] \o x(k)
    BY <2>2, <2>3
  <2> QED BY <2>1, <2>4, <2>5, Zenon
<1>7. data = UpTo(data)
  <2> HIDE DEF UpTo
  <2> QED BY <1>3, <1>6
<1>8. DataSums(w, data)
  <2> DEFINE h == UpTo(data)
  <2> HIDE DEF x
  <2>1. h = [k \in 0..Len(w) |-> IF k = 0 THEN <<>> ELSE data[k - 1] \o x(k)]
    BY DEF x
  <2> HIDE DEF h, UpTo
  <2>2. h[0] = <<>> /\ \A k \in 1..Len(w) : h[k] = data[k - 1] \o x(k)
    BY <1>1, <2>1
  <2>3. data = h
    BY <1>7 DEF h
  <2>4. data[0] = <<>> /\ \A k \in 1..Len(w) : data[k] = data[k - 1] \o x(k)
    BY <2>2, <2>3
  <2> QED BY <2>4, Zenon DEF x, DataSums
<1>9. data[Len(w)] = f[Len(w)]
  BY <1>1, <1>5, <1>8, DataUnique, Zenon
<1> QED BY <1>1, <1>5, <1>9, Zenon

(* ... and of every such function.                                         *)
LEMMA DataIs ==
  ASSUME NEW B, NEW w \in Seq(FramesOf(B)), NEW g, DataSums(w, g)
  PROVE  Data(w) = g[Len(w)]
<1>1. PICK f \in [0..Len(w) -> Seq(B)] : Data(w) = f[Len(w)] /\ DataSums(w, f)
  BY DataOf
<1>2. Len(w) \in Nat
  OBVIOUS
<1> QED BY <1>1, <1>2, DataUnique, Zenon

(* The bytes of a wire are a sequence of bytes.                            *)
LEMMA DataType ==
  ASSUME NEW B, NEW w \in Seq(FramesOf(B))
  PROVE  Data(w) \in Seq(B)
<1>1. PICK f \in [0..Len(w) -> Seq(B)] : Data(w) = f[Len(w)]
  BY DataOf
<1>2. Len(w) \in 0..Len(w)
  OBVIOUS
<1> QED BY <1>1, <1>2

(* No frames, no bytes.                                                    *)
LEMMA DataEmpty == Data(<<>>) = <<>>
<1>1. <<>> \in Seq(FramesOf({}))
  OBVIOUS
<1>2. PICK f \in [0..Len(<<>>) -> Seq({})] : Data(<<>>) = f[Len(<<>>)] /\ DataSums(<<>>, f)
  BY <1>1, DataOf, Zenon
<1> QED BY <1>2 DEF DataSums

(* The bytes of two wires are the bytes of the one after the other.        *)
LEMMA DataConcat ==
  ASSUME NEW B, NEW u \in Seq(FramesOf(B)), NEW v \in Seq(FramesOf(B))
  PROVE  Data(u \o v) = Data(u) \o Data(v)
<1> DEFINE FB == FramesOf(B)
           a == Len(u)
           b == Len(v)
           uv == u \o v
<1>0. /\ a \in Nat /\ b \in Nat /\ uv \in Seq(FB) /\ Len(uv) = a + b
      /\ \A k \in 1..a : uv[k] = u[k]
      /\ \A k \in 1..b : uv[a + k] = v[k]
  <2> HIDE DEF FB
  <2> u \in Seq(FB) /\ v \in Seq(FB)
    BY DEF FB
  <2> QED OBVIOUS
<1>1. PICK f \in [0..a -> Seq(B)] : Data(u) = f[a] /\ DataSums(u, f)
  BY DataOf
<1>2. PICK g \in [0..b -> Seq(B)] : Data(v) = g[b] /\ DataSums(v, g)
  BY DataOf
<1> HIDE DEF a, b, uv, FB
<1> DEFINE h == [k \in 0..(a + b) |-> IF k <= a THEN f[k] ELSE f[a] \o g[k - a]]
<1> DEFINE c(j) == f[a] \o g[j]
<1> HIDE DEF c
<1>31. h = [k \in 0..(a + b) |-> IF k <= a THEN f[k] ELSE c(k - a)]
  BY DEF c
<1> HIDE DEF h
<1>3. \A k \in 0..a : h[k] = f[k]
  BY <1>0, <1>31
<1>32. \A k \in 1..b : h[a + k] = c(k)
  BY <1>0, <1>31
<1>33. h[a + 0] = c(0)
  <2>1. a \in 0..a /\ a + 0 = a
    BY <1>0
  <2>2. g[0] = <<>>
    BY <1>2 DEF DataSums
  <2>3. f[a] \in Seq(B) /\ h[a + 0] = f[a]
    BY <1>3, <2>1, Zenon
  <2> QED BY <2>2, <2>3 DEF c
<1>4. \A k \in 0..b : h[a + k] = f[a] \o g[k]
  <2>1. \A k \in 0..b : k = 0 \/ k \in 1..b
    BY <1>0
  <2> QED BY <2>1, <1>32, <1>33, Zenon DEF c
<1>5. \A k \in 1..a : f[k] = f[k - 1] \o u[k].data
  BY <1>1, Zenon DEF DataSums, a
<1>6. \A k \in 1..b : g[k] = g[k - 1] \o v[k].data
  BY <1>2, Zenon DEF DataSums, b
<1>7. ASSUME NEW k \in 1..a PROVE h[k] = h[k - 1] \o uv[k].data
  <2>1. k \in 0..a /\ k - 1 \in 0..a
    BY <1>0
  <2>2. h[k] = f[k] /\ h[k - 1] = f[k - 1] /\ uv[k] = u[k]
    BY <1>0, <1>3, <2>1, ZenonT(60)
  <2> QED BY <1>5, <2>2, Zenon
<1>8. ASSUME NEW k \in 1..b PROVE h[a + k] = h[a + k - 1] \o uv[a + k].data
  <2>1. k \in 0..b /\ k - 1 \in 0..b /\ a \in 0..a /\ a + (k - 1) = a + k - 1
    BY <1>0
  <2>2. h[a + k] = f[a] \o g[k] /\ h[a + k - 1] = f[a] \o g[k - 1] /\ uv[a + k] = v[k]
    <3>1. h[a + (k - 1)] = f[a] \o g[k - 1]
      BY <1>4, <2>1
    <3> QED BY <1>0, <1>4, <2>1, <3>1, Zenon
  <2>3. f[a] \in Seq(B) /\ g[k - 1] \in Seq(B) /\ v[k].data \in Seq(B)
    BY <2>1, FrameData, Zenon DEF b
  <2>4. g[k] = g[k - 1] \o v[k].data
    BY <1>6, Zenon
  <2> DEFINE x == v[k].data
             y == g[k - 1]
             z == f[a]
  <2>5. z \o (y \o x) = (z \o y) \o x
    <3> HIDE DEF x, y, z
    <3>1. x \in Seq(B) /\ y \in Seq(B) /\ z \in Seq(B)
      BY <2>3 DEF x, y, z
    <3> QED BY <3>1, SMTT(60)
  <2> QED BY <2>2, <2>4, <2>5, Zenon
<1>9. DataSums(uv, h)
  <2>1. ASSUME NEW k \in 1..(a + b) PROVE h[k] = h[k - 1] \o uv[k].data
    <3>1. CASE k \in 1..a
      BY <3>1, <1>7, Zenon
    <3>2. CASE k \notin 1..a
      <4>1. PICK j \in 1..b : k = a + j
        <5>1. k - a \in 1..b /\ k = a + (k - a)
          BY <1>0, <3>2
        <5> QED BY <5>1
      <4>2. h[a + j] = h[a + j - 1] \o uv[a + j].data
        BY <1>8, Zenon
      <4>3. h[k] = h[a + j] /\ h[k - 1] = h[a + j - 1] /\ uv[k] = uv[a + j]
        BY <1>0, <4>1
      <4> QED BY <4>2, <4>3, Zenon
    <3> QED BY <3>1, <3>2, Zenon
  <2>2. h[0] = <<>>
    <3>1. 0 \in 0..a
      BY <1>0
    <3> QED BY <1>1, <1>3, <3>1, Zenon DEF DataSums
  <2> QED BY <1>0, <2>1, <2>2, Zenon DEF DataSums
<1>10. Data(uv) = h[a + b]
  BY <1>0, <1>9, DataIs DEF FB
<1>11. h[a + b] = f[a] \o g[b]
  BY <1>0, <1>4, SMTT(60)
<1> QED BY <1>1, <1>2, <1>10, <1>11, Zenon DEF uv

(* The same of the number of bytes on the wire.                            *)
LEMMA FrameSize ==
  ASSUME NEW B, NEW w \in Seq(FramesOf(B)), NEW k \in 1..Len(w)
  PROVE  Size(w[k]) \in Nat
<1> DEFINE d == w[k].data
<1>1. d \in Seq(B)
  BY FrameData
<1> HIDE DEF d
<1>2. Len(d) \in Nat
  BY <1>1
<1> QED BY <1>2, FramesAssumption DEF Size, d

LenSums(w, f) ==
  f[0] = 0 /\ \A k \in 1..Len(w) : f[k] = f[k - 1] + Size(w[k])

LenStep(w) ==
  [k \in Nat |-> [v \in Nat |-> IF k \in 1..Len(w) THEN v + Size(w[k]) ELSE v]]

(* One step of WireLen is a function on numbers.                           *)
LEMMA LenStepOK ==
  ASSUME NEW B, NEW w \in Seq(FramesOf(B))
  PROVE  /\ LenStep(w) \in [Nat -> [Nat -> Nat]]
         /\ \A k \in 1..Len(w) : \A v \in Nat : LenStep(w)[k][v] = v + Size(w[k])
<1>1. \A k \in 1..Len(w) : Size(w[k]) \in Nat
  BY FrameSize
<1> DEFINE x(k) == Size(w[k])
<1>2. \A k \in 1..Len(w) : x(k) \in Nat
  BY <1>1
<1> HIDE DEF x
<1>3. \A k \in 1..Len(w) : \A v \in Nat : v + x(k) \in Nat
  BY <1>2
<1>4. LenStep(w) = [k \in Nat |-> [v \in Nat |-> IF k \in 1..Len(w) THEN v + x(k) ELSE v]]
  BY DEF LenStep, x
<1>5. \A k \in Nat : [v \in Nat |-> IF k \in 1..Len(w) THEN v + x(k) ELSE v] \in [Nat -> Nat]
  BY <1>3, ZenonT(60)
<1>6. LenStep(w) \in [Nat -> [Nat -> Nat]]
  BY <1>4, <1>5, ZenonT(60)
<1>7. \A k \in 1..Len(w) : \A v \in Nat : LenStep(w)[k][v] = v + x(k)
  BY <1>4
<1> QED BY <1>6, <1>7, Zenon DEF x

(* Two functions that add up the lengths of the same frames end with the   *)
(* same number.                                                            *)
LEMMA LenUnique ==
  ASSUME NEW w, Len(w) \in Nat, NEW f, NEW g, LenSums(w, f), LenSums(w, g)
  PROVE  f[Len(w)] = g[Len(w)]
<1> DEFINE n == Len(w)
           S == {m \in Nat : m <= n => f[m] = g[m]}
<1> HIDE DEF n
<1>0. n \in Nat
  BY DEF n
<1>1. 0 \in S
  BY DEF LenSums
<1>2. ASSUME NEW m \in Nat, m \in S PROVE m + 1 \in S
  <2> SUFFICES ASSUME m + 1 <= n PROVE f[m + 1] = g[m + 1]
    OBVIOUS
  <2>1. PICK k \in 1..n : k = m + 1 /\ k - 1 = m
    BY <1>0
  <2>2. f[k - 1] = g[k - 1]
    BY <1>0, <1>2, <2>1
  <2>3. f[k] = f[k - 1] + Size(w[k]) /\ g[k] = g[k - 1] + Size(w[k])
    BY Zenon DEF LenSums, n
  <2>4. f[k] = g[k]
    BY <2>2, <2>3, Zenon
  <2> QED BY <2>1, <2>4, Zenon
<1> HIDE DEF S
<1>3. Nat \subseteq S
  BY <1>1, <1>2, SetInduction
<1> QED BY <1>0, <1>3 DEF S, n

(* WireLen is the last value of a function that adds up the lengths, ...   *)
LEMMA WireLenOf ==
  ASSUME NEW B, NEW w \in Seq(FramesOf(B))
  PROVE  \E f \in [0..Len(w) -> Nat] : WireLen(w) = f[Len(w)] /\ LenSums(w, f)
<1> DEFINE N == Len(w)
           len[k \in 0..Len(w)] == IF k = 0 THEN 0 ELSE len[k - 1] + Size(w[k])
           x(k) == Size(w[k])
           UpTo(f) == [k \in 0..Len(w) |-> IF k = 0 THEN 0 ELSE f[k - 1] + Size(w[k])]
<1>1. WireLen(w) = len[Len(w)] /\ N \in Nat
  BY DEF WireLen
<1>2. len = CHOOSE f : f = [k \in 0..Len(w) |-> IF k = 0 THEN 0
                                                 ELSE f[k - 1] + Size(w[k])]
  OBVIOUS
<1>3. len = CHOOSE f : f = UpTo(f)
  BY <1>2
<1> HIDE DEF len
<1>4. PICK f \in [0..N -> Nat] : GoesOn(f, N, 0, LenStep(w))
  <2>1. 0 \in Nat
    OBVIOUS
  <2> HIDE DEF N
  <2> QED BY <1>1, <2>1, LenStepOK, RecExists, Zenon
<1>5. LenSums(w, f)
  <2>1. ASSUME NEW k \in 1..Len(w) PROVE f[k] = f[k - 1] + Size(w[k])
    <3>1. f[k - 1] \in Nat
      <4>1. k - 1 \in 0..N
        BY <1>1
      <4> QED BY <4>1
    <3>2. f[k] = LenStep(w)[k][f[k - 1]]
      BY <1>4 DEF GoesOn
    <3>3. LenStep(w)[k][f[k - 1]] = f[k - 1] + Size(w[k])
      BY <3>1, LenStepOK, Zenon
    <3> QED BY <3>2, <3>3, Zenon
  <2> QED BY <1>4, <2>1 DEF GoesOn, LenSums
<1>6. f = UpTo(f)
  <2> HIDE DEF x
  <2>1. UpTo(f) = [k \in 0..Len(w) |-> IF k = 0 THEN 0 ELSE f[k - 1] + x(k)]
    BY DEF x
  <2>2. \A k \in 1..Len(w) : f[k] = f[k - 1] + x(k)
    BY <1>5, Zenon DEF LenSums, x
  <2>3. f[0] = 0
    BY <1>5 DEF LenSums
  <2>4. f = [k \in 0..Len(w) |-> f[k]]
    OBVIOUS
  <2>5. \A k \in 0..Len(w) : f[k] = IF k = 0 THEN 0 ELSE f[k - 1] + x(k)
    BY <2>2, <2>3
  <2> QED BY <2>1, <2>4, <2>5, Zenon
<1>7. len = UpTo(len)
  <2> HIDE DEF UpTo
  <2> QED BY <1>3, <1>6
<1>8. LenSums(w, len)
  <2> DEFINE h == UpTo(len)
  <2> HIDE DEF x
  <2>1. h = [k \in 0..Len(w) |-> IF k = 0 THEN 0 ELSE len[k - 1] + x(k)]
    BY DEF x
  <2> HIDE DEF h, UpTo
  <2>2. h[0] = 0 /\ \A k \in 1..Len(w) : h[k] = len[k - 1] + x(k)
    BY <1>1, <2>1
  <2>3. len = h
    BY <1>7 DEF h
  <2>4. len[0] = 0 /\ \A k \in 1..Len(w) : len[k] = len[k - 1] + x(k)
    BY <2>2, <2>3
  <2> QED BY <2>4, Zenon DEF x, LenSums
<1>9. len[Len(w)] = f[Len(w)]
  BY <1>1, <1>5, <1>8, LenUnique, Zenon
<1> QED BY <1>1, <1>5, <1>9, Zenon

(* ... and of every such function.                                         *)
LEMMA WireLenIs ==
  ASSUME NEW B, NEW w \in Seq(FramesOf(B)), NEW g, LenSums(w, g)
  PROVE  WireLen(w) = g[Len(w)]
<1>1. PICK f \in [0..Len(w) -> Nat] : WireLen(w) = f[Len(w)] /\ LenSums(w, f)
  BY WireLenOf
<1>2. Len(w) \in Nat
  OBVIOUS
<1> QED BY <1>1, <1>2, LenUnique, Zenon

(* The length of a wire is a number.                                       *)
LEMMA WireLenType ==
  ASSUME NEW B, NEW w \in Seq(FramesOf(B))
  PROVE  WireLen(w) \in Nat
<1>1. PICK f \in [0..Len(w) -> Nat] : WireLen(w) = f[Len(w)]
  BY WireLenOf
<1>2. Len(w) \in 0..Len(w)
  OBVIOUS
<1> QED BY <1>1, <1>2

(* No frames, no bytes on the wire.                                        *)
LEMMA WireLenEmpty == WireLen(<<>>) = 0
<1>1. <<>> \in Seq(FramesOf({}))
  OBVIOUS
<1>2. PICK f \in [0..Len(<<>>) -> Nat] : WireLen(<<>>) = f[Len(<<>>)] /\ LenSums(<<>>, f)
  BY <1>1, WireLenOf, Zenon
<1> QED BY <1>2 DEF LenSums

(* The length of two wires, one after the other.                           *)
LEMMA WireLenConcat ==
  ASSUME NEW B, NEW u \in Seq(FramesOf(B)), NEW v \in Seq(FramesOf(B))
  PROVE  WireLen(u \o v) = WireLen(u) + WireLen(v)
<1> DEFINE FB == FramesOf(B)
           a == Len(u)
           b == Len(v)
           uv == u \o v
<1>0. /\ a \in Nat /\ b \in Nat /\ uv \in Seq(FB) /\ Len(uv) = a + b
      /\ \A k \in 1..a : uv[k] = u[k]
      /\ \A k \in 1..b : uv[a + k] = v[k]
  <2> HIDE DEF FB
  <2> u \in Seq(FB) /\ v \in Seq(FB)
    BY DEF FB
  <2> QED OBVIOUS
<1>1. PICK f \in [0..a -> Nat] : WireLen(u) = f[a] /\ LenSums(u, f)
  BY WireLenOf
<1>2. PICK g \in [0..b -> Nat] : WireLen(v) = g[b] /\ LenSums(v, g)
  BY WireLenOf
<1> HIDE DEF a, b, uv, FB
<1> DEFINE h == [k \in 0..(a + b) |-> IF k <= a THEN f[k] ELSE f[a] + g[k - a]]
<1> DEFINE c(j) == f[a] + g[j]
<1> HIDE DEF c
<1>31. h = [k \in 0..(a + b) |-> IF k <= a THEN f[k] ELSE c(k - a)]
  BY DEF c
<1> HIDE DEF h
<1>3. \A k \in 0..a : h[k] = f[k]
  BY <1>0, <1>31
<1>32. \A k \in 1..b : h[a + k] = c(k)
  BY <1>0, <1>31
<1>33. h[a + 0] = c(0)
  <2>1. g[0] = 0 /\ f[a] \in Nat /\ h[a + 0] = f[a]
    BY <1>0, <1>2, <1>3 DEF LenSums
  <2> QED BY <2>1 DEF c
<1>4. \A k \in 0..b : h[a + k] = f[a] + g[k]
  <2>1. \A k \in 0..b : k = 0 \/ k \in 1..b
    BY <1>0
  <2> QED BY <2>1, <1>32, <1>33, Zenon DEF c
<1>5. \A k \in 1..a : f[k] = f[k - 1] + Size(u[k])
  BY <1>1 DEF LenSums, a
<1>6. \A k \in 1..b : g[k] = g[k - 1] + Size(v[k])
  BY <1>2 DEF LenSums, b
<1>7. ASSUME NEW k \in 1..a PROVE h[k] = h[k - 1] + Size(uv[k])
  <2>1. k \in 0..a /\ k - 1 \in 0..a
    BY <1>0
  <2>2. h[k] = f[k] /\ h[k - 1] = f[k - 1] /\ uv[k] = u[k]
    BY <1>0, <1>3, <2>1, ZenonT(60)
  <2> QED BY <1>5, <2>2, Zenon
<1>8. ASSUME NEW k \in 1..b PROVE h[a + k] = h[a + k - 1] + Size(uv[a + k])
  <2>1. k \in 0..b /\ k - 1 \in 0..b /\ a \in 0..a /\ a + (k - 1) = a + k - 1
    BY <1>0
  <2>2. h[a + k] = f[a] + g[k] /\ h[a + k - 1] = f[a] + g[k - 1] /\ uv[a + k] = v[k]
    <3>1. h[a + (k - 1)] = f[a] + g[k - 1]
      BY <1>4, <2>1
    <3> QED BY <1>0, <1>4, <2>1, <3>1, ZenonT(60)
  <2>3. f[a] \in Nat /\ g[k - 1] \in Nat /\ Size(v[k]) \in Nat
    BY <2>1, FrameSize, Zenon DEF b
  <2>4. g[k] = g[k - 1] + Size(v[k])
    BY <1>6
  <2> DEFINE x == Size(v[k])
             y == g[k - 1]
             z == f[a]
  <2>5. z + (y + x) = (z + y) + x
    <3> HIDE DEF x, y, z
    <3>1. x \in Nat /\ y \in Nat /\ z \in Nat
      BY <2>3 DEF x, y, z
    <3> QED BY <3>1
  <2> QED BY <2>2, <2>4, <2>5, Zenon
<1>9. LenSums(uv, h)
  <2>1. ASSUME NEW k \in 1..(a + b) PROVE h[k] = h[k - 1] + Size(uv[k])
    <3>1. CASE k \in 1..a
      BY <3>1, <1>7
    <3>2. CASE k \notin 1..a
      <4> DEFINE j == k - a
      <4>1. j \in 1..b /\ a + j = k /\ a + j - 1 = k - 1
        BY <1>0, <3>2, SMTT(60)
      <4> HIDE DEF j
      <4>2. h[a + j] = h[a + j - 1] + Size(uv[a + j])
        BY <1>8, <4>1, ZenonT(60)
      <4> QED BY <4>1, <4>2, ZenonT(60)
    <3> QED BY <3>1, <3>2
  <2>2. h[0] = 0
    BY <1>0, <1>1, <1>3 DEF LenSums
  <2> QED BY <1>0, <2>1, <2>2, Zenon DEF LenSums
<1>10. WireLen(uv) = h[a + b]
  BY <1>0, <1>9, WireLenIs, ZenonT(60) DEF FB
<1>11. h[a + b] = f[a] + g[b]
  BY <1>0, <1>4
<1> QED BY <1>1, <1>2, <1>10, <1>11, Zenon DEF uv

(* A message in pieces: n bytes of it from a place on, and what its k-th   *)
(* frame has.                                                              *)
Bytes(Ms) == Ms \X Nat

Wires(Ms) == Seq(FramesOf(Bytes(Ms)))

Part(m, off, n) == [j \in 1..n |-> <<m, off + j>>]

Pieces(m) == (m.len \div MaxPayload) + 1

PieceLen(m, i) == IF i < Pieces(m) THEN MaxPayload ELSE m.len % MaxPayload

Piece(m, i) == Part(m, (i - 1) * MaxPayload, PieceLen(m, i))

(* A part of a message is a sequence of its bytes.                         *)
LEMMA PartType ==
  ASSUME NEW Ms, NEW m \in Ms, NEW off \in Nat, NEW n \in Nat
  PROVE  /\ Part(m, off, n) \in Seq(Bytes(Ms)) /\ Len(Part(m, off, n)) = n
         /\ \A j \in 1..n : Part(m, off, n)[j] = <<m, off + j>>
<1>1. \A j \in 1..n : <<m, off + j>> \in Bytes(Ms)
  BY DEF Bytes
<1> QED BY <1>1 DEF Part

(* So is the beginning of a message.                                       *)
LEMMA PrefixType ==
  ASSUME NEW Ms, NEW m \in Ms, NEW n \in Nat
  PROVE  /\ Part(m, 0, n) \in Seq(Bytes(Ms)) /\ Len(Part(m, 0, n)) = n
         /\ \A j \in 1..n : Part(m, 0, n)[j] = <<m, j>>
<1>1. /\ Part(m, 0, n) \in Seq(Bytes(Ms)) /\ Len(Part(m, 0, n)) = n
      /\ \A j \in 1..n : Part(m, 0, n)[j] = <<m, 0 + j>>
  BY PartType, 0 \in Nat, Zenon
<1>2. \A j \in 1..n : 0 + j = j
  OBVIOUS
<1> QED BY <1>1, <1>2

(* A part that starts where the first one ends continues it.               *)
LEMMA PartConcat ==
  ASSUME NEW Ms, NEW m \in Ms, NEW a \in Nat, NEW n \in Nat
  PROVE  Part(m, 0, a) \o Part(m, a, n) = Part(m, 0, a + n)
<1> DEFINE x == Part(m, 0, a)
           y == Part(m, a, n)
           z == Part(m, 0, a + n)
           B == Bytes(Ms)
<1>0. a + n \in Nat
  OBVIOUS
<1>1. /\ x \in Seq(B) /\ Len(x) = a /\ \A j \in 1..a : x[j] = <<m, j>>
      /\ y \in Seq(B) /\ Len(y) = n /\ \A j \in 1..n : y[j] = <<m, a + j>>
      /\ z \in Seq(B) /\ Len(z) = a + n /\ \A j \in 1..(a + n) : z[j] = <<m, j>>
  BY PartType, PrefixType, <1>0, ZenonT(60)
<1> HIDE DEF x, y, z, B
<1>2. x \o y \in Seq(B) /\ Len(x \o y) = a + n
  BY <1>1
<1>3. ASSUME NEW j \in 1..(a + n) PROVE (x \o y)[j] = <<m, j>>
  <2>1. CASE j <= a
    BY <1>1, <2>1
  <2>2. CASE ~(j <= a)
    <3>1. (x \o y)[j] = y[j - a] /\ j - a \in 1..n /\ a + (j - a) = j
      BY <1>1, <2>2, SMTT(60)
    <3> QED BY <1>1, <3>1
  <2> QED BY <2>1, <2>2, Zenon
<1>4. x \o y = z
  BY <1>1, <1>2, <1>3, SeqEqual, Zenon
<1> QED BY <1>4 DEF x, y, z

(* A payload is the part that has everything.                              *)
LEMMA PayloadIsPart ==
  ASSUME NEW m, m.len \in Nat
  PROVE  Payload(m) = Part(m, 0, m.len)
BY DEF Payload, Part

(* A subsequence of a part is a part.                                      *)
LEMMA PartOf ==
  ASSUME NEW Ms, NEW m \in Ms, NEW len \in Nat, NEW a \in Nat, NEW n \in Nat, a + n <= len
  PROVE  SubSeq(Part(m, 0, len), a + 1, a + n) = Part(m, a, n)
<1> DEFINE x == Part(m, 0, len)
           y == Part(m, a, n)
           B == Bytes(Ms)
<1>1. /\ x \in Seq(B) /\ Len(x) = len /\ \A j \in 1..len : x[j] = <<m, j>>
      /\ y \in Seq(B) /\ Len(y) = n /\ \A j \in 1..n : y[j] = <<m, a + j>>
  BY PartType, PrefixType, ZenonT(60)
<1> HIDE DEF x, y, B
<1> DEFINE s == SubSeq(x, a + 1, a + n)
<1>2. s \in Seq(B) /\ Len(s) = n
  BY <1>1
<1>3. \A j \in 1..n : s[j] = x[a + j]
  BY <1>1
<1>4. ASSUME NEW j \in 1..n PROVE s[j] = y[j]
  <2>1. a + j \in 1..len
    OBVIOUS
  <2>2. s[j] = x[a + j] /\ x[a + j] = <<m, a + j>> /\ y[j] = <<m, a + j>>
    BY <1>1, <1>3, <2>1, Zenon
  <2> QED BY <2>2, Zenon
<1> HIDE DEF s
<1>5. s = y
  BY <1>1, <1>2, <1>4, SeqEqual, Zenon
<1> QED BY <1>5 DEF s, x, y

(* How long the pieces are and where they start.                           *)
LEMMA PieceSizes ==
  ASSUME NEW m, m.len \in Nat \ {0}
  PROVE  /\ Pieces(m) \in Nat \ {0}
         /\ \A i \in 1..Pieces(m) :
              /\ (i - 1) * MaxPayload \in Nat /\ PieceLen(m, i) \in Nat
              /\ (i - 1) * MaxPayload + PieceLen(m, i) <= m.len
              /\ i < Pieces(m) => (i - 1) * MaxPayload + PieceLen(m, i) = i * MaxPayload
              /\ i < Pieces(m) => PieceLen(m, i) = MaxPayload
              /\ i = Pieces(m) => (i - 1) * MaxPayload + PieceLen(m, i) = m.len
              /\ i = Pieces(m) => PieceLen(m, i) < MaxPayload
         /\ (Pieces(m) - 1) * MaxPayload <= m.len
         /\ m.len < Pieces(m) * MaxPayload
<1> DEFINE M == MaxPayload
           len == m.len
           q == len \div M
           r == len % M
<1>1. /\ M \in Nat \ {0} /\ len \in Nat \ {0} /\ q \in Nat /\ r \in 0..(M - 1)
      /\ len = q * M + r
  BY FramesAssumption, DivMod, Zenon
<1>2. Pieces(m) = q + 1 /\ \A i : PieceLen(m, i) = IF i < q + 1 THEN M ELSE r
  BY DEF Pieces, PieceLen
<1> HIDE DEF M, len, q, r
<1>3. ASSUME NEW i \in 1..(q + 1)
      PROVE  /\ (i - 1) * M \in Nat
             /\ i < q + 1 => (i - 1) * M + M = i * M /\ i * M <= q * M
  <2>1. PICK j \in Nat : i = j + 1
    <3>1. i - 1 \in Nat /\ i = (i - 1) + 1
      BY <1>1
    <3> QED BY <3>1
  <2>2. i - 1 = j /\ j * M \in Nat /\ i * M = j * M + M
    BY <1>1, <2>1
  <2>3. ASSUME i < q + 1 PROVE i * M <= q * M
    <3>1. j < q
      BY <1>1, <2>1, <2>3
    <3> QED BY <1>1, <2>1, <2>2, <3>1, TimesGrows
  <2> QED BY <2>2, <2>3
<1>4. (q + 1) * M = q * M + M /\ q * M \in Nat /\ (q + 1) - 1 = q
  BY <1>1
<1>5. ASSUME NEW i \in 1..(q + 1)
      PROVE  /\ (i - 1) * M \in Nat /\ PieceLen(m, i) \in Nat
             /\ (i - 1) * M + PieceLen(m, i) <= len
             /\ i < q + 1 => (i - 1) * M + PieceLen(m, i) = i * M
             /\ i < q + 1 => PieceLen(m, i) = M
             /\ i = q + 1 => (i - 1) * M + PieceLen(m, i) = len
             /\ i = q + 1 => PieceLen(m, i) < M
  <2> DEFINE pl == PieceLen(m, i)
             a == (i - 1) * M
             b == i * M
             c == q * M
  <2>1. pl = (IF i < q + 1 THEN M ELSE r) /\ a \in Nat /\ (i < q + 1 => a + M = b /\ b <= c)
    BY <1>2, <1>3
  <2>2. i = q + 1 => a = c
    BY <1>4
  <2>3. c \in Nat /\ len = c + r
    BY <1>1, <1>4
  <2>4. q \in Nat /\ i \in 1..(q + 1) /\ M \in Nat \ {0} /\ r \in 0..(M - 1)
    BY <1>1
  <2> HIDE DEF pl, a, b, c
  <2>5. /\ a \in Nat /\ pl \in Nat
        /\ a + pl <= len
        /\ i < q + 1 => a + pl = b
        /\ i < q + 1 => pl = M
        /\ i = q + 1 => a + pl = len
        /\ i = q + 1 => pl < M
    BY <2>1, <2>2, <2>3, <2>4
  <2> QED BY <2>5 DEF pl, a, b, c
<1>6. /\ q + 1 \in Nat \ {0} /\ ((q + 1) - 1) * M <= len /\ len < (q + 1) * M
  BY <1>1, <1>4
<1> QED BY <1>2, <1>5, <1>6, Zenon DEF M, len

(* A chunk of end_packet is a piece.                                       *)
LEMMA ChunkIsPiece ==
  ASSUME NEW Ms, NEW m \in Ms, m.len \in Nat \ {0}
  PROVE  /\ ChunkCount(Payload(m)) =
              (IF m.len % MaxPayload = 0 THEN Pieces(m) - 1 ELSE Pieces(m))
         /\ \A k \in 1..ChunkCount(Payload(m)) : Chunk(Payload(m), k) = Piece(m, k)
<1> DEFINE M == MaxPayload
           len == m.len
           q == len \div M
           r == len % M
           p == Payload(m)
<1>1. /\ M \in Nat \ {0} /\ len \in Nat \ {0} /\ q \in Nat /\ r \in 0..(M - 1)
      /\ len = q * M + r
  BY FramesAssumption, DivMod, Zenon
<1>2. p = Part(m, 0, len) /\ Len(p) = len
  <2>1. len \in Nat
    BY <1>1
  <2>2. p = Part(m, 0, len)
    BY <2>1, PayloadIsPart
  <2>3. Len(Part(m, 0, len)) = len
    BY <2>1, PrefixType, Zenon
  <2> QED BY <2>2, <2>3
<1>3. Pieces(m) = q + 1
  BY DEF Pieces
<1>4. ChunkCount(p) = (len + M - 1) \div M
  BY <1>2 DEF ChunkCount
<1> DEFINE n == ChunkCount(p)
<1> HIDE DEF M, len, q, r, p, n
<1>5. n = IF r = 0 THEN q ELSE q + 1
  <2>1. CASE r = 0
    <3>1. len + M - 1 \in Nat /\ M - 1 \in 0..(M - 1) /\ len + M - 1 = q * M + (M - 1)
      BY <1>1, <2>1
    <3>2. (len + M - 1) \div M = q
      BY <1>1, <3>1, DivUnique
    <3> QED BY <1>4, <2>1, <3>2 DEF n
  <2>2. CASE r # 0
    <3>1. len + M - 1 \in Nat /\ r - 1 \in 0..(M - 1) /\ q + 1 \in Nat
      BY <1>1, <2>2
    <3>2. len + M - 1 = (q + 1) * M + (r - 1)
      BY <1>1, <2>2
    <3>3. (len + M - 1) \div M = q + 1
      BY <1>1, <3>1, <3>2, DivUnique, Zenon
    <3> QED BY <1>4, <2>2, <3>3 DEF n
  <2> QED BY <2>1, <2>2
<1>6. ASSUME NEW k \in 1..n PROVE Chunk(p, k) = Piece(m, k)
  <2> DEFINE a == (k - 1) * M
             pl == PieceLen(m, k)
             b == k * M
             e == IF b < len THEN b ELSE len
  <2>1. k \in 1..(q + 1)
    BY <1>1, <1>5
  <2>2. /\ a \in Nat /\ pl \in Nat /\ a + pl <= len
        /\ k < q + 1 => a + pl = b
        /\ k < q + 1 => pl = M
        /\ k = q + 1 => a + pl = len
        /\ len < (q + 1) * M
    BY <2>1, <1>1, <1>3, PieceSizes DEF M, len
  <2>3. b \in Nat
    BY <1>1, <2>1
  <2>4. (k = q + 1 => len < b)
    BY <2>2
  <2>5. Chunk(p, k) = SubSeq(p, a + 1, e)
    BY <1>2, Zenon DEF Chunk, M
  <2> HIDE DEF a, pl, b
  <2>6. e = a + pl
    BY <1>1, <2>1, <2>2, <2>3, <2>4
  <2>7. Chunk(p, k) = SubSeq(Part(m, 0, len), a + 1, a + pl)
    BY <1>2, <2>5, <2>6
  <2>8. Chunk(p, k) = Part(m, a, pl)
    <3>1. len \in Nat
      BY <1>1
    <3> QED BY <2>2, <2>7, <3>1, PartOf, ZenonT(60)
  <2> QED BY <2>8 DEF Piece, a, pl, M
<1>7. n = IF r = 0 THEN Pieces(m) - 1 ELSE Pieces(m)
  BY <1>1, <1>3, <1>5
<1> QED BY <1>6, <1>7 DEF n, p, r, len, M

(* A piece is a sequence of bytes.                                         *)
LEMMA PieceType ==
  ASSUME NEW Ms, NEW m \in Ms, m.len \in Nat \ {0}, NEW i \in 1..Pieces(m)
  PROVE  Piece(m, i) \in Seq(Bytes(Ms)) /\ Len(Piece(m, i)) = PieceLen(m, i)
<1>1. (i - 1) * MaxPayload \in Nat /\ PieceLen(m, i) \in Nat
  BY PieceSizes
<1> QED BY <1>1, PartType DEF Piece

(* The bytes of a payload.  Each tells which message it is of.             *)
LEMMA PayloadType ==
  ASSUME NEW Ms, NEW m \in Ms, m.len \in Nat \ {0}
  PROVE  /\ Payload(m) \in Seq(Bytes(Ms)) /\ Len(Payload(m)) = m.len /\ Payload(m) # <<>>
         /\ \A j \in 1..m.len : Payload(m)[j] = <<m, j>>
         /\ Payload(m)[1] = <<m, 1>> /\ Payload(m)[1][1] = m
<1> DEFINE p == Payload(m)
           len == m.len
           B == Bytes(Ms)
<1>0. len \in Nat \ {0}
  OBVIOUS
<1>1. p \in Seq(B) /\ Len(p) = len /\ \A j \in 1..len : p[j] = <<m, j>>
  <2>1. p = Part(m, 0, len) /\ len \in Nat
    BY PayloadIsPart
  <2>2. /\ Part(m, 0, len) \in Seq(B) /\ Len(Part(m, 0, len)) = len
        /\ \A j \in 1..len : Part(m, 0, len)[j] = <<m, j>>
    BY <2>1, PrefixType, Zenon
  <2> HIDE DEF p, len, B
  <2> QED BY <2>1, <2>2
<1> HIDE DEF p, len, B
<1>2. p # <<>> /\ p[1] = <<m, 1>>
  BY <1>0, <1>1
<1>3. p[1][1] = m
  BY <1>2
<1> QED BY <1>1, <1>2, <1>3 DEF p, len, B

(* The fields of a frame, typed ...                                        *)
LEMMA FrameType ==
  ASSUME NEW B, NEW n \in 0..(NumMod - 1), NEW d \in Seq(B)
  PROVE  Frame(n, d) \in FramesOf(B) /\ Frame(n, d).num = n /\ Frame(n, d).data = d
BY DEF Frame, FramesOf

(* ... and not.                                                            *)
LEMMA FrameFields ==
  ASSUME NEW n, NEW d
  PROVE  Frame(n, d).num = n /\ Frame(n, d).data = d
BY DEF Frame

(* Numbers of frames are cut to what the header can hold, ...              *)
LEMMA ModNum ==
  ASSUME NEW n \in Nat
  PROVE  n % NumMod \in 0..(NumMod - 1)
BY FramesAssumption, DivMod

(* ... which those that fit in do not notice.                              *)
LEMMA SmallMod ==
  ASSUME NEW n \in 0..(NumMod - 1)
  PROVE  n % NumMod = n
<1>1. n \in Nat /\ NumMod \in Nat \ {0} /\ n = 0 * NumMod + n
  BY FramesAssumption
<1> QED BY <1>1, DivUnique

(* What end_packet writes.                                                 *)
LEMMA EndPacketIs ==
  ASSUME NEW Ms, NEW m \in Ms, m.len \in Nat \ {0}, NEW seq \in 0..(NumMod - 1)
  PROVE  /\ EndPacket(Payload(m), seq) \in Wires(Ms)
         /\ Len(EndPacket(Payload(m), seq)) =
              (IF m.len % MaxPayload = 0 THEN Pieces(m) - 1 ELSE Pieces(m))
         /\ \A k \in 1..Len(EndPacket(Payload(m), seq)) :
              EndPacket(Payload(m), seq)[k] = Frame((seq + k - 1) % NumMod, Piece(m, k))
<1> DEFINE p == Payload(m)
           n == ChunkCount(p)
           FB == FramesOf(Bytes(Ms))
           fr(k) == Frame((seq + k - 1) % NumMod, Piece(m, k))
           ch(k) == Frame((seq + k - 1) % NumMod, Chunk(p, k))
<1>1. /\ n = (IF m.len % MaxPayload = 0 THEN Pieces(m) - 1 ELSE Pieces(m))
      /\ \A k \in 1..n : Chunk(p, k) = Piece(m, k)
  BY ChunkIsPiece
<1>2. p # <<>>
  BY PayloadType, Zenon
<1>3. EndPacket(p, seq) = [k \in 1..n |-> ch(k)]
  BY <1>2 DEF EndPacket
<1>4. \A k \in 1..n : ch(k) = fr(k)
  BY <1>1, Zenon
<1>5. Pieces(m) \in Nat \ {0}
  BY PieceSizes
<1>6. n \in Nat /\ \A k \in 1..n : k \in 1..Pieces(m)
  <2> HIDE DEF n
  <2> QED BY <1>1, <1>5
<1>7. ASSUME NEW k \in 1..n PROVE fr(k) \in FB
  <2>1. seq + k - 1 \in Nat
    <3> HIDE DEF n
    <3> QED BY <1>6, FramesAssumption
  <2>2. Piece(m, k) \in Seq(Bytes(Ms))
    BY <1>6, PieceType
  <2> QED BY <2>1, <2>2, ModNum, FrameType
<1> HIDE DEF n, FB, fr, ch, p
<1>8. EndPacket(p, seq) = [k \in 1..n |-> fr(k)]
  BY <1>3, <1>4
<1>9. /\ EndPacket(p, seq) \in Seq(FB) /\ Len(EndPacket(p, seq)) = n
      /\ \A k \in 1..n : EndPacket(p, seq)[k] = fr(k)
  BY <1>6, <1>7, <1>8, SMTT(60)
<1> QED BY <1>1, <1>9, Zenon DEF p, FB, fr, Wires

(* What the client and the server write: all of the pieces.                *)
LEMMA CutIs ==
  ASSUME NEW Ms, NEW m \in Ms, m.len \in Nat \ {0}, NEW seq \in 0..(NumMod - 1)
  PROVE  /\ Cut(Payload(m), seq) \in Wires(Ms)
         /\ Len(Cut(Payload(m), seq)) = Pieces(m)
         /\ \A k \in 1..Pieces(m) : Cut(Payload(m), seq)[k].data = Piece(m, k)
         /\ m.len % MaxPayload # 0 =>
              Cut(Payload(m), seq)[Pieces(m)].num = (seq + Pieces(m) - 1) % NumMod
<1> DEFINE p == Payload(m)
           w == EndPacket(p, seq)
           n == Len(w)
           FB == FramesOf(Bytes(Ms))
           last == Frame(SeqAfter(p, seq), <<>>)
           P == Pieces(m)
<1>1. /\ w \in Seq(FB) /\ n = (IF m.len % MaxPayload = 0 THEN P - 1 ELSE P)
      /\ \A k \in 1..n : w[k] = Frame((seq + k - 1) % NumMod, Piece(m, k))
  BY EndPacketIs, Zenon DEF Wires
<1>2. P \in Nat \ {0} /\ n \in Nat
  <2>1. P \in Nat \ {0}
    BY PieceSizes
  <2> HIDE DEF n, P
  <2> QED BY <1>1, <2>1
<1>3. p # <<>> /\ Len(p) = m.len
  BY PayloadType, Zenon
<1>4. \A k \in 1..n : w[k].data = Piece(m, k) /\ w[k].num = (seq + k - 1) % NumMod
  <2> HIDE DEF n, w
  <2> SUFFICES ASSUME NEW k \in 1..n
               PROVE  w[k].data = Piece(m, k) /\ w[k].num = (seq + k - 1) % NumMod
    OBVIOUS
  <2>1. w[k] = Frame((seq + k - 1) % NumMod, Piece(m, k))
    BY <1>1, Zenon
  <2> QED BY <2>1, FrameFields
<1>6. CASE m.len % MaxPayload # 0
  <2>1. Cut(p, seq) = w \o <<>>
    BY <1>3, <1>6 DEF Cut
  <2>2. Cut(p, seq) = w
    <3> HIDE DEF FB, w
    <3> QED BY <1>1, <2>1
  <2>3. n = P
    BY <1>1, <1>6
  <2>4. P \in 1..P
    <3> HIDE DEF P
    <3> QED BY <1>2
  <2> QED BY <1>1, <1>4, <2>2, <2>3, <2>4, Zenon DEF Wires
<1>7. CASE m.len % MaxPayload = 0
  <2>1. Cut(p, seq) = w \o <<last>>
    BY <1>3, <1>7 DEF Cut
  <2>2. last \in FB /\ last.data = <<>>
    <3>1. SeqAfter(p, seq) \in 0..(NumMod - 1)
      <4> DEFINE c == ChunkCount(p)
      <4>1. c \in Nat
        <5>1. c = P - 1
          BY <1>7, ChunkIsPiece
        <5> HIDE DEF c, P
        <5> QED BY <1>2, <5>1
      <4> HIDE DEF c
      <4>2. seq + c \in Nat
        BY <4>1, FramesAssumption
      <4> QED BY <4>2, ModNum DEF SeqAfter, c
    <3>2. <<>> \in Seq(Bytes(Ms))
      OBVIOUS
    <3>3. Frame(SeqAfter(p, seq), <<>>) \in FramesOf(Bytes(Ms))
      BY <3>1, <3>2, FrameType, Zenon
    <3>4. Frame(SeqAfter(p, seq), <<>>).data = <<>>
      BY FrameFields
    <3> QED BY <3>3, <3>4
  <2>3. Piece(m, P) = <<>>
    <3>1. PieceLen(m, P) = 0
      <4> HIDE DEF P
      <4>1. ~(P < P)
        BY <1>2
      <4> QED BY <1>7, <4>1 DEF P, PieceLen
    <3> QED BY <3>1 DEF Piece, Part
  <2>4. n = P - 1
    BY <1>1, <1>7, ZenonT(60)
  <2> HIDE DEF n, P, w, FB, last
  <2>5. /\ Cut(p, seq) \in Seq(FB) /\ Len(Cut(p, seq)) = P
        /\ \A k \in 1..n : Cut(p, seq)[k] = w[k]
        /\ Cut(p, seq)[P] = last
    <3>1. w \in Seq(FB) /\ Len(w) = n /\ last \in FB
      BY <1>1, <2>2 DEF n
    <3> QED BY <1>2, <2>1, <2>4, <3>1, SMTT(60)
  <2>6. \A k \in 1..P : Cut(p, seq)[k].data = Piece(m, k)
    <3>1. \A k \in 1..P : k \in 1..n \/ k = P
      BY <1>2, <2>4, SMTT(60)
    <3> QED BY <1>4, <2>2, <2>3, <2>5, <3>1
  <2> QED BY <1>7, <2>5, <2>6, Zenon DEF Wires, FB, p, P
<1> QED BY <1>6, <1>7

(* The pieces of a message, one after the other, are its payload: all of   *)
(* them, or all but an empty last one.                                     *)
LEMMA PiecesData ==
  ASSUME NEW Ms, NEW m \in Ms, m.len \in Nat \ {0}, NEW w \in Wires(Ms),
         \/ Len(w) = Pieces(m)
         \/ Len(w) = Pieces(m) - 1 /\ m.len % MaxPayload = 0,
         \A i \in 1..Len(w) : w[i].data = Piece(m, i)
  PROVE  Data(w) = Payload(m)
<1> DEFINE n == Len(w)
           P == Pieces(m)
           M == MaxPayload
           len == m.len
           end(k) == IF k < P THEN k * M ELSE len
           g == [k \in 0..n |-> Part(m, 0, end(k))]
           x(k) == w[k].data
<1>1. P \in Nat \ {0} /\ n \in Nat /\ len \in Nat /\ M \in Nat \ {0} /\ n <= P
  <2>1. P \in Nat \ {0} /\ M \in Nat \ {0} /\ len \in Nat
    BY PieceSizes, FramesAssumption
  <2>2. n = P \/ n = P - 1
    OBVIOUS
  <2> HIDE DEF P, n
  <2> QED BY <2>1, <2>2
<1>2. ASSUME NEW k \in 1..n
      PROVE  /\ end(k - 1) \in Nat /\ PieceLen(m, k) \in Nat
             /\ end(k - 1) + PieceLen(m, k) = end(k)
             /\ (k - 1) * M = end(k - 1)
  <2>1. k \in 1..P
    <3> HIDE DEF P, n
    <3> QED BY <1>1
  <2>2. /\ (k - 1) * M \in Nat /\ PieceLen(m, k) \in Nat
        /\ k < P => (k - 1) * M + PieceLen(m, k) = k * M
        /\ k = P => (k - 1) * M + PieceLen(m, k) = len
    BY <2>1, PieceSizes
  <2>3. k - 1 < P /\ (k < P \/ k = P)
    <3> HIDE DEF P, n
    <3> QED BY <1>1, <2>1
  <2>4. end(k - 1) = (k - 1) * M
    BY <2>3
  <2>5. end(k) = IF k < P THEN k * M ELSE len
    OBVIOUS
  <2>6. k = P => ~(k < P)
    <3> HIDE DEF P
    <3> QED BY <1>1
  <2> HIDE DEF P, M, len, end
  <2> QED BY <2>2, <2>3, <2>4, <2>5, <2>6
<1>3. ASSUME NEW k \in 1..n PROVE g[k] = g[k - 1] \o w[k].data
  <2>1. w[k].data = Part(m, end(k - 1), PieceLen(m, k))
    BY <1>2 DEF Piece
  <2>2. k \in 0..n /\ k - 1 \in 0..n
    <3> HIDE DEF n
    <3> QED BY <1>1
  <2> HIDE DEF end, n
  <2>3. g[k] = Part(m, 0, end(k)) /\ g[k - 1] = Part(m, 0, end(k - 1))
    BY <2>2
  <2> HIDE DEF g
  <2>4. Part(m, 0, end(k - 1)) \o Part(m, end(k - 1), PieceLen(m, k))
          = Part(m, 0, end(k - 1) + PieceLen(m, k))
    <3> DEFINE a == end(k - 1)
               l == PieceLen(m, k)
    <3>1. a \in Nat /\ l \in Nat
      BY <1>2
    <3> HIDE DEF a, l
    <3>2. Part(m, 0, a) \o Part(m, a, l) = Part(m, 0, a + l)
      BY <3>1, PartConcat
    <3> QED BY <3>2 DEF a, l
  <2> QED BY <1>2, <2>1, <2>3, <2>4, Zenon
<1>4. g[0] = <<>>
  <2>1. end(0) = 0
    <3>1. 0 < P /\ 0 * M = 0
      <4> HIDE DEF P
      <4> QED BY <1>1
    <3> QED BY <3>1
  <2>2. 0 \in 0..n
    <3> HIDE DEF n
    <3> QED BY <1>1
  <2> HIDE DEF end, n
  <2>3. g[0] = Part(m, 0, end(0))
    BY <2>2
  <2> QED BY <2>1, <2>3 DEF Part
<1>5. DataSums(w, g)
  <2> HIDE DEF g
  <2> QED BY <1>3, <1>4, Zenon DEF DataSums
<1>6. Data(w) = g[n]
  <2> HIDE DEF g
  <2> QED BY <1>5, DataIs DEF Wires
<1>7. end(n) = len
  <2>1. CASE n = P
    <3> HIDE DEF n, P
    <3> QED BY <1>1, <2>1
  <2>2. CASE n = P - 1 /\ m.len % MaxPayload = 0
    <3> DEFINE q == len \div M
    <3>1. P = q + 1 /\ q \in Nat /\ len = q * M + (len % M)
      BY <1>1, DivMod, ZenonT(30) DEF Pieces
    <3>2. len % M = 0
      BY <2>2
    <3> HIDE DEF q, P, n, M, len
    <3> QED BY <1>1, <2>2, <3>1, <3>2
  <2> QED BY <2>1, <2>2
<1>8. g[n] = Part(m, 0, len)
  <2>1. n \in 0..n
    <3> HIDE DEF n
    <3> QED BY <1>1
  <2> HIDE DEF end, n, len
  <2> QED BY <1>7, <2>1
<1> QED BY <1>1, <1>6, <1>8, PayloadIsPart

----------------------------------------------------------------------------
(* Which messages are on a wire: st[j] is the number of frames of the      *)
(* first j.                                                                *)
Holds(w, a, m) == \A i \in 1..Pieces(m) : w[a + i].data = Piece(m, i)

Marks(w, ms, st) ==
  /\ st \in [0..Len(ms) -> 0..Len(w)]
  /\ st[0] = 0 /\ st[Len(ms)] = Len(w)
  /\ \A i, j \in 0..Len(ms) : i <= j => st[i] <= st[j]
  /\ \A j \in 1..Len(ms) : st[j] = st[j - 1] + Pieces(ms[j]) /\ Holds(w, st[j - 1], ms[j])

Carries(w, ms) == \E st : Marks(w, ms, st)

Sized(Ms) == \A m \in Ms : m.len \in Nat \ {0}

(* No frames carry no messages.                                            *)
LEMMA CarriesNone == Carries(<<>>, <<>>)
<1> DEFINE st == [j \in 0..0 |-> 0]
<1>1. Marks(<<>>, <<>>, st)
  BY DEF Marks
<1> QED BY <1>1 DEF Carries

(* The frames of one message.                                              *)
LEMMA CarriesOne ==
  ASSUME NEW Ms, Sized(Ms), NEW m \in Ms, NEW w \in Wires(Ms),
         Len(w) = Pieces(m), Holds(w, 0, m)
  PROVE  Carries(w, <<m>>)
<1> DEFINE n == Len(w)
           st == [j \in 0..1 |-> IF j = 0 THEN 0 ELSE n]
<1>1. n \in Nat /\ n = Pieces(m)
  BY PieceSizes DEF Sized
<1> HIDE DEF n
<1>2. st \in [0..1 -> 0..n] /\ st[0] = 0 /\ st[1] = n
  BY <1>1
<1> HIDE DEF st
<1>3. \A i, j \in 0..1 : i <= j => st[i] <= st[j]
  <2>1. \A i \in 0..1 : i = 0 \/ i = 1
    OBVIOUS
  <2> QED BY <1>1, <1>2, <2>1
<1>4. ASSUME NEW j \in 1..1
      PROVE  st[j] = st[j - 1] + Pieces(<<m>>[j]) /\ Holds(w, st[j - 1], <<m>>[j])
  <2>1. j = 1 /\ j - 1 = 0 /\ <<m>>[1] = m /\ 0 + n = n
    BY <1>1
  <2> QED BY <1>1, <1>2, <2>1, Zenon
<1>5. Len(<<m>>) = 1
  OBVIOUS
<1>6. Marks(w, <<m>>, st)
  BY <1>2, <1>3, <1>4, <1>5, Zenon DEF Marks, n
<1> QED BY <1>6 DEF Carries

(* Frames that carry no messages are no frames.                            *)
LEMMA CarriesNothing ==
  ASSUME NEW Ms, NEW w \in Wires(Ms), Carries(w, <<>>)
  PROVE  w = <<>>
<1>1. PICK st : Marks(w, <<>>, st)
  BY DEF Carries
<1>2. Len(w) = 0
  BY <1>1 DEF Marks
<1> DEFINE FB == FramesOf(Bytes(Ms))
<1>3. w \in Seq(FB)
  BY DEF Wires
<1> HIDE DEF FB
<1> QED BY <1>2, <1>3

(* What two wires carry, the one carries after the other.                  *)
LEMMA CarriesConcat ==
  ASSUME NEW Ms, Sized(Ms), NEW u \in Wires(Ms), NEW v \in Wires(Ms),
         NEW a \in Seq(Ms), NEW b \in Seq(Ms), Carries(u, a), Carries(v, b)
  PROVE  Carries(u \o v, a \o b)
<1>1. PICK s : Marks(u, a, s)
  BY DEF Carries
<1>2. PICK t : Marks(v, b, t)
  BY DEF Carries
<1> DEFINE FB == FramesOf(Bytes(Ms))
           nu == Len(u)
           nv == Len(v)
           na == Len(a)
           nb == Len(b)
           w == u \o v
           ms == a \o b
<1>3. /\ nu \in Nat /\ nv \in Nat /\ na \in Nat /\ nb \in Nat
      /\ Len(w) = nu + nv /\ Len(ms) = na + nb
      /\ \A i \in 1..nu : w[i] = u[i]
      /\ \A i \in 1..nv : w[nu + i] = v[i]
      /\ \A i \in 1..na : ms[i] = a[i]
      /\ \A i \in 1..nb : ms[na + i] = b[i]
  <2> HIDE DEF FB
  <2> u \in Seq(FB) /\ v \in Seq(FB)
    BY DEF Wires, FB
  <2> QED OBVIOUS
<1>4. /\ s \in [0..na -> 0..nu] /\ s[0] = 0 /\ s[na] = nu
      /\ \A i, j \in 0..na : i <= j => s[i] <= s[j]
      /\ \A j \in 1..na : s[j] = s[j - 1] + Pieces(a[j]) /\ Holds(u, s[j - 1], a[j])
  BY <1>1 DEF Marks
<1>5. /\ t \in [0..nb -> 0..nv] /\ t[0] = 0 /\ t[nb] = nv
      /\ \A i, j \in 0..nb : i <= j => t[i] <= t[j]
      /\ \A j \in 1..nb : t[j] = t[j - 1] + Pieces(b[j]) /\ Holds(v, t[j - 1], b[j])
  BY <1>2, ZenonT(60) DEF Marks
<1>6. /\ \A j \in 1..na : Pieces(a[j]) \in Nat
      /\ \A j \in 1..nb : Pieces(b[j]) \in Nat
  BY PieceSizes, SMTT(60) DEF Sized
<1> HIDE DEF nu, nv, na, nb, w, ms
<1>Lens. nu \in Nat /\ nv \in Nat /\ na \in Nat /\ nb \in Nat
  BY <1>3, ZenonT(60)
<1> DEFINE st == [j \in 0..(na + nb) |-> IF j <= na THEN s[j] ELSE nu + t[j - na]]
<1>7. /\ \A j \in 0..na : st[j] = s[j]
      /\ \A j \in 0..nb : st[na + j] = nu + t[j]
  <2>1. \A j \in 0..na : st[j] = s[j]
    BY <1>Lens
  <2>2. \A j \in 1..nb : st[na + j] = nu + t[j]
    BY <1>Lens, SMTT(60)
  <2>3. st[na + 0] = nu + t[0]
    BY <1>Lens, <1>4, <1>5, SMTT(60)
  <2>4. \A j \in 0..nb : j = 0 \/ j \in 1..nb
    BY <1>Lens
  <2> HIDE DEF st
  <2> QED BY <2>1, <2>2, <2>3, <2>4, Zenon
<1>8. st \in [0..(na + nb) -> 0..(nu + nv)]
  <2>1. ASSUME NEW j \in 0..na PROVE s[j] \in 0..(nu + nv)
    <3>1. s[j] \in 0..nu
      BY <1>4, Zenon
    <3> QED BY <1>Lens, <3>1, SMTT(60)
  <2>2. ASSUME NEW j \in 0..(na + nb), ~(j <= na) PROVE nu + t[j - na] \in 0..(nu + nv)
    <3>1. j - na \in 0..nb
      BY <1>Lens, <2>2
    <3>2. t[j - na] \in 0..nv
      BY <1>5, <3>1
    <3> QED BY <1>Lens, <3>2, SMTT(30)
  <2> DEFINE x(j) == IF j <= na THEN s[j] ELSE nu + t[j - na]
  <2>3. ASSUME NEW j \in 0..(na + nb) PROVE x(j) \in 0..(nu + nv)
    <3>1. j <= na => j \in 0..na
      BY <1>Lens
    <3> QED BY <2>1, <2>2, <3>1
  <2>4. st = [j \in 0..(na + nb) |-> x(j)]
    OBVIOUS
  <2> HIDE DEF x, st
  <2> QED BY <2>3, <2>4, ZenonT(60)
<1> HIDE DEF st
<1>9. \A j \in 0..(na + nb) : j \in 0..na \/ \E i \in 0..nb : j = na + i
  <2> SUFFICES ASSUME NEW j \in 0..(na + nb), ~(j \in 0..na)
               PROVE  \E i \in 0..nb : j = na + i
    OBVIOUS
  <2>1. j - na \in 0..nb /\ j = na + (j - na)
    BY <1>Lens
  <2> QED BY <2>1
<1>10. st[0] = 0 /\ st[na + nb] = nu + nv
  <2>1. 0 \in 0..na /\ nb \in 0..nb
    BY <1>Lens
  <2> QED BY <1>4, <1>5, <1>7, <2>1, ZenonT(60)
<1>11. ASSUME NEW i \in 0..(na + nb), NEW j \in 0..(na + nb), i <= j
       PROVE  st[i] <= st[j]
  <2>1. CASE j \in 0..na
    <3>1. na \in Nat /\ nb \in Nat
      BY <1>Lens
    <3>2. i \in 0..na
      BY <1>11, <2>1, <3>1
    <3> QED BY <1>4, <1>7, <1>11, <2>1, <3>2, ZenonT(60)
  <2>2. CASE j \notin 0..na
    <3>1. PICK y \in 0..nb : j = na + y
      BY <1>9, <2>2
    <3>2. st[j] = nu + t[y] /\ t[y] \in 0..nv
      BY <1>5, <1>7, <3>1, ZenonT(60)
    <3>3. CASE i \in 0..na
      <4>1. st[i] \in 0..nu
        BY <1>4, <1>7, <3>3, ZenonT(60)
      <4> QED BY <1>Lens, <3>2, <4>1, SMTT(60)
    <3>4. CASE i \notin 0..na
      <4>1. PICK x \in 0..nb : i = na + x
        BY <1>9, <3>4
      <4>2. st[i] = nu + t[x] /\ t[x] \in 0..nv /\ x <= y
        BY <1>Lens, <1>5, <1>7, <1>11, <3>1, <4>1, SMTT(60)
      <4>3. t[x] <= t[y]
        BY <1>5, <4>2
      <4> QED BY <1>Lens, <3>2, <4>2, <4>3, SMTT(60)
    <3> QED BY <3>3, <3>4
  <2> QED BY <2>1, <2>2
<1>12. ASSUME NEW j \in 1..na
       PROVE  st[j] = st[j - 1] + Pieces(ms[j]) /\ Holds(w, st[j - 1], ms[j])
  <2>1. j \in 0..na /\ j - 1 \in 0..na
    BY <1>Lens, SMTT(60)
  <2>2. st[j] = s[j] /\ st[j - 1] = s[j - 1] /\ ms[j] = a[j]
    BY <1>3, <1>7, <2>1
  <2>3. s[j] = s[j - 1] + Pieces(a[j]) /\ Holds(u, s[j - 1], a[j])
    BY <1>4
  <2>4. s[j] \in 0..nu /\ s[j - 1] \in 0..nu /\ Pieces(a[j]) \in Nat
    BY <1>4, <1>6, <2>1, ZenonT(60)
  <2>5. \A i \in 1..Pieces(a[j]) : s[j - 1] + i \in 1..nu
    BY <1>Lens, <2>3, <2>4, SMTT(60)
  <2>6. \A i \in 1..Pieces(a[j]) : w[s[j - 1] + i] = u[s[j - 1] + i]
    BY <1>3, <2>5, ZenonT(60)
  <2>7. Holds(w, s[j - 1], a[j])
    BY <2>3, <2>6 DEF Holds
  <2> QED BY <2>2, <2>3, <2>7, ZenonT(60)
<1>13. ASSUME NEW j \in 1..nb
       PROVE  st[na + j] = st[na + j - 1] + Pieces(ms[na + j])
              /\ Holds(w, st[na + j - 1], ms[na + j])
  <2>1. j \in 0..nb /\ j - 1 \in 0..nb /\ na + j - 1 = na + (j - 1)
    BY <1>Lens, SMTT(60)
  <2>2. st[na + j] = nu + t[j] /\ st[na + j - 1] = nu + t[j - 1] /\ ms[na + j] = b[j]
    BY <1>3, <1>7, <2>1
  <2>3. t[j] = t[j - 1] + Pieces(b[j]) /\ Holds(v, t[j - 1], b[j])
    BY <1>5
  <2>4. t[j] \in 0..nv /\ t[j - 1] \in 0..nv /\ Pieces(b[j]) \in Nat
    BY <1>5, <1>6, <2>1, Zenon
  <2>5. \A i \in 1..Pieces(b[j]) : t[j - 1] + i \in 1..nv /\ nu + (t[j - 1] + i) = (nu + t[j - 1]) + i
    <3> DEFINE x == t[j - 1]
               y == t[j]
               c == Pieces(b[j])
    <3>1. y = x + c /\ y \in 0..nv /\ x \in 0..nv /\ c \in Nat
      BY <2>3, <2>4, ZenonT(60)
    <3> HIDE DEF x, y, c
    <3>2. \A i \in 1..c : x + i \in 1..nv /\ nu + (x + i) = (nu + x) + i
      BY <1>Lens, <3>1
    <3> QED BY <3>2 DEF x, c
  <2>6. \A i \in 1..Pieces(b[j]) : w[(nu + t[j - 1]) + i] = v[t[j - 1] + i]
    <3> SUFFICES ASSUME NEW i \in 1..Pieces(b[j])
                 PROVE  w[(nu + t[j - 1]) + i] = v[t[j - 1] + i]
      OBVIOUS
    <3>1. t[j - 1] + i \in 1..nv /\ nu + (t[j - 1] + i) = (nu + t[j - 1]) + i
      BY <2>5, SMTT(30)
    <3>2. w[nu + (t[j - 1] + i)] = v[t[j - 1] + i]
      BY <1>3, <3>1, ZenonT(60)
    <3> QED BY <3>1, <3>2, ZenonT(60)
  <2>7. Holds(w, nu + t[j - 1], b[j])
    BY <2>3, <2>6, ZenonT(60) DEF Holds
  <2>8. nu + t[j] = (nu + t[j - 1]) + Pieces(b[j])
    BY <1>Lens, <2>3, <2>4, SMTT(60)
  <2> QED BY <2>2, <2>7, <2>8, ZenonT(60)
<1>14. ASSUME NEW j \in 1..(na + nb)
       PROVE  st[j] = st[j - 1] + Pieces(ms[j]) /\ Holds(w, st[j - 1], ms[j])
  <2>1. CASE j \in 1..na
    BY <1>12, <2>1
  <2>2. CASE j \notin 1..na
    <3>1. PICK i \in 1..nb : j = na + i
      <4>1. j - na \in 1..nb /\ j = na + (j - na)
        BY <1>Lens, <2>2, SMTT(60)
      <4> QED BY <4>1, ZenonT(60)
    <3>2. j - 1 = na + i - 1
      BY <1>Lens, <3>1
    <3>3. st[na + i] = st[na + i - 1] + Pieces(ms[na + i])
              /\ Holds(w, st[na + i - 1], ms[na + i])
      BY <1>13
    <3> QED BY <3>1, <3>2, <3>3, Zenon
  <2> QED BY <2>1, <2>2
<1>15. Marks(w, ms, st)
  BY <1>3, <1>8, <1>10, <1>11, <1>14, Zenon DEF Marks
<1> QED BY <1>15 DEF Carries, w, ms

(* The frames before and after the k-th.                                   *)
LEMMA SplitWire ==
  ASSUME NEW Ms, NEW w \in Wires(Ms), NEW k \in 1..Len(w)
  PROVE  /\ SubSeq(w, 1, k) \in Wires(Ms) /\ Len(SubSeq(w, 1, k)) = k
         /\ \A i \in 1..k : SubSeq(w, 1, k)[i] = w[i]
         /\ SubSeq(w, k + 1, Len(w)) \in Wires(Ms)
         /\ Len(SubSeq(w, k + 1, Len(w))) = Len(w) - k
         /\ \A i \in 1..(Len(w) - k) : SubSeq(w, k + 1, Len(w))[i] = w[k + i]
         /\ w = SubSeq(w, 1, k) \o SubSeq(w, k + 1, Len(w))
<1> DEFINE FB == FramesOf(Bytes(Ms))
           n == Len(w)
           u == SubSeq(w, 1, k)
           v == SubSeq(w, k + 1, n)
<1>1. w \in Seq(FB) /\ k \in 1..n /\ n = Len(w)
  BY DEF Wires
<1> HIDE DEF FB, n
<1>2. n \in Nat
  BY <1>1
<1>3. u \in Seq(FB) /\ Len(u) = k /\ \A i \in 1..k : u[i] = w[i]
  BY <1>1, <1>2
<1>4. v \in Seq(FB) /\ Len(v) = n - k /\ \A i \in 1..(n - k) : v[i] = w[k + i]
  BY <1>1, <1>2
<1>5. w = u \o v
  <2> HIDE DEF u, v
  <2>0. Len(u) + Len(v) = n
    BY <1>1, <1>2, <1>3, <1>4
  <2>1. u \o v \in Seq(FB) /\ Len(u \o v) = n
    BY <1>3, <1>4, <2>0, ConcatProperties, Zenon
  <2>2. ASSUME NEW i \in 1..n PROVE (u \o v)[i] = w[i]
    <3>1. CASE i <= k
      BY <1>1, <1>2, <1>3, <1>4, <3>1
    <3>2. CASE ~(i <= k)
      <4>1. (u \o v)[i] = v[i - k] /\ i - k \in 1..(n - k) /\ k + (i - k) = i
        <5>1. (u \o v)[i] = v[i - Len(u)]
          BY <1>1, <1>2, <1>3, <1>4, <2>0, <3>2, ConcatProperties, SMTT(60)
        <5>2. i - k \in 1..(n - k) /\ k + (i - k) = i
          BY <1>1, <1>2, <3>2, SMTT(60)
        <5> QED BY <1>3, <5>1, <5>2, ZenonT(60)
      <4> QED BY <1>4, <4>1
    <3> QED BY <3>1, <3>2, Zenon
  <2> QED BY <1>1, <2>1, <2>2, SeqEqual, Zenon
<1> QED BY <1>3, <1>4, <1>5, Zenon DEF Wires, FB, n, u, v

(* packet() joins the frames of the first message and leaves the rest.     *)
LEMMA CarriesFirst ==
  ASSUME NEW Ms, Sized(Ms), NEW w \in Wires(Ms), NEW ms \in Seq(Ms), Carries(w, ms),
         NEW k \in 1..Len(w), ~IsFull(w[k]), \A i \in 1..(k - 1) : IsFull(w[i])
  PROVE  /\ ms # <<>> /\ ms[1] \in Ms /\ k = Pieces(ms[1])
         /\ \A i \in 1..k : w[i].data = Piece(ms[1], i)
         /\ Data(SubSeq(w, 1, k)) = Payload(ms[1])
         /\ Carries(SubSeq(w, k + 1, Len(w)), Tail(ms))
<1>1. PICK st : Marks(w, ms, st)
  BY DEF Carries
<1> DEFINE n == Len(w)
           N == Len(ms)
           m == ms[1]
           P == Pieces(m)
<1>2. n \in Nat /\ N \in Nat /\ k \in 1..n
  BY DEF Wires
<1>3. /\ st \in [0..N -> 0..n] /\ st[0] = 0 /\ st[N] = n
      /\ \A i, j \in 0..N : i <= j => st[i] <= st[j]
      /\ \A j \in 1..N : st[j] = st[j - 1] + Pieces(ms[j]) /\ Holds(w, st[j - 1], ms[j])
  BY <1>1 DEF Marks
<1>4. N >= 1
  <2> HIDE DEF n, N
  <2> QED BY <1>2, <1>3
<1>5. ms # <<>> /\ m \in Ms /\ m.len \in Nat \ {0}
  <2>1. 1 \in 1..N /\ ms \in Seq(Ms)
    BY <1>2, <1>4, SMTT(60)
  <2>2. m \in Ms
    BY <2>1, SMTT(60)
  <2>3. m.len \in Nat \ {0}
    BY <2>2, ZenonT(60) DEF Sized
  <2>4. ms # <<>>
    BY <1>4, SMTT(60)
  <2> QED BY <2>2, <2>3, <2>4, ZenonT(60)
<1>6. /\ P \in Nat \ {0}
      /\ \A i \in 1..P :
           /\ PieceLen(m, i) \in Nat
           /\ i < P => PieceLen(m, i) = MaxPayload
           /\ i = P => PieceLen(m, i) < MaxPayload
           /\ Len(Piece(m, i)) = PieceLen(m, i)
  BY <1>5, PieceSizes, PieceType
<1>7. st[1] = P /\ P <= n /\ \A i \in 1..P : w[i].data = Piece(m, i)
  <2>1. 1 \in 1..N /\ 1 \in 0..N /\ N \in 0..N /\ 1 - 1 = 0
    BY <1>2, <1>4
  <2>2. st[1] = st[1 - 1] + P /\ Holds(w, st[1 - 1], m)
    BY <1>3, <2>1
  <2>3. st[1] = 0 + P /\ Holds(w, 0, m)
    BY <1>3, <2>1, <2>2
  <2>4. 0 + P = P /\ \A i \in 1..P : 0 + i = i
    BY <1>6
  <2>5. st[1] = P /\ \A i \in 1..P : w[i].data = Piece(m, i)
    BY <2>3, <2>4 DEF Holds
  <2>6. P <= n
    <3>1. st[1] <= st[N]
      BY <1>3, <1>4, <2>1
    <3> QED BY <1>3, <2>5, <3>1
  <2> QED BY <2>5, <2>6
<1> HIDE DEF P, m, N, n
<1>8. \A i \in 1..P : IsFull(w[i]) <=> i < P
  <2> SUFFICES ASSUME NEW i \in 1..P PROVE IsFull(w[i]) <=> i < P
    OBVIOUS
  <2>1. Len(w[i].data) = PieceLen(m, i)
    BY <1>6, <1>7
  <2>2. i < P \/ i = P
    BY <1>6
  <2>3. MaxPayload \in Nat /\ PieceLen(m, i) \in Nat
    BY <1>6, FramesAssumption
  <2> QED BY <1>6, <2>1, <2>2, <2>3 DEF IsFull
<1>9. k = P
  <2>1. ~(k < P)
    BY <1>2, <1>6, <1>8
  <2>2. ~(P < k)
    <3> SUFFICES ASSUME P < k PROVE FALSE
      OBVIOUS
    <3>1. P \in 1..(k - 1) /\ P \in 1..P /\ ~(P < P)
      BY <1>2, <1>6, SMTT(60)
    <3> QED BY <1>8, <3>1
  <2> QED BY <1>2, <1>6, <2>1, <2>2
<1> DEFINE u == SubSeq(w, 1, k)
           v == SubSeq(w, k + 1, n)
           T == Tail(ms)
<1>10. /\ u \in Wires(Ms) /\ Len(u) = k /\ \A i \in 1..k : u[i] = w[i]
       /\ Len(v) = n - k /\ \A i \in 1..(n - k) : v[i] = w[k + i]
  BY SplitWire, ZenonT(60) DEF n
<1>11. Data(u) = Payload(m)
  <2> HIDE DEF u
  <2>1. \A i \in 1..Len(u) : u[i].data = Piece(m, i)
    BY <1>7, <1>9, <1>10, ZenonT(30)
  <2> QED BY <1>5, <1>9, <1>10, <2>1, PiecesData, SMTT(30) DEF P
<1>12. Carries(v, T)
  <2>1. Len(T) = N - 1 /\ \A j \in 1..(N - 1) : T[j] = ms[j + 1]
    BY <1>5 DEF N
  <2> HIDE DEF v, T
  <2> DEFINE s == [j \in 0..(N - 1) |-> st[j + 1] - k]
  <2>2. ASSUME NEW j \in 0..(N - 1) PROVE st[j + 1] - k \in 0..(n - k)
    <3>1. j + 1 \in 0..N /\ 1 \in 0..N /\ 1 <= j + 1
      BY <1>2, <1>4
    <3>2. st[1] <= st[j + 1] /\ st[j + 1] \in 0..n /\ st[1] = k
      BY <1>3, <1>7, <1>9, <3>1
    <3> QED BY <1>2, <3>2, SMTT(60)
  <2>3. s \in [0..(N - 1) -> 0..(n - k)]
    BY <2>2
  <2>4. \A j \in 0..(N - 1) : s[j] = st[j + 1] - k
    OBVIOUS
  <2> HIDE DEF s
  <2>5. s[0] = 0 /\ s[N - 1] = n - k
    <3>1. 0 \in 0..(N - 1) /\ N - 1 \in 0..(N - 1) /\ 0 + 1 = 1 /\ N - 1 + 1 = N
      BY <1>2, <1>4
    <3>2. s[0] = st[1] - k /\ s[N - 1] = st[N] - k
      BY <2>4, <3>1
    <3> QED BY <1>2, <1>3, <1>7, <1>9, <3>2
  <2>6. ASSUME NEW i \in 0..(N - 1), NEW j \in 0..(N - 1), i <= j PROVE s[i] <= s[j]
    <3>1. i + 1 \in 0..N /\ j + 1 \in 0..N /\ i + 1 <= j + 1
      BY <1>2, <1>4, <2>6
    <3>2. st[i + 1] <= st[j + 1] /\ st[i + 1] \in 0..n /\ st[j + 1] \in 0..n
      BY <1>3, <3>1, ZenonT(60)
    <3> QED BY <1>2, <2>4, <3>2
  <2>7. ASSUME NEW j \in 1..(N - 1)
        PROVE  s[j] = s[j - 1] + Pieces(T[j]) /\ Holds(v, s[j - 1], T[j])
    <3>1. /\ j \in 0..(N - 1) /\ j - 1 \in 0..(N - 1) /\ j + 1 \in 1..N
          /\ (j + 1) - 1 = j /\ j - 1 + 1 = j /\ j \in 0..N /\ j + 1 \in 0..N
      BY <1>2, <1>4
    <3>2. s[j] = st[j + 1] - k /\ s[j - 1] = st[j] - k
      BY <2>4, <3>1
    <3>3. st[j + 1] = st[j] + Pieces(ms[j + 1]) /\ Holds(w, st[j], ms[j + 1])
      <4>1. st[j + 1] = st[(j + 1) - 1] + Pieces(ms[j + 1]) /\ Holds(w, st[(j + 1) - 1], ms[j + 1])
        BY <1>3, <3>1, ZenonT(60)
      <4> QED BY <3>1, <4>1
    <3>4. T[j] = ms[j + 1]
      BY <2>1
    <3>5. st[j] \in 0..n /\ st[j + 1] \in 0..n /\ k <= st[j]
      <4>1. 1 \in 0..N /\ 1 <= j
        BY <1>2, <1>4
      <4>2. st[1] <= st[j]
        BY <1>3, <3>1, <4>1, ZenonT(60)
      <4> QED BY <1>3, <1>7, <1>9, <3>1, <4>2
    <3> DEFINE x == st[j]
               y == st[j + 1]
               c == Pieces(T[j])
    <3>6. y = x + c /\ x \in 0..n /\ y \in 0..n /\ k <= x /\ s[j] = y - k /\ s[j - 1] = x - k
          /\ Holds(w, x, T[j])
      BY <3>2, <3>3, <3>4, <3>5, ZenonT(60)
    <3>60. c \in Nat
      <4>1. ms[j + 1] \in Ms
        BY <3>1 DEF N
      <4> QED BY <3>4, <4>1, PieceSizes DEF Sized
    <3> HIDE DEF x, y, c
    <3>7. s[j] = s[j - 1] + c
      BY <1>2, <3>6, <3>60
    <3>8. \A i \in 1..c : /\ (x - k) + i \in 1..(n - k)
                          /\ k + ((x - k) + i) = x + i
      BY <1>2, <3>6, <3>60
    <3>9. \A i \in 1..c : v[(x - k) + i] = w[x + i]
      <4> SUFFICES ASSUME NEW i \in 1..c PROVE v[(x - k) + i] = w[x + i]
        BY ZenonT(60)
      <4>1. v[(x - k) + i] = w[k + ((x - k) + i)]
        BY <1>10, <3>8, SMTT(30)
      <4> QED BY <3>8, <4>1, ZenonT(60)
    <3>10. Holds(v, x - k, T[j])
      BY <3>6, <3>9, Zenon DEF Holds, c
    <3> QED BY <3>6, <3>7, <3>10 DEF c
  <2>8. Marks(v, T, s)
    BY <1>10, <2>1, <2>3, <2>5, <2>6, <2>7, Zenon DEF Marks
  <2> QED BY <2>8 DEF Carries
<1> QED BY <1>5, <1>7, <1>9, <1>11, <1>12 DEF u, v, T, n, m, P

----------------------------------------------------------------------------
(* A sequence of one element.                                              *)
LEMMA OneSeq ==
  ASSUME NEW S, NEW x \in S
  PROVE  <<x>> \in Seq(S) /\ Len(<<x>>) = 1 /\ <<x>>[1] = x
OBVIOUS

----------------------------------------------------------------------------
(* A sequence is built element by element.                                 *)
LEMMA PrefixGrows ==
  ASSUME NEW S, NEW a \in Seq(S), NEW k \in 1..Len(a)
  PROVE  /\ SubSeq(a, 1, k - 1) \in Seq(S)
         /\ SubSeq(a, 1, k) = SubSeq(a, 1, k - 1) \o <<a[k]>>
         /\ a[k] \in S
<1> DEFINE u == SubSeq(a, 1, k - 1)
           v == <<a[k]>>
           w == SubSeq(a, 1, k)
<1>0. a[k] \in S /\ Len(a) \in Nat
  OBVIOUS
<1>1. u \in Seq(S) /\ Len(u) = k - 1 /\ \A i \in 1..(k - 1) : u[i] = a[i]
  BY <1>0
<1>2. w \in Seq(S) /\ Len(w) = k /\ \A i \in 1..k : w[i] = a[i]
  BY <1>0
<1>3. v \in Seq(S) /\ Len(v) = 1 /\ v[1] = a[k]
  BY <1>0, OneSeq
<1> HIDE DEF u, v, w
<1>4. /\ u \o v \in Seq(S) /\ Len(u \o v) = Len(u) + Len(v)
      /\ \A i \in 1..(Len(u) + Len(v)) :
            (u \o v)[i] = IF i <= Len(u) THEN u[i] ELSE v[i - Len(u)]
  BY <1>1, <1>3, ConcatProperties, Zenon
<1>5. ASSUME NEW i \in 1..k PROVE (u \o v)[i] = w[i]
  <2>1. i \in 1..(Len(u) + Len(v)) /\ w[i] = a[i]
    BY <1>0, <1>1, <1>2, <1>3
  <2>2. CASE i <= Len(u)
    <3>1. i \in 1..(k - 1)
      BY <1>0, <1>1, <2>2
    <3> QED BY <1>1, <1>4, <2>1, <2>2, <3>1, Zenon
  <2>3. CASE ~(i <= Len(u))
    <3>1. i = k /\ i - Len(u) = 1
      BY <1>0, <1>1, <2>3
    <3> QED BY <1>3, <1>4, <2>1, <2>3, <3>1, Zenon
  <2> QED BY <2>2, <2>3, Zenon
<1>6. w = u \o v
  <2>1. Len(w) = Len(u \o v) /\ \A i \in 1..Len(w) : w[i] = (u \o v)[i]
    BY <1>0, <1>1, <1>2, <1>3, <1>4, <1>5
  <2> QED BY <1>2, <1>4, <2>1, SeqEqual, ZenonT(60)
<1> QED BY <1>0, <1>1, <1>6 DEF u, v, w

(* A wire has finitely many frames.                                        *)
LEMMA WireFinite ==
  ASSUME NEW Ms, NEW v \in Wires(Ms)
  PROVE  Len(v) \in Nat
<1> DEFINE FB == FramesOf(Bytes(Ms))
<1>1. v \in Seq(FB)
  BY DEF Wires
<1> HIDE DEF FB
<1> QED BY <1>1

(* Two wires, one after the other.                                         *)
LEMMA WireConcat ==
  ASSUME NEW Ms, NEW u \in Wires(Ms), NEW v \in Wires(Ms)
  PROVE  u \o v \in Wires(Ms)
<1> DEFINE FB == FramesOf(Bytes(Ms))
<1>1. v \in Seq(FB) /\ u \in Seq(FB)
  BY DEF Wires
<1> HIDE DEF FB
<1>2. u \o v \in Seq(FB)
  BY <1>1
<1> QED BY <1>2 DEF Wires, FB

(* A message is carried by the frames it is cut into.                      *)
LEMMA CutCarries ==
  ASSUME NEW Ms, Sized(Ms), NEW m \in Ms, NEW s \in 0..(NumMod - 1)
  PROVE  Cut(Payload(m), s) \in Wires(Ms) /\ Carries(Cut(Payload(m), s), <<m>>)
<1> DEFINE w == Cut(Payload(m), s)
<1>1. m.len \in Nat \ {0}
  BY ZenonT(60) DEF Sized
<1>2. /\ w \in Wires(Ms) /\ Len(w) = Pieces(m)
      /\ \A k \in 1..Pieces(m) : w[k].data = Piece(m, k)
  BY <1>1, CutIs
<1> HIDE DEF w
<1>3. Holds(w, 0, m)
  <2>1. \A i \in 1..Pieces(m) : 0 + i = i
    BY <1>1, PieceSizes
  <2> QED BY <1>2, <2>1 DEF Holds
<1>4. Carries(w, <<m>>)
  BY <1>2, <1>3, CarriesOne
<1> QED BY <1>2, <1>4 DEF w

----------------------------------------------------------------------------
(* A wire is a sequence of frames.                                         *)
LEMMA WireSeq ==
  ASSUME NEW Ms, NEW w \in Wires(Ms)
  PROVE  w \in Seq(FramesOf(Bytes(Ms)))
BY DEF Wires

(* What PacketWriter makes of a message, ...                               *)
Writes(Ms, m, s, w) ==
  /\ w \in Wires(Ms) /\ Data(w) = Payload(m)
  /\ \A i \in 1..Len(w) : \E k \in 1..Pieces(m) :
       w[i].data = Piece(m, k) /\ Piece(m, k) # <<>>
  /\ \A i \in 1..Len(w) : i \in 1..Pieces(m) /\ w[i].data = Piece(m, i)
  /\ 1 \in 1..Len(w) => w[1].num = s
  /\ m.len % MaxPayload # 0 => Carries(w, <<m>>)
  /\ m.len < MaxPayload => Len(w) = 1 /\ w[1].num = s
  /\ SeqAfter(Payload(m), s) \in 0..(NumMod - 1)

(* What PacketWriter puts on the wire for a message is its payload in      *)
(* frames numbered from the writer's sequence number: the pieces of the    *)
(* message that are not empty.  They carry the message as a reader expects *)
(* it, unless its length is a multiple of the largest payload: the writer  *)
(* does not send the empty frame that would end such a message.            *)
THEOREM WrittenIs ==
  ASSUME NEW Ms, Sized(Ms), NEW m \in Ms, NEW s \in 0..(NumMod - 1)
  PROVE  Writes(Ms, m, s, EndPacket(Payload(m), s))
<1> DEFINE w == EndPacket(Payload(m), s)
           P == Pieces(m)
<1>1. m.len \in Nat \ {0} /\ MaxPayload \in Nat \ {0} /\ NumMod \in Nat \ {0}
  BY FramesAssumption DEF Sized
<1>2. /\ w \in Wires(Ms)
      /\ Len(w) = (IF m.len % MaxPayload = 0 THEN P - 1 ELSE P)
      /\ \A k \in 1..Len(w) : w[k] = Frame((s + k - 1) % NumMod, Piece(m, k))
  BY <1>1, EndPacketIs, ZenonT(60)
<1>3. P \in Nat \ {0} /\ \A i \in 1..P : /\ PieceLen(m, i) \in Nat
                                         /\ i < P => PieceLen(m, i) = MaxPayload
  BY <1>1, PieceSizes
<1>4. PieceLen(m, P) = m.len % MaxPayload
  BY <1>3 DEF PieceLen
<1>5. \A k \in 1..P : Len(Piece(m, k)) = PieceLen(m, k)
  BY <1>1, PieceType
<1> HIDE DEF w, P
<1>6. \A i \in 1..Len(w) : i \in 1..P /\ w[i].data = Piece(m, i)
  <2>1. \A i \in 1..Len(w) : i \in 1..P
    BY <1>2, <1>3
  <2>2. ASSUME NEW i \in 1..Len(w) PROVE w[i].data = Piece(m, i)
    <3>1. PICK n : w[i] = Frame(n, Piece(m, i))
      BY <1>2
    <3> QED BY <3>1, FrameFields
  <2> QED BY <2>1, <2>2
<1>7. ASSUME NEW i \in 1..Len(w)
      PROVE  Piece(m, i) # <<>>
  <2>1. PieceLen(m, i) # 0
    <3>1. CASE i < P
      BY <1>1, <1>3, <1>6, <3>1
    <3>2. CASE i = P
      <4>1. m.len % MaxPayload # 0
        BY <1>2, <1>3, <3>2
      <4> QED BY <1>4, <3>2, <4>1
    <3> QED BY <1>3, <1>6, <3>1, <3>2
  <2>2. Len(Piece(m, i)) # 0
    BY <1>5, <1>6, <2>1, ZenonT(60)
  <2> QED BY <2>2
<1>8. Data(w) = Payload(m)
  <2>1. \A i \in 1..Len(w) : w[i].data = Piece(m, i)
    BY <1>6
  <2>2. \/ Len(w) = Pieces(m)
        \/ Len(w) = Pieces(m) - 1 /\ m.len % MaxPayload = 0
    BY <1>2 DEF P
  <2> QED BY <1>1, <1>2, <2>1, <2>2, PiecesData
<1>9. ASSUME m.len % MaxPayload # 0 PROVE Carries(w, <<m>>)
  <2>1. Len(w) = P
    BY <1>2, <1>9
  <2>2. Holds(w, 0, m)
    <3>1. \A i \in 1..P : 0 + i = i
      BY <1>3
    <3> QED BY <1>6, <2>1, <3>1, Zenon DEF Holds, P
  <2> QED BY <1>2, <2>1, <2>2, CarriesOne DEF P
<1>First. ASSUME 1 \in 1..Len(w) PROVE w[1].num = s
  <2>1. w[1] = Frame((s + 1 - 1) % NumMod, Piece(m, 1))
    BY <1>2, <1>First
  <2>2. (s + 1 - 1) % NumMod = s
    <3>1. s + 1 - 1 = s
      OBVIOUS
    <3> QED BY <3>1, SmallMod
  <2> QED BY <2>1, <2>2, FrameFields
<1>10. ASSUME m.len < MaxPayload PROVE Len(w) = 1 /\ w[1].num = s
  <2>1. m.len \div MaxPayload = 0 /\ m.len % MaxPayload = m.len
    <3>1. m.len \in 0..(MaxPayload - 1) /\ m.len = 0 * MaxPayload + m.len
      BY <1>1, <1>10
    <3> QED BY <1>1, <3>1, DivUnique
  <2>2. Len(w) = 1
    <3>1. P = 1
      BY <2>1 DEF P, Pieces
    <3>2. m.len % MaxPayload # 0
      BY <1>1, <2>1
    <3> QED BY <1>2, <3>1, <3>2, ZenonT(60)
  <2> QED BY <1>First, <2>2
<1>11. SeqAfter(Payload(m), s) \in 0..(NumMod - 1)
  <2> DEFINE c == ChunkCount(Payload(m))
  <2>1. c = IF m.len % MaxPayload = 0 THEN P - 1 ELSE P
    BY <1>1, ChunkIsPiece DEF P
  <2>2. c \in Nat
    BY <1>3, <2>1
  <2> HIDE DEF c
  <2>3. s + c \in Nat
    BY <1>1, <2>2
  <2> QED BY <2>3, ModNum DEF SeqAfter, c
<1>12. \A i \in 1..Len(w) : \E k \in 1..Pieces(m) :
         w[i].data = Piece(m, k) /\ Piece(m, k) # <<>>
  BY <1>6, <1>7, Zenon DEF P
<1>13. Writes(Ms, m, s, w)
  <2>1. \A i \in 1..Len(w) : i \in 1..Pieces(m) /\ w[i].data = Piece(m, i)
    BY <1>6, Zenon DEF P
  <2> QED BY <1>2, <1>8, <1>9, <1>First, <1>10, <1>11, <1>12, <2>1, Zenon DEF Writes
<1> QED BY <1>13 DEF w

(* ... and what PacketReader makes of a wire that carries messages.        *)
TakesOut(Ms, r, ms) ==
  /\ Joined(r) \in 1..Len(r.wire) /\ Joined(r) = Pieces(ms[1])
  /\ ~IsFull(r.wire[Joined(r)]) /\ \A i \in 1..(Joined(r) - 1) : IsFull(r.wire[i])
  /\ ms # <<>> /\ ms[1] \in Ms
  /\ NextData(r) = Payload(ms[1]) /\ NextNum(r) \in 0..(NumMod - 1)
  /\ Consume(r).wire \in Wires(Ms) /\ Carries(Consume(r).wire, Tail(ms))
  /\ Consume(r).rem \in Nat /\ Consume(r).rem <= WireLen(Consume(r).wire)
  /\ Data(r.wire) = Payload(ms[1]) \o Data(Consume(r).wire)
  /\ \A i \in 1..Joined(r) : r.wire[i].data = Piece(ms[1], i)

(* When the reader holds a packet it can hand out, what PacketReader       *)
(* returns is the payload of the first message on the wire, all of it and  *)
(* nothing else, however many frames carried it and however much of the    *)
(* next messages has arrived behind it; what stays buffered carries the    *)
(* messages that follow.                                                   *)
THEOREM TakenIs ==
  ASSUME NEW Ms, Sized(Ms), NEW r, r.wire \in Wires(Ms), r.rem \in Nat,
         r.rem <= WireLen(r.wire), NEW ms \in Seq(Ms), Carries(r.wire, ms), Ready(r)
  PROVE  TakesOut(Ms, r, ms)
<1> DEFINE w == r.wire
           k == Joined(r)
           u == SubSeq(w, 1, k)
           v == SubSeq(w, k + 1, Len(w))
           B == Bytes(Ms)
<1>1. k \in Parsed(w, r.rem)
  BY SMTT(30) DEF Ready, Joined
<1>2. /\ k \in 1..Len(w) /\ ~IsFull(w[k]) /\ \A i \in 1..(k - 1) : IsFull(w[i])
      /\ WireLen(u) \in 0..r.rem
  BY <1>1, Zenon DEF Parsed
<1>3. /\ NextData(r) = Data(u) /\ NextNum(r) = w[k].num /\ Consume(r).wire = v
      /\ Consume(r).rem = r.rem - WireLen(u)
  BY ZenonT(30) DEF NextData, NextNum, Consume
<1> HIDE DEF w, k
<1>4. w \in Wires(Ms) /\ Carries(w, ms) /\ r.rem <= WireLen(w)
  BY DEF w
<1>5. /\ ms # <<>> /\ ms[1] \in Ms /\ k = Pieces(ms[1])
      /\ \A i \in 1..k : w[i].data = Piece(ms[1], i)
      /\ Data(u) = Payload(ms[1]) /\ Carries(v, Tail(ms))
  BY <1>2, <1>4, CarriesFirst, Zenon
<1>6. u \in Wires(Ms) /\ v \in Wires(Ms) /\ w = u \o v
  BY <1>2, <1>4, SplitWire, Zenon
<1> HIDE DEF u, v
<1>7. Data(w) = Data(u) \o Data(v) /\ WireLen(w) = WireLen(u) + WireLen(v)
  <2>1. u \in Seq(FramesOf(B)) /\ v \in Seq(FramesOf(B))
    BY <1>6, WireSeq
  <2> HIDE DEF B
  <2> QED BY <1>6, <2>1, DataConcat, WireLenConcat, ZenonT(60)
<1>8. WireLen(u) \in Nat /\ WireLen(v) \in Nat
  BY <1>6, WireSeq, WireLenType
<1>9. r.rem - WireLen(u) \in Nat /\ r.rem - WireLen(u) <= WireLen(v)
  <2>1. WireLen(u) \in 0..r.rem /\ r.rem <= WireLen(w)
    BY <1>2, <1>4
  <2>2. WireLen(w) = WireLen(u) + WireLen(v)
    BY <1>7
  <2> DEFINE x == WireLen(u)
             y == WireLen(v)
             z == WireLen(w)
             q == r.rem
  <2>3. x \in Nat /\ y \in Nat /\ x \in 0..q /\ q <= z /\ z = x + y
    BY <1>8, <2>1, <2>2, ZenonT(60)
  <2>4. q \in Int
    BY <1>2
  <2> HIDE DEF x, y, z, q
  <2>5. q - x \in Nat /\ q - x <= y
    BY <2>3, <2>4, SMTT(60)
  <2> QED BY <2>5, ZenonT(60) DEF x, y, q
<1>10. w[k].num \in 0..(NumMod - 1)
  BY <1>2, <1>4, WireSeq, FrameData, Zenon
<1>11. /\ NextData(r) = Payload(ms[1]) /\ NextNum(r) \in 0..(NumMod - 1)
       /\ Consume(r).wire \in Wires(Ms) /\ Carries(Consume(r).wire, Tail(ms))
       /\ Consume(r).rem \in Nat /\ Consume(r).rem <= WireLen(Consume(r).wire)
       /\ Data(w) = Payload(ms[1]) \o Data(Consume(r).wire)
  BY <1>3, <1>5, <1>6, <1>7, <1>9, <1>10, Zenon
<1> QED BY <1>2, <1>5, <1>11, Zenon DEF TakesOut, w, k
==============================================================================
