--------------------------- MODULE RequestProofs ----------------------------
(***************************************************************************)
(* The inductive invariant of CommandExchange, ExchangeInv, and why the    *)
(* steps with which requests are read and written keep it: a ledger of the *)
(* requests and answers that are on their way.  And the reader's buffer:   *)
(* PacketReader::next_async always has room to read into.                  *)
(***************************************************************************)
EXTENDS FramingProofs

(* More about frames.                                                      *)

(* The bytes of a wire start with those of its first frame.                *)
LEMMA DataOne ==
  ASSUME NEW B, NEW w \in Seq(FramesOf(B)), Len(w) = 1
  PROVE  Data(w) = w[1].data
<1>0. 1 \in 1..Len(w)
  OBVIOUS
<1> DEFINE x == w[1].data
<1>1. x \in Seq(B)
  BY <1>0, FrameData
<1> HIDE DEF x
<1> DEFINE g == [k \in 0..1 |-> IF k = 0 THEN <<>> ELSE x]
<1>2. g[0] = <<>> /\ g[1] = x
  OBVIOUS
<1> HIDE DEF g
<1>3. <<>> \o x = x
  BY <1>1
<1>4. ASSUME NEW k \in 1..Len(w) PROVE g[k] = g[k - 1] \o w[k].data
  <2>1. k = 1 /\ k - 1 = 0
    OBVIOUS
  <2> QED BY <1>2, <1>3, <2>1, Zenon DEF x
<1>5. DataSums(w, g)
  BY <1>2, <1>4, Zenon DEF DataSums
<1>6. Data(w) = g[Len(w)]
  BY <1>5, DataIs, Zenon
<1> QED BY <1>2, <1>6 DEF x

(* What a packet starts with.                                              *)
LEMMA FirstByte ==
  ASSUME NEW Ms, NEW w \in Wires(Ms), NEW k \in 1..Len(w), w[1].data # <<>>
  PROVE  LET d == Data(SubSeq(w, 1, k))
         IN  d # <<>> /\ d[1] = w[1].data[1] /\ d[1][1] \in Ms
<1> DEFINE B == Bytes(Ms)
           v == SubSeq(w, 1, k)
           v1 == SubSeq(v, 1, 1)
           v2 == SubSeq(v, 1 + 1, Len(v))
           x == w[1].data
           y == Data(v2)
<1>0. Len(w) \in Nat /\ 1 \in 1..Len(w)
  BY WireFinite
<1>1. v \in Wires(Ms) /\ Len(v) = k /\ \A i \in 1..k : v[i] = w[i]
  BY SplitWire
<1>2. 1 \in 1..Len(v) /\ 1 \in 1..k
  BY <1>0, <1>1
<1> HIDE DEF v
<1>3. /\ v1 \in Wires(Ms) /\ Len(v1) = 1 /\ v2 \in Wires(Ms) /\ v = v1 \o v2
      /\ \A i \in 1..1 : v1[i] = v[i]
  BY <1>1, <1>2, SplitWire
<1>4. v1[1] = w[1]
  <2>1. 1 \in 1..1
    OBVIOUS
  <2> QED BY <1>1, <1>2, <1>3, <2>1
<1> HIDE DEF v1, v2
<1>5. Data(v) = Data(v1) \o y /\ Data(v1) = x
  <2>1. v1 \in Seq(FramesOf(B)) /\ v2 \in Seq(FramesOf(B))
    BY <1>3, WireSeq
  <2>2. Data(v1 \o v2) = Data(v1) \o Data(v2)
    BY <2>1, DataConcat
  <2>3. Data(v1) = v1[1].data
    BY <1>3, <2>1, DataOne
  <2> QED BY <1>3, <1>4, <2>2, <2>3
<1>6. y \in Seq(B)
  BY <1>3, WireSeq, DataType
<1>7. x \in Seq(B) /\ x # <<>>
  BY <1>0, WireSeq, FrameData
<1> HIDE DEF x, y, B
<1>8. x \o y # <<>> /\ (x \o y)[1] = x[1] /\ x[1] \in B
  BY <1>6, <1>7
<1>9. x[1][1] \in Ms
  BY <1>8 DEF B, Bytes
<1> QED BY <1>5, <1>8, <1>9 DEF x, v

(* Pieces.                                                                 *)
LEMMA PieceEnds ==
  ASSUME NEW Ms, Sized(Ms), NEW m \in Ms, NEW k \in 1..Pieces(m), Piece(m, k) # <<>>
  PROVE  /\ Piece(m, k)[1][1] = m /\ Piece(m, k)[1] = <<m, (k - 1) * MaxPayload + 1>>
         /\ Piece(m, k)[Len(Piece(m, k))] = <<m, (k - 1) * MaxPayload + PieceLen(m, k)>>
<1> DEFINE off == (k - 1) * MaxPayload
           n == PieceLen(m, k)
           p == Piece(m, k)
<1>1. off \in Nat /\ n \in Nat
  BY PieceSizes DEF Sized
<1>2. p \in Seq(Bytes(Ms)) /\ Len(p) = n /\ \A j \in 1..n : p[j] = <<m, off + j>>
  BY <1>1, PartType, ZenonT(30) DEF Piece
<1>3. n > 0
  <2> HIDE DEF p, n
  <2> QED BY <1>1, <1>2 DEF p
<1>4. 1 \in 1..n /\ n \in 1..n
  BY <1>1, <1>3
<1>5. p[1] = <<m, off + 1>> /\ p[n] = <<m, off + n>>
  BY <1>2, <1>4
<1>6. p[Len(p)] = p[n]
  BY <1>2
<1> QED BY <1>5, <1>6

(* Every frame on a wire that carries messages is a piece of one of them.  *)
LEMMA CarriesPieces ==
  ASSUME NEW Ms, Sized(Ms), NEW w \in Wires(Ms), NEW ms \in Seq(Ms), Carries(w, ms),
         NEW i \in 1..Len(w)
  PROVE  \E j \in 1..Len(ms) : \E k \in 1..Pieces(ms[j]) : w[i].data = Piece(ms[j], k)
<1>1. PICK st : Marks(w, ms, st)
  BY DEF Carries
<1> DEFINE n == Len(ms)
           S == {j \in 0..n : i <= st[j]}
<1>2. n \in Nat /\ Len(w) \in Nat
  BY WireFinite
<1>3. /\ st \in [0..n -> 0..Len(w)] /\ st[0] = 0 /\ st[n] = Len(w)
      /\ \A j \in 1..n : st[j] = st[j - 1] + Pieces(ms[j]) /\ Holds(w, st[j - 1], ms[j])
  BY <1>1, Zenon DEF Marks
<1>4. \A j \in 1..n : ms[j] \in Ms
  OBVIOUS
<1> HIDE DEF n
<1>5. S \in SUBSET Nat /\ n \in S
  BY <1>2, <1>3
<1>6. PICK j \in S : \A y \in S : j <= y
  BY <1>5, Least, Zenon
<1>7. j \in 1..n /\ j - 1 \in 0..n /\ j \in 0..n /\ i <= st[j]
  BY <1>2, <1>3, <1>6
<1>8. ~(i <= st[j - 1])
  BY <1>6, <1>7
<1> HIDE DEF S
<1>9. st[j - 1] \in Nat /\ Pieces(ms[j]) \in Nat /\ st[j] = st[j - 1] + Pieces(ms[j])
  <2>1. st[j - 1] \in 0..Len(w) /\ st[j] = st[j - 1] + Pieces(ms[j]) /\ ms[j] \in Ms
    BY <1>3, <1>4, <1>7, Zenon
  <2>2. Pieces(ms[j]) \in Nat
    BY <2>1, PieceSizes DEF Sized
  <2> QED BY <1>2, <2>1, <2>2
<1> DEFINE k == i - st[j - 1]
<1>10. k \in 1..Pieces(ms[j]) /\ st[j - 1] + k = i
  BY <1>7, <1>8, <1>9
<1>11. Holds(w, st[j - 1], ms[j])
  BY <1>3, <1>7
<1>12. w[st[j - 1] + k].data = Piece(ms[j], k)
  <2> HIDE DEF k
  <2> QED BY <1>10, <1>11, Zenon DEF Holds
<1>13. w[i].data = Piece(ms[j], k)
  BY <1>10, <1>12
<1> HIDE DEF k
<1> QED BY <1>7, <1>10, <1>13, Zenon DEF n

(* A message of one frame is written as it was read.                       *)
LEMMA SameFrame ==
  ASSUME NEW Ms, Sized(Ms), NEW m \in Ms, Pieces(m) = 1, NEW w \in Wires(Ms), w # <<>>,
         w[1].data = Piece(m, 1)
  PROVE  EndPacket(Payload(m), w[1].num) = SubSeq(w, 1, 1)
<1> DEFINE FB == FramesOf(Bytes(Ms))
           v == EndPacket(Payload(m), w[1].num)
           u == SubSeq(w, 1, 1)
<1>0. m.len \in Nat \ {0} /\ MaxPayload \in Nat \ {0}
  BY FramesAssumption DEF Sized
<1>1. m.len < MaxPayload
  <2>1. m.len \div MaxPayload = 0
    <3>1. m.len \div MaxPayload \in Nat
      BY <1>0, DivMod
    <3> QED BY <3>1 DEF Pieces
  <2>2. m.len % MaxPayload \in 0..(MaxPayload - 1) /\ m.len = 0 * MaxPayload + (m.len % MaxPayload)
    BY <1>0, <2>1, DivMod, Zenon
  <2> QED BY <1>0, <2>2, SMTT(60)
<1>2. w \in Seq(FB)
  BY WireSeq
<1>3. 1 \in 1..Len(w)
  <2> HIDE DEF FB
  <2> QED BY <1>2
<1>4. w[1].num \in 0..(NumMod - 1) /\ w[1] = Frame(w[1].num, w[1].data)
  BY <1>2, <1>3, FrameData
<1>5. /\ v \in Wires(Ms) /\ Len(v) = 1 /\ v[1].num = w[1].num
      /\ \E k \in 1..Pieces(m) : v[1].data = Piece(m, k)
  <2>1. /\ v \in Wires(Ms) /\ Len(v) = 1 /\ v[1].num = w[1].num
        /\ \A i \in 1..Len(v) : \E k \in 1..Pieces(m) :
                  v[i].data = Piece(m, k) /\ Piece(m, k) # <<>>
    <3>1. Writes(Ms, m, w[1].num, v)
      BY <1>4, WrittenIs
    <3> HIDE DEF v
    <3> QED BY <1>1, <3>1, ZenonT(30) DEF Writes
  <2>2. 1 \in 1..Len(v)
    BY <2>1
  <2> HIDE DEF v
  <2> QED BY <2>1, <2>2, Zenon
<1>6. v[1].data = Piece(m, 1)
  <2>1. PICK k \in 1..Pieces(m) : v[1].data = Piece(m, k)
    BY <1>5
  <2>2. k = 1
    OBVIOUS
  <2> QED BY <2>1, <2>2
<1> HIDE DEF v
<1>7. v \in Seq(FB)
  BY <1>5, WireSeq
<1>8. v[1] = w[1]
  <2>1. 1 \in 1..Len(v)
    BY <1>5
  <2>2. v[1] = Frame(v[1].num, v[1].data)
    BY <1>7, <2>1, FrameData
  <2> QED BY <1>4, <1>5, <1>6, <2>2, ZenonT(60)
<1>9. u \in Seq(FB) /\ Len(u) = 1 /\ u[1] = w[1]
  <2> HIDE DEF FB
  <2> QED BY <1>2, <1>3
<1> HIDE DEF u, FB
<1>10. \A i \in 1..Len(v) : v[i] = u[i]
  BY <1>5, <1>8, <1>9, SMTT(60)
<1>11. v = u
  BY <1>5, <1>7, <1>9, <1>10, SeqEqual, ZenonT(60)
<1> QED BY <1>11 DEF u, v

----------------------------------------------------------------------------
(* Every message has at least one byte.                                    *)
LEMMA MessagesSized == Sized(Messages) /\ Sized(RequestMsgs)
BY DEF Sized, Messages, RequestMsgs

----------------------------------------------------------------------------
NumAfter(n, v) == (n + 1 + Len(v)) % NumMod

AnswerStep(a, n) ==
  [k \in Nat |-> [v \in Wires(Messages) |->
     IF k \in 1..Len(a) THEN v \o Cut(Payload(a[k]), NumAfter(n, v)) ELSE v]]

AnswerSums(a, n, f) ==
  f[0] = <<>> /\ \A k \in 1..Len(a) : f[k] = f[k - 1] \o Cut(Payload(a[k]), NumAfter(n, f[k - 1]))

----------------------------------------------------------------------------
(* A reader has the four fields, and the bytes in its buffer fit into it.  *)
BufferOK(r) ==
  /\ r = [wire |-> r.wire, rem |-> r.rem, cap |-> r.cap, size |-> r.size]
  /\ r.rem \in Nat /\ r.cap \in Nat /\ r.rem <= r.cap
  /\ r.size \in {SmallBuf, LargeBuf}

BufferInv == BufferOK(cin) /\ BufferOK(bin)

(* A buffer that is nearly full is made at least twice as long as what is  *)
(* in it, or as long as the non-zero buffer_size.                          *)
LEMMA GrownHasRoom ==
  ASSUME NEW r, BufferOK(r)
  PROVE  /\ Grown(r) \in Nat
         /\ Grown(r) - r.rem > 0
<1>1. r.size \in Nat /\ r.size > 0
  BY ReaderAssumption DEF BufferOK
<1> QED
  BY <1>1 DEF BufferOK, Grown

(* The buffers are empty at first, ...                                     *)
LEMMA BufferInit == Init => BufferInv
<1>1. BufferOK(NewReader)
  BY DEF BufferOK, NewReader
<1> QED
  BY <1>1 DEF Init, BufferInv

(* ... and every step keeps their bytes within them.                       *)
LEMMA BufferStep == BufferInv /\ [Next]_vars => BufferInv'
(* Neither reading bytes, ...                                              *)
<1>FilledOK.
      ASSUME NEW r, BufferOK(r), NEW n \in Nat, n <= Room(r)
      PROVE  BufferOK(Filled(r, n))
  <2> USE <1>FilledOK
  <2>1. Grown(r) \in Nat /\ r.rem + n \in Nat /\ r.rem + n <= Grown(r)
    BY GrownHasRoom DEF Room, BufferOK
  <2>2. Filled(r, n) = [wire |-> r.wire, rem |-> r.rem + n, cap |-> Grown(r),
                        size |-> LargeBuf]
    BY DEF Filled
  <2> QED
    BY <2>1, <2>2 DEF BufferOK
(* ... nor taking a packet, ...                                            *)
<1>ConsumeOK.
      ASSUME NEW r, BufferOK(r), Ready(r)
      PROVE  BufferOK(Consume(r))
  <2> USE <1>ConsumeOK
  <2> DEFINE taken == WireLen(SubSeq(r.wire, 1, Joined(r)))
  <2>1. Joined(r) \in Parsed(r.wire, r.rem)
    BY DEF Ready, Joined
  <2>2. taken \in 0..r.rem
    BY <2>1 DEF Parsed
  <2>3. r.rem - taken \in Nat
    <3> HIDE DEF taken
    <3> QED
      BY <2>2 DEF BufferOK
  <2>4. Consume(r) = [wire |-> SubSeq(r.wire, Joined(r) + 1, Len(r.wire)),
                      rem |-> r.rem - taken, cap |-> r.rem - taken,
                      size |-> SmallBuf]
    BY DEF Consume
  <2> HIDE DEF taken
  <2> QED
    BY <2>3, <2>4 DEF BufferOK
(* ... nor what the peer sends disturbs it.                                *)
<1>WireOK.
      ASSUME NEW r, BufferOK(r), NEW w
      PROVE  BufferOK([r EXCEPT !.wire = w])
  <2> USE <1>WireOK
  <2>1. [r EXCEPT !.wire = w] =
          [wire |-> w, rem |-> r.rem, cap |-> r.cap, size |-> r.size]
    BY DEF BufferOK
  <2> QED
    BY <2>1 DEF BufferOK
(* A forwarder takes a packet and leaves the client's reader alone.        *)
<1>ForwardOK.
      ASSUME BufferInv, NEW step, Forward(step)
      PROVE  BufferInv'
  <2> USE <1>ForwardOK
  <2>1. Ready(bin) /\ bin' = Consume(bin) /\ cin' = cin
    BY DEF Forward, Takes
  <2>2. BufferOK(Consume(bin))
    BY <2>1, <1>ConsumeOK DEF BufferInv
  <2> QED
    BY <2>1, <2>2 DEF BufferInv
<1> SUFFICES ASSUME BufferInv, [Next]_vars
             PROVE  BufferInv'
  OBVIOUS
<1> USE DEF BufferInv
<1>1. ASSUME NEW r \in Requests, Ask(r[1], r[2])
      PROVE  BufferInv'
  <2>1. PICK w : cin' = [cin EXCEPT !.wire = w]
    BY <1>1, Zenon DEF Ask
  <2>2. bin' = bin
    BY <1>1 DEF Ask
  <2> QED
    BY <2>1, <2>2, <1>WireOK, Zenon
<1>2. CASE Serve
  <2>1. PICK w : bin' = [bin EXCEPT !.wire = w]
    BY <1>2, Zenon DEF Serve
  <2>2. cin' = cin
    BY <1>2 DEF Serve
  <2> QED
    BY <2>1, <2>2, <1>WireOK
<1>3. CASE ReadClient
  <2>1. PICK n \in 1..InFlight(cin) : n <= Room(cin) /\ cin' = Filled(cin, n)
    BY <1>3 DEF ReadClient
  <2>2. n \in Nat
    BY <2>1
  <2>3. BufferOK(cin')
    BY <2>1, <2>2, <1>FilledOK
  <2> QED
    BY <1>3, <2>3 DEF ReadClient
<1>4. CASE ReadBackend
  <2>1. PICK n \in 1..InFlight(bin) : n <= Room(bin) /\ bin' = Filled(bin, n)
    BY <1>4 DEF ReadBackend
  <2>2. n \in Nat
    BY <2>1
  <2>3. BufferOK(bin')
    BY <2>1, <2>2, <1>FilledOK
  <2> QED
    BY <1>4, <2>3 DEF ReadBackend
<1>5. CASE OnCom \/ OnQuit
  <2>1. Ready(cin) /\ cin' = Consume(cin) /\ bin' = bin
    BY <1>5 DEF OnCom, OnQuit, Takes
  <2> QED
    BY <2>1, <1>ConsumeOK
<1>6. CASE ForwardStep
  <2>1. CASE ForwardReset
    <3>1. Ready(bin) /\ bin' = Consume(bin) /\ cin' = cin
      BY <2>1 DEF ForwardReset, Takes
    <3> QED
      BY <3>1, <1>ConsumeOK
  <2>2. CASE ~ForwardReset
    <3>1. \E step \in Reading : Forward(step)
      BY <1>6, <2>2 DEF ForwardStep, ForwardFirst, ForwardCols, ForwardRows,
         ForwardFetch, ForwardPrepare, ForwardDefs, ForwardGeneric, Reading
    <3> QED
      BY <3>1, <1>ForwardOK
  <2> QED
    BY <2>1, <2>2
<1>7. CASE UNCHANGED vars
  BY <1>7 DEF vars
<1> QED
  BY <1>1, <1>2, <1>3, <1>4, <1>5, <1>6, <1>7, ZenonT(60) DEF Next, ProxyStep

(* The reader never offers TCP an empty buffer, whose result next_async    *)
(* would take for the end of the stream (packet_reader.rs:163-178), for    *)
(* every pair of buffer sizes, every message and every way the bytes       *)
(* arrive.                                                                 *)
THEOREM ReaderHasRoom == Spec => []RoomToRead
<1>1. BufferInv => RoomToRead
  BY GrownHasRoom DEF BufferInv, RoomToRead, Room
<1> QED
  BY <1>1, BufferInit, BufferStep, PTL DEF Spec

----------------------------------------------------------------------------
ClientMsgs == {m \in Messages : m.head \in Commands}

(* The frames the client sends: the one with the last byte of a request is *)
(* numbered as the last frame of it.                                       *)
RequestFrames ==
  {f \in FramesOf(Bytes(RequestMsgs)) :
     LET b == f.data[Len(f.data)]
     IN  f.data # <<>> /\ b[2] = b[1].len /\ ~Exact(b[1].len) => f.num = LastNum(b[1])}

(* The frames the server gets: none is empty, and the first one of a       *)
(* request that the client sent has that number.                           *)
FirstFrame(f, m) == f.data[1][1] = m /\ f.data[1][2] = 1

WrittenFrames ==
  {f \in FramesOf(Bytes(RequestMsgs)) :
     /\ f.data # <<>>
     /\ \A m \in ClientMsgs : FirstFrame(f, m) /\ ~Exact(m.len) => f.num = LastNum(m)}

(* The frames the client gets: each is a piece of a message.               *)
AnswerPieces ==
  {f \in FramesOf(Bytes(Messages)) :
     \E m \in Messages : \E k \in 1..Pieces(m) : f.data = Piece(m, k)}

Types ==
  /\ deof \in BOOLEAN /\ bdeof \in BOOLEAN /\ at \in Steps
  /\ bnum \in 0..(NumMod - 1)
  /\ cin.wire \in Seq(RequestFrames) /\ cin.rem <= WireLen(cin.wire)
  /\ bin.wire \in Wires(Messages) /\ bin.rem <= WireLen(bin.wire)
  /\ bout \in Seq(WrittenFrames) /\ got \in Seq(AnswerPieces)
  /\ sent \in Wires(Messages) /\ asked \in Seq(ClientMsgs)

(* What the client got and what is on its way to it is what was sent.      *)
Flow ==
  /\ at # "left" => Data(got) \o Data(bin.wire) = Data(sent)
  /\ at # "left" /\ (\A i \in 1..Len(sent) : ~IsFull(sent[i])) => got \o bin.wire = sent

(* What the server is to be asked: a COM_QUIT that has been read is        *)
(* replaced.                                                               *)
Leaving == at \in {"reset", "left"}

Due == IF Leaving THEN [asked EXCEPT ![Len(asked)] = ResetMsg] ELSE asked

QuitIsLast ==
  /\ \A i \in 1..Len(asked) : asked[i].head = "quit" => i = Len(asked)
  /\ Leaving => asked # <<>> /\ asked[Len(asked)].head = "quit"

(* Between two answers nothing is on the way but requests without an       *)
(* answer.  While a forwarder reads, either the request is on its way, or  *)
(* the rest of the answer is and the forwarder will stop at its end, or    *)
(* there is no answer.                                                     *)
Answering(bs, ms) ==
  \/ /\ at \notin Reading /\ ms = <<>>
     /\ \A i \in 1..Len(bs) : bs[i].head = "close"
  \/ /\ at \in Reading /\ ms = <<>> /\ bs # <<>>
     /\ \A i \in 1..(Len(bs) - 1) : bs[i].head = "close"
     /\ bs[Len(bs)].head # "close" /\ at = Sends(bs[Len(bs)].head)
  \/ at \in Reading /\ bs = <<>> /\ Stops(deof, <<at, left>>, ms)
  \/ at = "one" /\ bs = <<>> /\ ms = <<>>

(* The writer's number follows from the last one of the requests x that    *)
(* on_com has read, and that of a COM_RESET_CONNECTION with it.            *)
ResetNumbered ==
  \A i \in 1..Len(bout) :
    bout[i].data[1][1].head = "reset" /\ bout[i].data[1][2] = 1 => bout[i].num = ResetNum

Numbered(x) ==
  /\ ~Leaving => bnum = IF x = <<>> THEN 0 ELSE NumberAfter(x[Len(x)])
  /\ Leaving => ResetNumbered

(* bs and cs are the requests on the way to the server and from the        *)
(* client, sv those the server has taken.                                  *)
Queue(cs, bs, sv) ==
  /\ QuitIsLast
  /\ Carries(bout, bs)
  /\ served = [i \in 1..Len(sv) |-> Payload(sv[i])]
  /\ (sv \o bs) \o cs = Due
  /\ \A i \in 1..Len(sv \o bs) : (sv \o bs)[i].head # "quit"
  /\ Numbered(sv \o bs)

(* ms are the messages on the way from the server.                         *)
Ledger(cs, bs, sv, ms) ==
  /\ cs \in Seq(ClientMsgs) /\ bs \in Seq(RequestMsgs) /\ sv \in Seq(RequestMsgs)
  /\ ms \in Seq(Messages)
  /\ Carries(cin.wire, cs) /\ Carries(bin.wire, ms)
  /\ WholeRequests => /\ Queue(cs, bs, sv)
                      /\ Agreed /\ ~wrapped => Answering(bs, ms)

LedgerInv == \E cs, bs, sv, ms : Ledger(cs, bs, sv, ms)

ExchangeInv == BufferInv /\ Types /\ Flow /\ LedgerInv

(* The frames of each direction are frames of requests or of messages.     *)
LEMMA FramesTyped ==
  /\ Seq(RequestFrames) \subseteq Wires(RequestMsgs)
  /\ Seq(WrittenFrames) \subseteq Wires(RequestMsgs)
  /\ Seq(AnswerPieces) \subseteq Wires(Messages)
  /\ ClientMsgs \subseteq RequestMsgs /\ RequestMsgs \subseteq Messages
(* Sequences over a subset.                                                *)
<1>SeqsOfSubset.
      ASSUME NEW A, NEW B, A \subseteq B
      PROVE  Seq(A) \subseteq Seq(B)
  BY <1>SeqsOfSubset
<1>1. /\ RequestFrames \subseteq FramesOf(Bytes(RequestMsgs))
      /\ WrittenFrames \subseteq FramesOf(Bytes(RequestMsgs))
      /\ AnswerPieces \subseteq FramesOf(Bytes(Messages))
  BY Zenon DEF RequestFrames, WrittenFrames, AnswerPieces
<1>2. ClientMsgs \subseteq RequestMsgs /\ RequestMsgs \subseteq Messages
  BY DEF ClientMsgs, RequestMsgs
<1> QED BY <1>1, <1>2, <1>SeqsOfSubset, Zenon DEF Wires

(* A wire all of whose frames are in a set.                                *)
LEMMA WireIn ==
  ASSUME NEW Ms, NEW w \in Wires(Ms), NEW F, \A i \in 1..Len(w) : w[i] \in F
  PROVE  w \in Seq(F)
<1> DEFINE FB == FramesOf(Bytes(Ms))
<1>1. w \in Seq(FB)
  BY WireSeq
<1> HIDE DEF FB
<1> QED BY <1>1

(* The number of the last frame of a request.                              *)
LEMMA LastNumIs ==
  ASSUME NEW m \in RequestMsgs
  PROVE  LastNum(m) = (Pieces(m) - 1) % NumMod
<1>1. m.len \in Nat \ {0} /\ 0 \in 0..(NumMod - 1)
  BY MessagesSized, FramesAssumption DEF Sized
<1>2. Len(Cut(Payload(m), 0)) = Pieces(m)
  BY <1>1, CutIs, ZenonT(60)
<1> QED BY <1>2 DEF LastNum

(* The frames of a request are as the client sends them.                   *)
LEMMA RequestCut ==
  ASSUME NEW m \in RequestMsgs
  PROVE  Cut(Payload(m), 0) \in Seq(RequestFrames)
<1> DEFINE w == Cut(Payload(m), 0)
           P == Pieces(m)
<1>0. m.len \in Nat \ {0} /\ MaxPayload \in Nat \ {0} /\ 0 \in 0..(NumMod - 1)
  BY MessagesSized, FramesAssumption DEF Sized
<1>1. /\ w \in Wires(RequestMsgs) /\ Len(w) = P
      /\ \A k \in 1..P : w[k].data = Piece(m, k)
      /\ m.len % MaxPayload # 0 => w[P].num = (0 + P - 1) % NumMod
  BY <1>0, CutIs, ZenonT(60)
<1>2. P \in Nat \ {0} /\ \A i \in 1..P : i < P => PieceLen(m, i) = MaxPayload
  BY <1>0, PieceSizes
<1>3. LastNum(m) = (P - 1) % NumMod
  BY LastNumIs
<1> HIDE DEF w, P
<1>4. ASSUME NEW i \in 1..Len(w) PROVE w[i] \in RequestFrames
  <2> DEFINE b == w[i].data[Len(w[i].data)]
  <2>1. w[i] \in FramesOf(Bytes(RequestMsgs))
    BY <1>1, WireSeq, FrameData
  <2>2. ASSUME w[i].data # <<>>, b[2] = b[1].len, ~Exact(b[1].len)
        PROVE  w[i].num = LastNum(b[1])
    <3>1. i \in 1..P /\ w[i].data = Piece(m, i)
      BY <1>1, <1>4
    <3>2. b = <<m, (i - 1) * MaxPayload + PieceLen(m, i)>>
      BY <2>2, <3>1, MessagesSized, PieceEnds, ZenonT(60) DEF P
    <3> HIDE DEF b
    <3>3. b[1] = m /\ (i - 1) * MaxPayload + PieceLen(m, i) = m.len /\ m.len % MaxPayload # 0
      BY <2>2, <3>2 DEF Exact
    <3>4. ASSUME i < P PROVE FALSE
      <4>1. (i - 1) * MaxPayload + MaxPayload = m.len
        BY <1>2, <3>1, <3>3, <3>4
      <4>2. i \in Nat /\ m.len = i * MaxPayload + 0 /\ 0 \in 0..(MaxPayload - 1)
        BY <1>0, <1>2, <3>1, <4>1
      <4> QED BY <1>0, <3>3, <4>2, DivUnique, ZenonT(60)
    <3>5. i = P
      BY <1>2, <3>1, <3>4
    <3>6. 0 + P - 1 = P - 1
      BY <1>2
    <3> QED BY <1>1, <1>3, <3>3, <3>5, <3>6, ZenonT(60)
  <2> QED BY <2>1, <2>2, Zenon DEF RequestFrames
<1>5. w \in Seq(RequestFrames)
  BY <1>1, <1>4, WireIn
<1> QED BY <1>5 DEF w

(* What the proxy writes to the server, ...                                *)
LEMMA RequestWritten ==
  ASSUME NEW m \in RequestMsgs, NEW s \in 0..(NumMod - 1),
         m \in ClientMsgs /\ ~Exact(m.len) => s = LastNum(m)
  PROVE  EndPacket(Payload(m), s) \in Seq(WrittenFrames)
<1> DEFINE w == EndPacket(Payload(m), s)
<1>0. Writes(RequestMsgs, m, s, w) /\ MaxPayload \in Nat \ {0}
  BY MessagesSized, WrittenIs, FramesAssumption
<1> HIDE DEF w
<1>1. /\ w \in Wires(RequestMsgs)
      /\ \A i \in 1..Len(w) : i \in 1..Pieces(m) /\ w[i].data = Piece(m, i)
      /\ \A i \in 1..Len(w) : \E k \in 1..Pieces(m) : w[i].data = Piece(m, k) /\ Piece(m, k) # <<>>
      /\ 1 \in 1..Len(w) => w[1].num = s
  BY <1>0, Zenon DEF Writes
<1>2. ASSUME NEW i \in 1..Len(w) PROVE w[i] \in WrittenFrames
  <2>1. w[i] \in FramesOf(Bytes(RequestMsgs))
    BY <1>1, WireSeq, FrameData
  <2>2. i \in 1..Pieces(m) /\ w[i].data = Piece(m, i) /\ Piece(m, i) # <<>>
    BY <1>1, Zenon
  <2>3. w[i].data # <<>> /\ w[i].data[1] = <<m, (i - 1) * MaxPayload + 1>>
    BY <2>2, MessagesSized, PieceEnds, ZenonT(60)
  <2>4. ASSUME NEW c \in ClientMsgs, FirstFrame(w[i], c), ~Exact(c.len)
        PROVE  w[i].num = LastNum(c)
    <3>1. c = m /\ (i - 1) * MaxPayload + 1 = 1
      BY <2>3, <2>4 DEF FirstFrame
    <3>2. Pieces(m) \in Nat
      BY PieceSizes, MessagesSized DEF Sized
    <3>3. i = 1
      <4>1. i - 1 \in Nat /\ 0 \in Nat /\ MaxPayload \in Nat
        BY <1>0, <2>2, <3>2
      <4>2. ASSUME 0 < i - 1 PROVE FALSE
        <5>1. 0 * MaxPayload + MaxPayload <= (i - 1) * MaxPayload
          BY <4>1, <4>2, TimesGrows, ZenonT(60)
        <5> DEFINE y == (i - 1) * MaxPayload
        <5>2. y \in Nat /\ 0 * MaxPayload = 0
          BY <4>1
        <5>3. 0 * MaxPayload + MaxPayload <= y /\ y + 1 = 1
          BY <3>1, <5>1
        <5> HIDE DEF y
        <5> QED BY <1>0, <5>2, <5>3
      <4>3. i \in Nat
        BY <2>2, <3>2
      <4> QED BY <4>1, <4>2, <4>3
    <3>4. w[1].num = s
      BY <1>1, <1>2, <3>3
    <3> QED BY <2>4, <3>1, <3>3, <3>4
  <2> QED BY <2>1, <2>3, <2>4, Zenon DEF WrittenFrames
<1>3. w \in Seq(WrittenFrames)
  BY <1>1, <1>2, WireIn
<1> QED BY <1>3 DEF w

----------------------------------------------------------------------------
(* A message goes from one queue to the next.                              *)
Moved(a, b, c) == (a \o (b \o <<c[1]>>)) \o Tail(c) = (a \o b) \o c

(* Nothing is lost or reordered by that.                                   *)
LEMMA Moves ==
  ASSUME NEW S, NEW a \in Seq(S), NEW b \in Seq(S), NEW c \in Seq(S), c # <<>>
  PROVE  /\ c[1] \in S /\ Tail(c) \in Seq(S) /\ c = <<c[1]>> \o Tail(c)
         /\ Moved(a, b, c)
<1>1. 1 \in 1..Len(c) /\ c[1] \in S /\ Tail(c) \in Seq(S) /\ <<c[1]>> \in Seq(S)
  BY OneSeq
<1>2. c = <<c[1]>> \o Tail(c)
  <2>1. <<c[1]>> \o Tail(c) \in Seq(S) /\ Len(<<c[1]>> \o Tail(c)) = Len(c)
    BY <1>1, ConcatProperties, OneSeq, HeadTailProperties, SMTT(60)
  <2>2. ASSUME NEW i \in 1..Len(c) PROVE c[i] = (<<c[1]>> \o Tail(c))[i]
    BY <1>1, ConcatProperties, OneSeq, HeadTailProperties, SMTT(60)
  <2> QED BY <2>1, <2>2, SeqEqual
<1> DEFINE x == <<c[1]>>
           t == Tail(c)
<1> HIDE DEF x, t
<1>3. x \in Seq(S) /\ t \in Seq(S) /\ c = x \o t
  BY <1>1, <1>2, ZenonT(60) DEF x, t
<1>4. (a \o (b \o x)) \o t = (a \o b) \o c
  <2>1. a \o b \in Seq(S)
    OBVIOUS
  <2>2. a \o (b \o x) = (a \o b) \o x
    BY <1>3, SMTT(60)
  <2> DEFINE y == a \o b
  <2> HIDE DEF y
  <2>3. (y \o x) \o t = y \o (x \o t)
    <3>1. y \in Seq(S)
      BY <2>1 DEF y
    <3> QED BY <1>3, <3>1, SMTT(60)
  <2> QED BY <1>3, <2>2, <2>3 DEF y
<1> QED BY <1>1, <1>2, <1>4, ZenonT(60) DEF Moved, x, t

(* The state the exchange starts in.                                       *)
LEMMA ExchangeInit == Init => ExchangeInv
<1> SUFFICES ASSUME Init PROVE ExchangeInv
  OBVIOUS
<1>0. /\ NewReader.wire = <<>> /\ NewReader.rem = 0 /\ WireLen(<<>>) = 0
      /\ Data(<<>>) = <<>>
  BY WireLenEmpty, DataEmpty DEF NewReader
<1>1. Types
  <2>1. PICK f \in Flags : deof = f[1] /\ bdeof = f[2]
    BY DEF Init
  <2>2. deof \in BOOLEAN /\ bdeof \in BOOLEAN
    BY <2>1, ExchangeAssumption
  <2>3. at \in Steps /\ bnum \in 0..(NumMod - 1)
    BY FramesAssumption DEF Init, Steps
  <2>4. \A S : <<>> \in Seq(S)
    OBVIOUS
  <2>5. /\ cin.wire = <<>> /\ cin.rem = 0 /\ bin.wire = <<>> /\ bin.rem = 0
        /\ bout = <<>> /\ got = <<>> /\ sent = <<>> /\ asked = <<>>
    BY <1>0 DEF Init
  <2>6. /\ cin.wire \in Seq(RequestFrames) /\ bin.wire \in Wires(Messages)
        /\ bout \in Seq(WrittenFrames) /\ got \in Seq(AnswerPieces)
        /\ sent \in Wires(Messages) /\ asked \in Seq(ClientMsgs)
    BY <2>4, <2>5, Zenon DEF Wires
  <2>7. cin.rem <= WireLen(cin.wire) /\ bin.rem <= WireLen(bin.wire)
    BY <1>0, <2>5
  <2> QED BY <2>2, <2>3, <2>6, <2>7, ZenonT(60) DEF Types
<1>2. Flow
  <2>1. got = <<>> /\ bin.wire = <<>> /\ sent = <<>> /\ <<>> \o <<>> = <<>>
    BY <1>0 DEF Init
  <2> QED BY <1>0, <2>1, Zenon DEF Flow
<1>3. Ledger(<<>>, <<>>, <<>>, <<>>)
  <2>1. at = "command" /\ asked = <<>> /\ bout = <<>> /\ served = <<>>
    BY DEF Init
  <2>2. QuitIsLast
    BY <2>1 DEF QuitIsLast, Leaving
  <2>3. Answering(<<>>, <<>>)
    BY <2>1, ReadingSteps DEF Answering
  <2>4. (<<>> \o <<>>) \o <<>> = Due /\ Len(<<>> \o <<>>) = 0
    <3>1. Due = <<>>
      BY <2>1 DEF Due, Leaving
    <3> QED BY <3>1
  <2>5. served = [i \in 1..Len(<<>>) |-> Payload(<<>>[i])]
    BY <2>1
  <2>6. Queue(<<>>, <<>>, <<>>)
    <3>1. Numbered(<<>> \o <<>>)
      BY <2>1 DEF Numbered, Leaving, Init
    <3> QED BY <2>1, <2>2, <2>4, <2>5, <3>1, CarriesNone DEF Queue
  <2>7. \A S : <<>> \in Seq(S)
    OBVIOUS
  <2> QED BY <1>0, <2>3, <2>6, <2>7, CarriesNone DEF Ledger, Init
<1>4. LedgerInv
  BY <1>3, Zenon DEF LedgerInv
<1> QED BY <1>1, <1>2, <1>4, BufferInit, ZenonT(60) DEF ExchangeInv

(* A step that writes nothing to the server.                               *)
LEMMA NumberedKept ==
  ASSUME NEW x, UNCHANGED <<bnum, bout, asked>>, Leaving' = Leaving
  PROVE  Numbered(x)' = Numbered(x)
<1>1. ResetNum' = ResetNum
  BY DEF ResetNum
<1>2. ResetNumbered' = ResetNumbered
  BY <1>1 DEF ResetNumbered
<1> QED BY <1>2 DEF Numbered

(* TCP delivers bytes: what is in the buffer is no part of the ledger.     *)
LEMMA ReadStep ==
  ASSUME ExchangeInv, ReadClient \/ ReadBackend \/ UNCHANGED vars
  PROVE  Types' /\ Flow' /\ LedgerInv'
<1>0. BufferOK(cin) /\ BufferOK(bin) /\ Types /\ Flow /\ LedgerInv
  BY DEF ExchangeInv, BufferInv
<1>1. /\ cin'.wire = cin.wire /\ cin'.rem <= WireLen(cin.wire)
      /\ bin'.wire = bin.wire /\ bin'.rem <= WireLen(bin.wire)
  <2>0. /\ WireLen(cin.wire) \in Nat /\ WireLen(bin.wire) \in Nat
        /\ cin.rem \in Nat /\ cin.rem <= WireLen(cin.wire)
        /\ bin.rem \in Nat /\ bin.rem <= WireLen(bin.wire)
    <3>1. cin.wire \in Wires(RequestMsgs) /\ bin.wire \in Wires(Messages)
      BY <1>0, FramesTyped DEF Types
    <3> QED BY <1>0, <3>1, WireLenType, WireSeq DEF Types, BufferOK
  <2>1. ASSUME NEW r, NEW n \in 1..InFlight(r), r.rem \in Nat, WireLen(r.wire) \in Nat
        PROVE  Filled(r, n).wire = r.wire /\ Filled(r, n).rem <= WireLen(r.wire)
    <3>1. n <= WireLen(r.wire) - r.rem
      BY <2>1 DEF InFlight
    <3>2. Filled(r, n).wire = r.wire /\ Filled(r, n).rem = r.rem + n
      BY DEF Filled
    <3> QED BY <2>1, <3>1, <3>2, SMTT(60)
  <2>2. CASE ReadClient
    <3>1. bin' = bin /\ \E n \in 1..InFlight(cin) : cin' = Filled(cin, n)
      BY <2>2 DEF ReadClient
    <3> QED BY <2>0, <2>1, <3>1
  <2>3. CASE ReadBackend
    <3>1. cin' = cin /\ \E n \in 1..InFlight(bin) : bin' = Filled(bin, n)
      BY <2>3, ZenonT(60) DEF ReadBackend
    <3> QED BY <2>0, <2>1, <3>1, ZenonT(60)
  <2>4. CASE UNCHANGED vars
    BY <2>0, <2>4 DEF vars
  <2> QED BY <2>2, <2>3, <2>4
<1>2. UNCHANGED <<deof, bdeof, bnum, bout, got, at, left, asked, served, sent, wrapped>>
  BY DEF ReadClient, ReadBackend, vars
<1>3. Types'
  BY <1>0, <1>1, <1>2, ZenonT(60) DEF Types
<1>4. Flow'
  BY <1>0, <1>1, <1>2, ZenonT(60) DEF Flow
<1>5. LedgerInv'
  <2>1. PICK cs, bs, sv, ms : Ledger(cs, bs, sv, ms)
    BY <1>0, Zenon DEF LedgerInv
  <2>2. Leaving' = Leaving /\ Due' = Due
    BY <1>2 DEF Leaving, Due
  <2>3. /\ QuitIsLast' = QuitIsLast /\ WholeRequests' = WholeRequests
        /\ Agreed' = Agreed /\ Answering(bs, ms)' = Answering(bs, ms)
    BY <1>2, <2>2, ZenonT(60) DEF QuitIsLast, WholeRequests, Agreed, Answering
  <2>4. Queue(cs, bs, sv)' = Queue(cs, bs, sv)
    <3>1. Numbered(sv \o bs)' = Numbered(sv \o bs)
      BY <1>2, <2>2, NumberedKept, ZenonT(60)
    <3> QED BY <1>2, <2>2, <2>3, <3>1, ZenonT(60) DEF Queue
  <2>5. Ledger(cs, bs, sv, ms)'
    BY <1>1, <1>2, <2>1, <2>3, <2>4 DEF Ledger
  <2> QED BY <2>5, Zenon DEF LedgerInv
<1> QED BY <1>3, <1>4, <1>5

----------------------------------------------------------------------------
(* The client sends a request.                                             *)
LEMMA AskStep ==
  ASSUME ExchangeInv, NEW r \in Requests, Ask(r[1], r[2])
  PROVE  Types' /\ Flow' /\ LedgerInv'
<1> DEFINE m == [Msg("other", r[2]) EXCEPT !.head = r[1]]
           c == Cut(Payload(m), 0)
<1>0. BufferOK(cin) /\ BufferOK(bin) /\ Types /\ Flow /\ LedgerInv
  BY DEF ExchangeInv, BufferInv
<1>1. m \in ClientMsgs /\ m \in RequestMsgs
  <2>1. r[1] \in Commands /\ r[2] \in Nat \ {0}
    BY ExchangeAssumption
  <2>2. m \in RequestMsgs /\ m.head = r[1]
    BY <2>1, RequestType
  <2> HIDE DEF m
  <2> QED BY <2>1, <2>2 DEF ClientMsgs, RequestMsgs
<1>2. /\ c \in Seq(RequestFrames) /\ c \in Wires(RequestMsgs) /\ Carries(c, <<m>>)
  <2>1. 0 \in 0..(NumMod - 1)
    BY FramesAssumption
  <2> HIDE DEF m
  <2> QED BY <1>1, <2>1, RequestCut, CutCarries, MessagesSized, ZenonT(60)
<1>3. /\ at \notin {"left", "panicked"}
      /\ \A i \in 1..Len(asked) : asked[i].head # "quit"
      /\ asked' = Append(asked, m)
      /\ cin' = [cin EXCEPT !.wire = cin.wire \o c]
      /\ UNCHANGED <<deof, bdeof, bin, bnum, bout, got, at, left, served, sent, wrapped>>
  BY DEF Ask
<1> HIDE DEF m, c
<1>4. cin'.wire = cin.wire \o c /\ cin'.rem = cin.rem
  BY <1>0, <1>3 DEF BufferOK
<1>5. Types'
  <2>1. cin.wire \in Seq(RequestFrames) /\ cin.rem <= WireLen(cin.wire) /\ asked \in Seq(ClientMsgs)
    BY <1>0 DEF Types
  <2>2. cin.wire \o c \in Seq(RequestFrames) /\ Append(asked, m) \in Seq(ClientMsgs)
    BY <1>1, <1>2, <2>1
  <2>3. cin.wire \in Wires(RequestMsgs)
    BY <2>1, FramesTyped
  <2>4. cin.rem <= WireLen(cin.wire \o c)
    <3>1. WireLen(cin.wire \o c) = WireLen(cin.wire) + WireLen(c)
      BY <1>2, <2>3, WireLenConcat, WireSeq
    <3>2. WireLen(cin.wire) \in Nat /\ WireLen(c) \in Nat /\ cin.rem \in Nat
      BY <1>0, <1>2, <2>3, WireLenType, WireSeq, ZenonT(60) DEF BufferOK
    <3> QED BY <2>1, <3>1, <3>2
  <2> QED BY <1>0, <1>3, <1>4, <2>2, <2>4, ZenonT(60) DEF Types
<1>6. Flow'
  BY <1>0, <1>3, ZenonT(60) DEF Flow
<1>7. PICK cs, bs, sv, ms : Ledger(cs, bs, sv, ms)
  BY <1>0, Zenon DEF LedgerInv
<1>8. Ledger(cs \o <<m>>, bs, sv, ms)'
  <2>1. /\ cs \in Seq(ClientMsgs) /\ bs \in Seq(RequestMsgs) /\ sv \in Seq(RequestMsgs)
        /\ ms \in Seq(Messages) /\ Carries(cin.wire, cs) /\ Carries(bin.wire, ms)
        /\ <<m>> \in Seq(ClientMsgs) /\ <<m>> \in Seq(RequestMsgs)
    BY <1>1, <1>7, OneSeq DEF Ledger
  <2>2. cs \o <<m>> \in Seq(ClientMsgs) /\ cs \in Seq(RequestMsgs)
    BY <2>1, FramesTyped
  <2>3. Carries(cin.wire \o c, cs \o <<m>>)
    <3>1. cin.wire \in Wires(RequestMsgs)
      BY <1>0, FramesTyped DEF Types
    <3> QED BY <1>2, <2>1, <2>2, <3>1, CarriesConcat, MessagesSized, ZenonT(60)
  <2>4. ASSUME WholeRequests' PROVE WholeRequests
    <3>1. asked \in Seq(ClientMsgs)
      BY <1>0, ZenonT(60) DEF Types
    <3>2. ASSUME NEW i \in 1..Len(asked) PROVE ~Exact(asked[i].len)
      <4>1. i \in 1..Len(asked') /\ asked'[i] = asked[i]
        BY <1>1, <1>3, <3>1
      <4> QED BY <2>4, <4>1 DEF WholeRequests
    <3> QED BY <3>2 DEF WholeRequests
  <2>5. ASSUME WholeRequests, Queue(cs, bs, sv)
        PROVE  Queue(cs \o <<m>>, bs, sv)'
    <3>1. asked \in Seq(ClientMsgs) /\ QuitIsLast
      BY <1>0, <2>5 DEF Types, Queue
    <3>2. ~Leaving
      <4>1. ASSUME Leaving PROVE FALSE
        <5>1. asked # <<>> /\ asked[Len(asked)].head = "quit"
          BY <3>1, <4>1 DEF QuitIsLast
        <5>2. Len(asked) \in 1..Len(asked)
          BY <3>1, <5>1
        <5> QED BY <1>3, <5>1, <5>2
      <4> QED BY <4>1
    <3>3. ~Leaving' /\ Due = asked /\ Due' = Append(asked, m)
      BY <1>3, <3>2 DEF Leaving, Due
    <3>4. QuitIsLast'
      <4>1. ASSUME NEW i \in 1..Len(asked'), asked'[i].head = "quit" PROVE i = Len(asked')
        BY <1>1, <1>3, <3>1, <4>1
      <4> QED BY <3>3, <4>1, Zenon DEF QuitIsLast
    <3>5. (sv \o bs) \o (cs \o <<m>>) = Append(asked, m)
      <4> DEFINE x == sv \o bs
                 y == <<m>>
      <4>1. x \in Seq(RequestMsgs) /\ y \in Seq(RequestMsgs) /\ asked \in Seq(RequestMsgs)
        BY <2>1, <3>1, FramesTyped
      <4>2. x \o cs = asked
        BY <2>5, <3>3 DEF Queue
      <4>3. Append(asked, m) = asked \o y
        BY <1>1, <4>1, AppendProperties
      <4> HIDE DEF x, y
      <4>4. x \o (cs \o y) = (x \o cs) \o y
        BY <2>2, <4>1, SMTT(60)
      <4> QED BY <4>2, <4>3, <4>4, Zenon DEF x, y
    <3>6. Numbered(sv \o bs)'
      BY <1>3, <2>5, <3>2, <3>3, ZenonT(60) DEF Queue, Numbered
    <3> QED BY <1>3, <2>5, <3>3, <3>4, <3>5, <3>6, ZenonT(60) DEF Queue
  <2>6. ASSUME Answering(bs, ms) PROVE Answering(bs, ms)'
    BY <1>3, <2>6 DEF Answering
  <2>7. Agreed' = Agreed
    BY <1>3 DEF Agreed
  <2>8. WholeRequests' => /\ Queue(cs \o <<m>>, bs, sv)'
                          /\ Agreed' /\ ~wrapped' => Answering(bs, ms)'
    <3>1. WholeRequests => Queue(cs, bs, sv) /\ (Agreed /\ ~wrapped => Answering(bs, ms))
      BY <1>7 DEF Ledger
    <3> QED BY <1>3, <2>4, <2>5, <2>6, <2>7, <3>1, ZenonT(60)
  <2> QED BY <1>3, <1>4, <2>1, <2>2, <2>3, <2>8, ZenonT(60) DEF Ledger
<1>9. LedgerInv'
  BY <1>8, Zenon DEF LedgerInv
<1> QED BY <1>5, <1>6, <1>9

----------------------------------------------------------------------------
(* The reader of the client's bytes returns the first request on the way.  *)
LEMMA RequestTaken ==
  ASSUME ExchangeInv, Takes(cin), NEW cs, NEW bs, NEW sv, NEW ms, Ledger(cs, bs, sv, ms)
  PROVE  TakesOut(RequestMsgs, cin, cs) /\ cs[1] \in ClientMsgs
<1>1. cin.wire \in Wires(RequestMsgs) /\ cin.rem <= WireLen(cin.wire) /\ cin.rem \in Nat
  BY FramesTyped, ZenonT(60) DEF ExchangeInv, Types, BufferInv, BufferOK
<1>2. cs \in Seq(ClientMsgs) /\ cs \in Seq(RequestMsgs) /\ Carries(cin.wire, cs) /\ Ready(cin)
  BY FramesTyped DEF Ledger, Takes
<1>3. TakesOut(RequestMsgs, cin, cs)
  BY <1>1, <1>2, TakenIs, MessagesSized
<1>4. cs # <<>>
  BY <1>3, Zenon DEF TakesOut
<1> QED BY <1>2, <1>3, <1>4, SMTT(60)

(* on_com has read a request and writes one to the server: the frames, the *)
(* numbers and the buffers.                                                *)
LEMMA RequestFlow ==
  ASSUME ExchangeInv, NEW cs, TakesOut(RequestMsgs, cin, cs), NEW w \in Seq(WrittenFrames),
         cin' = Consume(cin), bout' = bout \o w, bnum' \in 0..(NumMod - 1), at' \in Steps,
         got' = <<>>, sent' = bin.wire, UNCHANGED <<deof, bdeof, bin, asked>>
  PROVE  Types' /\ Flow'
<1>0. Types
  BY DEF ExchangeInv
<1>1. cin'.rem <= WireLen(cin'.wire)
  BY Zenon DEF TakesOut
<1>2. cin'.wire \in Seq(RequestFrames)
  <2>1. Joined(cin) \in 1..Len(cin.wire)
    BY Zenon DEF TakesOut
  <2>2. Consume(cin).wire = SubSeq(cin.wire, Joined(cin) + 1, Len(cin.wire))
    BY ZenonT(60) DEF Consume
  <2>3. cin.wire \in Seq(RequestFrames)
    BY <1>0 DEF Types
  <2> DEFINE k == Joined(cin)
             x == cin.wire
  <2> HIDE DEF k, x
  <2>4. x \in Seq(RequestFrames) /\ k \in 1..Len(x)
    BY <2>1, <2>3, ZenonT(60) DEF k, x
  <2>5. SubSeq(x, k + 1, Len(x)) \in Seq(RequestFrames)
    BY <2>4, SubSeqProperties, SMTT(60)
  <2> QED BY <2>2, <2>5 DEF k, x
<1>3. bout' \in Seq(WrittenFrames)
  BY <1>0 DEF Types
<1>4. got' \in Seq(AnswerPieces)
  OBVIOUS
<1>5. Types'
  BY <1>0, <1>1, <1>2, <1>3, <1>4, ZenonT(60) DEF Types
<1>6. Flow'
  <2>1. bin.wire \in Wires(Messages)
    BY <1>0 DEF Types
  <2>2. <<>> \o bin.wire = bin.wire
    BY <2>1 DEF Wires
  <2>3. Data(bin.wire) \in Seq(Bytes(Messages))
    BY <2>1, WireSeq, DataType
  <2>4. Data(<<>>) \o Data(bin.wire) = Data(bin.wire)
    BY <2>3, DataEmpty
  <2>5. bin'.wire = bin.wire
    OBVIOUS
  <2> QED BY <2>2, <2>4, <2>5, ZenonT(60) DEF Flow
<1> QED BY <1>5, <1>6

----------------------------------------------------------------------------
(* The next request on the way from the client is one it has asked.        *)
LEMMA NextAsked ==
  ASSUME ExchangeInv, NEW cs \in Seq(ClientMsgs), NEW bs \in Seq(RequestMsgs),
         NEW sv \in Seq(RequestMsgs), cs # <<>>, (sv \o bs) \o cs = asked
  PROVE  /\ Len(sv \o bs) + 1 \in 1..Len(asked)
         /\ asked[Len(sv \o bs) + 1] = cs[1]
         /\ Len(asked) = Len(sv \o bs) + Len(cs)
<1> DEFINE x == sv \o bs
<1>1. x \in Seq(RequestMsgs) /\ cs \in Seq(RequestMsgs) /\ x \o cs = asked
  BY FramesTyped
<1> HIDE DEF x
<1>2. Len(x) \in Nat /\ Len(cs) \in Nat \ {0} /\ Len(asked) = Len(x) + Len(cs)
  <2>1. Len(x) \in Nat /\ Len(cs) \in Nat \ {0}
    BY <1>1
  <2>2. Len(x \o cs) = Len(x) + Len(cs)
    BY <1>1, ConcatProperties, Zenon
  <2> QED BY <1>1, <2>1, <2>2
<1>3. (x \o cs)[Len(x) + 1] = cs[1]
  <2>1. Len(x) + 1 \in 1..(Len(x) + Len(cs)) /\ ~(Len(x) + 1 <= Len(x)) /\ (Len(x) + 1) - Len(x) = 1
    BY <1>2
  <2> QED BY <1>1, <2>1, ConcatProperties
<1> QED BY <1>1, <1>2, <1>3 DEF x

(* An added element.                                                       *)
LEMMA AddedOne ==
  ASSUME NEW S, NEW b \in Seq(S), NEW m \in S
  PROVE  /\ b \o <<m>> \in Seq(S) /\ Len(b \o <<m>>) = Len(b) + 1
         /\ \A i \in 1..Len(b) : (b \o <<m>>)[i] = b[i]
         /\ (b \o <<m>>)[Len(b) + 1] = m /\ b \o <<m>> # <<>>
<1> DEFINE c == b \o <<m>>
<1>1. c = Append(b, m)
  BY AppendProperties
<1>2. /\ Append(b, m) \in Seq(S) /\ Len(Append(b, m)) = Len(b) + 1
      /\ \A i \in 1..Len(b) : Append(b, m)[i] = b[i]
      /\ Append(b, m)[Len(b) + 1] = m /\ Append(b, m) # <<>>
  BY AppendProperties
<1> QED BY <1>1, <1>2, ZenonT(60)

(* The last one of the requests that on_com has read.                      *)
LEMMA LastOfMoved ==
  ASSUME NEW sv \in Seq(RequestMsgs), NEW bs \in Seq(RequestMsgs), NEW m \in RequestMsgs
  PROVE  LET x == sv \o (bs \o <<m>>) IN x # <<>> /\ x[Len(x)] = m
<1> DEFINE y == bs \o <<m>>
           x == sv \o y
<1>1. y \in Seq(RequestMsgs) /\ Len(y) = Len(bs) + 1 /\ y[Len(bs) + 1] = m
  BY AddedOne
<1>2. Len(bs) \in Nat /\ Len(sv) \in Nat
  OBVIOUS
<1> HIDE DEF y
<1>3. Len(x) = Len(sv) + Len(y) /\ x \in Seq(RequestMsgs)
      /\ \A i \in 1..(Len(sv) + Len(y)) : x[i] = IF i <= Len(sv) THEN sv[i] ELSE y[i - Len(sv)]
  BY <1>1, ConcatProperties, ZenonT(60)
<1> HIDE DEF x
<1>4. Len(x) \in 1..(Len(sv) + Len(y)) /\ ~(Len(x) <= Len(sv)) /\ Len(x) - Len(sv) = Len(bs) + 1
  BY <1>1, <1>2, <1>3
<1>5. x[Len(x)] = m /\ x # <<>>
  <2>1. x[Len(x)] = y[Len(x) - Len(sv)]
    BY <1>3, <1>4, ZenonT(60)
  <2>2. x # <<>>
    BY <1>3, <1>4
  <2> QED BY <1>1, <1>4, <2>1, <2>2, ZenonT(60)
<1> QED BY <1>5, Zenon DEF x, y

(* A request is written while on_com has nothing to wait for: afterwards   *)
(* it waits for the answer.                                                *)
LEMMA RequestAwaited ==
  ASSUME NEW bs \in Seq(RequestMsgs), NEW ms, NEW m \in RequestMsgs, at = "command",
         Answering(bs, ms), at' = Sends(m.head), left' = left, deof' = deof
  PROVE  Answering(bs \o <<m>>, ms)'
<1>1. ms = <<>> /\ \A i \in 1..Len(bs) : bs[i].head = "close"
  BY ReadingSteps DEF Answering
<1> DEFINE b == bs \o <<m>>
<1>2. /\ Len(b) = Len(bs) + 1 /\ \A i \in 1..Len(bs) : b[i] = bs[i]
      /\ b[Len(bs) + 1] = m /\ b # <<>>
  BY AddedOne
<1> HIDE DEF b
<1>3. b[Len(b)] = m /\ \A i \in 1..(Len(b) - 1) : b[i].head = "close"
  <2>1. Len(bs) \in Nat
    OBVIOUS
  <2> QED BY <1>1, <1>2, <2>1
<1>4. CASE m.head = "close"
  <2>1. at' = "command"
    BY <1>4 DEF Sends, Forwarder
  <2>2. \A i \in 1..Len(b) : b[i].head = "close"
    <3>1. Len(bs) \in Nat
      OBVIOUS
    <3> QED BY <1>2, <1>3, <1>4, <3>1
  <2> QED BY <1>1, <2>1, <2>2, ReadingSteps DEF Answering, b
<1>5. CASE m.head # "close"
  <2>1. at' \in {"first", "fetch", "prepare", "one", "reset"}
    BY <1>5 DEF Sends, Forwarder
  <2>2. at' \in Reading
    BY <2>1, ReadingSteps
  <2> QED BY <1>1, <1>2, <1>3, <1>5, <2>2 DEF Answering, b
<1> QED BY <1>4, <1>5, ZenonT(60)

(* on_com reads a request and writes it to the server.                     *)
LEMMA OnComStep ==
  ASSUME ExchangeInv, OnCom
  PROVE  Types' /\ Flow' /\ LedgerInv'
(* A request is read under the number of its last frame.                   *)
<1>LastNumbered.
      ASSUME ExchangeInv, NEW cs, TakesOut(RequestMsgs, cin, cs), ~Exact(cs[1].len)
      PROVE  NextNum(cin) = LastNum(cs[1])
  <2> USE <1>LastNumbered
  <2> DEFINE m == cs[1]
             w == cin.wire
             P == Pieces(m)
  <2>1. /\ Joined(cin) \in 1..Len(w) /\ Joined(cin) = P /\ m \in RequestMsgs
        /\ \A i \in 1..Joined(cin) : w[i].data = Piece(m, i)
    BY ZenonT(60) DEF TakesOut
  <2>2. w \in Seq(RequestFrames)
    BY ZenonT(60) DEF ExchangeInv, Types
  <2>3. m.len \in Nat \ {0} /\ MaxPayload \in Nat \ {0} /\ m.len % MaxPayload # 0
    BY <2>1, MessagesSized, FramesAssumption DEF Sized, Exact
  <2>4. NextNum(cin) = w[P].num
    BY <2>1 DEF NextNum
  <2> HIDE DEF m, w, P
  <2>5. P \in Nat \ {0} /\ P \in 1..Len(w) /\ P \in 1..P
    <3>1. P \in Nat \ {0}
      BY <2>3, PieceSizes DEF P
    <3> QED BY <2>1, <3>1
  <2>6. w[P].data = Piece(m, P) /\ w[P] \in RequestFrames
    BY <2>1, <2>2, <2>5
  <2>7. PieceLen(m, P) = m.len % MaxPayload /\ PieceLen(m, P) # 0
    <3>1. ~(P < P)
      BY <2>5
    <3>2. PieceLen(m, P) = m.len % MaxPayload
      BY <3>1, ZenonT(60) DEF PieceLen, P
    <3> QED BY <2>3, <3>2
  <2>8. Piece(m, P) # <<>>
    <3>1. Len(Piece(m, P)) = PieceLen(m, P)
      BY <2>1, <2>3, <2>5, PieceType, ZenonT(60) DEF P
    <3>2. Len(<<>>) = 0
      OBVIOUS
    <3> QED BY <2>7, <3>1, <3>2, ZenonT(60)
  <2> DEFINE b == w[P].data[Len(w[P].data)]
  <2>9. b = <<m, (P - 1) * MaxPayload + PieceLen(m, P)>>
    BY <2>1, <2>5, <2>6, <2>8, PieceEnds, MessagesSized, ZenonT(60) DEF P
  <2>10. (P - 1) * MaxPayload + PieceLen(m, P) = m.len
    <3>1. m.len = (m.len \div MaxPayload) * MaxPayload + (m.len % MaxPayload)
      BY <2>3, DivMod, ZenonT(60)
    <3>2. P - 1 = m.len \div MaxPayload
      <4>1. m.len \div MaxPayload \in Nat
        BY <2>3, DivMod, ZenonT(60)
      <4> QED BY <4>1 DEF P, Pieces
    <3> QED BY <2>7, <3>1, <3>2, ZenonT(60)
  <2> HIDE DEF b
  <2>11. b[1] = m /\ b[2] = b[1].len /\ ~Exact(b[1].len)
    BY <2>3, <2>9, <2>10 DEF Exact
  <2>12. w[P].num = LastNum(b[1])
    BY <2>6, <2>8, <2>11, Zenon DEF RequestFrames, b
  <2> QED BY <2>4, <2>11, <2>12, ZenonT(60) DEF m
<1>0. Types /\ LedgerInv
  BY DEF ExchangeInv
<1>1. PICK cs, bs, sv, ms : Ledger(cs, bs, sv, ms)
  BY <1>0, Zenon DEF LedgerInv
<1>2. TakesOut(RequestMsgs, cin, cs) /\ cs[1] \in ClientMsgs
  BY <1>1, RequestTaken, Zenon DEF OnCom
<1> DEFINE m == cs[1]
           p == Payload(m)
           s == NextNum(cin)
           w == EndPacket(p, s)
<1>3. /\ m \in RequestMsgs /\ m.head \in Commands /\ cs # <<>> /\ NextData(cin) = p /\ s \in 0..(NumMod - 1)
      /\ Carries(Consume(cin).wire, Tail(cs))
  <2>1. m \in ClientMsgs
    BY <1>2
  <2>2. cs # <<>> /\ NextData(cin) = p /\ s \in 0..(NumMod - 1) /\ Carries(Consume(cin).wire, Tail(cs))
    BY <1>2, Zenon DEF TakesOut
  <2> HIDE DEF m
  <2> QED BY <2>1, <2>2, FramesTyped DEF ClientMsgs
<1>4. p[1][1] = m
  BY <1>3, PayloadType, MessagesSized, ZenonT(60) DEF Sized
<1>5. /\ at = "command" /\ m.head # "quit" /\ at' = Forwarder(m.head)
      /\ bout' = bout \o w /\ bnum' = SeqAfter(p, s) /\ cin' = Consume(cin)
      /\ got' = <<>> /\ sent' = bin.wire
      /\ UNCHANGED <<deof, bdeof, bin, left, asked, served, wrapped>>
  <2> HIDE DEF m, p, s
  <2> QED BY <1>3, <1>4 DEF OnCom, WriteBackend, s
<1>6. w \in Seq(WrittenFrames)
  <2>1. ~Exact(m.len) => s = LastNum(m)
    BY <1>2, <1>LastNumbered, ZenonT(60)
  <2> HIDE DEF m, s
  <2> QED BY <1>3, <2>1, RequestWritten, ZenonT(60)
<1>7. Writes(RequestMsgs, m, s, w)
  <2> HIDE DEF m, s
  <2> QED BY <1>3, WrittenIs, MessagesSized
<1> HIDE DEF m, p, s, w
<1>8. Types' /\ Flow'
  <2>1. bnum' \in 0..(NumMod - 1)
    BY <1>5, <1>7 DEF Writes, p
  <2>2. at' \in Steps
    BY <1>5, ZenonT(60) DEF Forwarder, Steps, Reading
  <2> QED BY <1>2, <1>5, <1>6, <2>1, <2>2, RequestFlow, ZenonT(60)
<1>9. Ledger(Tail(cs), bs \o <<m>>, sv, ms)'
  <2>1. /\ cs \in Seq(ClientMsgs) /\ bs \in Seq(RequestMsgs) /\ sv \in Seq(RequestMsgs)
        /\ ms \in Seq(Messages) /\ Carries(bin.wire, ms)
    BY <1>1 DEF Ledger
  <2>2. Tail(cs) \in Seq(ClientMsgs) /\ bs \o <<m>> \in Seq(RequestMsgs) /\ cs \in Seq(RequestMsgs)
    BY <1>3, <2>1, AddedOne, FramesTyped, HeadTailProperties, SMTT(60)
  <2>3. WholeRequests' = WholeRequests /\ Agreed' = Agreed
    BY <1>5, SMTT(30) DEF WholeRequests, Agreed
  <2>4. ASSUME WholeRequests, Queue(cs, bs, sv)
        PROVE  Queue(Tail(cs), bs \o <<m>>, sv)'
    <3>1. ~Leaving /\ ~Leaving'
      BY <1>5 DEF Leaving, Forwarder
    <3>2. Due = asked /\ Due' = asked
      BY <1>5, <3>1 DEF Due
    <3>3. (sv \o bs) \o cs = asked
      BY <2>4, <3>2 DEF Queue
    <3>4. (sv \o (bs \o <<m>>)) \o Tail(cs) = asked
      <4>1. (sv \o (bs \o <<cs[1]>>)) \o Tail(cs) = (sv \o bs) \o cs
        <5>1. Moved(sv, bs, cs)
          BY <1>3, <2>1, <2>2, Moves, Zenon
        <5> QED BY <5>1, Zenon DEF Moved
      <4> QED BY <3>3, <4>1, Zenon DEF m
    <3>5. ~Exact(m.len)
      <4>1. Len(sv \o bs) + 1 \in 1..Len(asked) /\ asked[Len(sv \o bs) + 1] = m
        BY <1>3, <2>1, <3>3, NextAsked DEF m
      <4> QED BY <2>4, <4>1 DEF WholeRequests
    <3>6. Carries(bout', bs \o <<m>>)
      <4>1. w \in Wires(RequestMsgs) /\ Carries(w, <<m>>)
        BY <1>7, <3>5, ZenonT(60) DEF Writes, Exact
      <4>2. bout \in Wires(RequestMsgs) /\ Carries(bout, bs) /\ <<m>> \in Seq(RequestMsgs)
        BY <1>0, <1>3, <2>4, FramesTyped, OneSeq, ZenonT(60) DEF Types, Queue
      <4> QED BY <1>5, <2>1, <4>1, <4>2, CarriesConcat, MessagesSized, ZenonT(60)
    <3>7. QuitIsLast'
      BY <1>5, <2>4, <3>1 DEF Queue, QuitIsLast
    <3>8. \A i \in 1..Len(sv \o (bs \o <<m>>)) : (sv \o (bs \o <<m>>))[i].head # "quit"
      <4> DEFINE x == sv \o bs
      <4>1. \A i \in 1..Len(x) : x[i].head # "quit"
        BY <2>4 DEF Queue
      <4>2. x \in Seq(RequestMsgs) /\ sv \o (bs \o <<m>>) = x \o <<m>>
        <5> DEFINE y == <<m>>
        <5>1. y \in Seq(RequestMsgs)
          BY <1>3, OneSeq
        <5> HIDE DEF y
        <5>2. sv \o (bs \o y) = (sv \o bs) \o y
          BY <2>1, <5>1, SMTT(60)
        <5> QED BY <2>1, <5>2 DEF y
      <4> HIDE DEF x
      <4>3. /\ Len(x \o <<m>>) = Len(x) + 1 /\ \A i \in 1..Len(x) : (x \o <<m>>)[i] = x[i]
            /\ (x \o <<m>>)[Len(x) + 1] = m
        <5>1. m \in RequestMsgs /\ x \in Seq(RequestMsgs)
          BY <1>3, <4>2, ZenonT(60)
        <5> QED BY <5>1, AddedOne, SMTT(30)
      <4> DEFINE z == x \o <<m>>
      <4> HIDE DEF z
      <4>4. \A i \in 1..Len(z) : z[i].head # "quit"
        <5>1. Len(x) \in Nat
          BY <4>2, SMTT(60)
        <5> QED BY <1>5, <4>1, <4>3, <5>1 DEF z
      <4> QED BY <4>2, <4>4, ZenonT(60) DEF z
    <3>9. Numbered(sv \o (bs \o <<m>>))'
      <4> DEFINE x == sv \o (bs \o <<m>>)
      <4>1. x # <<>> /\ x[Len(x)] = m
        <5>1. sv \in Seq(RequestMsgs) /\ bs \in Seq(RequestMsgs) /\ m \in RequestMsgs
          BY <1>3, <2>1, Zenon
        <5> QED BY <5>1, LastOfMoved, Zenon
      <4> HIDE DEF x
      <4>2. s = LastNum(m)
        BY <1>2, <3>5, <1>LastNumbered, ZenonT(60) DEF m, s
      <4>3. bnum' = NumberAfter(m)
        BY <1>5, <4>2, ZenonT(60) DEF NumberAfter, p
      <4>4. Numbered(x)'
        BY <3>1, <4>1, <4>3, ZenonT(60) DEF Numbered
      <4> QED BY <4>4 DEF x
    <3> QED BY <1>5, <2>4, <3>2, <3>4, <3>6, <3>7, <3>8, <3>9, ZenonT(60) DEF Queue
  <2>5. ASSUME Answering(bs, ms) PROVE Answering(bs \o <<m>>, ms)'
    <3>1. at' = Sends(m.head)
      BY <1>3, <1>5 DEF Sends, Commands
    <3> QED BY <1>3, <1>5, <2>1, <2>5, <3>1, RequestAwaited, ZenonT(60)
  <2>6. WholeRequests' => /\ Queue(Tail(cs), bs \o <<m>>, sv)'
                          /\ Agreed' /\ ~wrapped' => Answering(bs \o <<m>>, ms)'
    <3>1. WholeRequests => Queue(cs, bs, sv) /\ (Agreed /\ ~wrapped => Answering(bs, ms))
      BY <1>1 DEF Ledger
    <3> QED BY <1>5, <2>3, <2>4, <2>5, <3>1, ZenonT(60)
  <2> QED BY <1>3, <1>5, <2>1, <2>2, <2>6, ZenonT(60) DEF Ledger
<1>10. LedgerInv'
  BY <1>9, Zenon DEF LedgerInv
<1> QED BY <1>8, <1>10, ZenonT(60)

----------------------------------------------------------------------------
(* The last element is replaced.                                           *)
Overwrites(a, r, z, S) ==
  /\ z \in Seq(S) /\ Len(z) = Len(a)
  /\ \A j \in 1..Len(a) : z[j] = IF j = Len(a) THEN r ELSE a[j]

(* What [a EXCEPT ![Len(a)] = r] is, ...                                   *)
LEMMA Overwritten ==
  ASSUME NEW S, NEW a \in Seq(S), Len(a) \in 1..Len(a), NEW r \in S
  PROVE  Overwrites(a, r, [a EXCEPT ![Len(a)] = r], S)
<1> DEFINE l == Len(a)
           e == [a EXCEPT ![l] = r]
<1> HIDE DEF l
<1>1. a \in [1..Len(a) -> S] /\ Len(a) \in Nat /\ l \in 1..Len(a)
  BY DEF l
<1>2. e \in [1..Len(a) -> S] /\ \A j \in 1..Len(a) : e[j] = IF j = l THEN r ELSE a[j]
  BY <1>1
<1> HIDE DEF e
<1>3. e \in Seq(S) /\ Len(e) = Len(a)
  BY <1>1, <1>2
<1> QED BY <1>2, <1>3 DEF Overwrites, e, l

Replaced(a, x, r) == x \o <<r>> = [a EXCEPT ![Len(a)] = r]

(* Nothing follows a single element.                                       *)
LEMMA TailOfOne ==
  ASSUME NEW S, NEW c \in Seq(S), Len(c) = 1
  PROVE  Tail(c) = <<>>
<1>1. c # <<>>
  BY SMTT(30)
<1>2. Tail(c) \in Seq(S) /\ Len(Tail(c)) = 0
  BY <1>1, HeadTailProperties
<1> QED BY <1>2, EmptySeq, Zenon

(* What is on its way to the server is of requests of the client, but for  *)
(* the COM_RESET_CONNECTION.                                               *)
LEMMA OnTheWay ==
  ASSUME Types, WholeRequests, NEW cs \in Seq(ClientMsgs), NEW bs \in Seq(RequestMsgs),
         NEW sv \in Seq(RequestMsgs), Queue(cs, bs, sv), NEW i \in 1..Len(bout)
  PROVE  LET m == bout[i].data[1][1]
         IN  \/ m \in ClientMsgs /\ ~Exact(m.len)
             \/ Leaving /\ m.head = "reset"
<1>1. /\ bout \in Wires(RequestMsgs) /\ bout[i] \in WrittenFrames /\ Carries(bout, bs)
      /\ asked \in Seq(ClientMsgs) /\ asked \in Seq(RequestMsgs)
  BY FramesTyped DEF Types, Queue
<1>2. bout[i].data # <<>>
  BY <1>1, ZenonT(60) DEF WrittenFrames
<1>3. PICK j \in 1..Len(bs) : \E k \in 1..Pieces(bs[j]) : bout[i].data = Piece(bs[j], k)
  BY <1>1, CarriesPieces, MessagesSized, SMTT(60)
<1>4. PICK k \in 1..Pieces(bs[j]) : bout[i].data = Piece(bs[j], k)
  BY <1>3
<1>5. bs[j] \in RequestMsgs
  OBVIOUS
<1>6. bout[i].data[1][1] = bs[j]
  BY <1>2, <1>4, <1>5, PieceEnds, MessagesSized, ZenonT(60)
<1> DEFINE x == sv \o bs
           n == Len(sv) + j
<1>7. x \in Seq(RequestMsgs) /\ n \in 1..Len(x) /\ x[n] = bs[j]
  <2>1. /\ x \in Seq(RequestMsgs) /\ Len(x) = Len(sv) + Len(bs)
        /\ \A l \in 1..(Len(sv) + Len(bs)) : x[l] = IF l <= Len(sv) THEN sv[l] ELSE bs[l - Len(sv)]
    BY ConcatProperties, ZenonT(60)
  <2>2. /\ n \in 1..(Len(sv) + Len(bs)) /\ ~(n <= Len(sv)) /\ n - Len(sv) = j
    OBVIOUS
  <2> HIDE DEF n, x
  <2> QED BY <2>1, <2>2, ZenonT(60)
<1> HIDE DEF n, x
<1>8. x \o cs = Due /\ QuitIsLast /\ cs \in Seq(RequestMsgs)
  BY FramesTyped DEF Queue, x
<1>9. n \in 1..Len(Due) /\ Due[n] = bs[j]
  <2> DEFINE y == x \o cs
  <2>1. \A l \in 1..Len(x) : l \in 1..Len(y) /\ y[l] = x[l]
    BY <1>7, <1>8
  <2> HIDE DEF y
  <2>2. y = Due
    BY <1>8 DEF y
  <2> QED BY <1>7, <2>1, <2>2, ZenonT(60)
<1>10. CASE ~Leaving
  <2>1. n \in 1..Len(asked) /\ asked[n] = bs[j]
    BY <1>9, <1>10 DEF Due
  <2>2. asked[n] \in ClientMsgs
    BY <1>1, <2>1
  <2>3. ~Exact(asked[n].len)
    BY <2>1, Zenon DEF WholeRequests
  <2> QED BY <1>6, <2>1, <2>2, <2>3, ZenonT(60)
<1>11. CASE Leaving
  <2>1. asked # <<>> /\ Due = [asked EXCEPT ![Len(asked)] = ResetMsg]
    BY <1>8, <1>11 DEF QuitIsLast, Due
  <2>2. Len(asked) \in 1..Len(asked)
    BY <1>1, <2>1
  <2>3. Overwrites(asked, ResetMsg, Due, RequestMsgs)
    BY <1>1, <2>1, <2>2, Overwritten, ResetType, ZenonT(60)
  <2>4. n \in 1..Len(asked) /\ bs[j] = IF n = Len(asked) THEN ResetMsg ELSE asked[n]
    BY <1>9, <2>3, ZenonT(60) DEF Overwrites
  <2>5. asked[n] \in ClientMsgs
    BY <1>1, <2>4
  <2>6. ~Exact(asked[n].len)
    BY <2>4, Zenon DEF WholeRequests
  <2> QED BY <1>6, <1>11, <2>4, <2>5, <2>6, ResetType, ZenonT(60)
<1> QED BY <1>10, <1>11

(* on_com reads a COM_QUIT and writes a COM_RESET_CONNECTION.              *)
LEMMA OnQuitStep ==
  ASSUME ExchangeInv, OnQuit
  PROVE  Types' /\ Flow' /\ LedgerInv'
(* ... also of a sequence that is put together of two.                     *)
<1>LastReplaced.
      ASSUME NEW S, NEW x \in Seq(S), NEW c \in Seq(S), Len(c) = 1, NEW r \in S,
             NEW a, x \o c = a
      PROVE  Replaced(a, x, r)
  <2> USE <1>LastReplaced
  <2> DEFINE y == x \o <<r>>
             z == [a EXCEPT ![Len(a)] = r]
             n == Len(x) + 1
  <2>1. /\ a \in Seq(S) /\ Len(a) = n /\ n \in Nat \ {0} /\ Len(x) \in Nat
        /\ \A i \in 1..Len(x) : a[i] = x[i]
    <3>1. /\ a \in Seq(S) /\ Len(a) = Len(x) + Len(c)
          /\ \A i \in 1..(Len(x) + Len(c)) : a[i] = IF i <= Len(x) THEN x[i] ELSE c[i - Len(x)]
      BY ConcatProperties, ZenonT(30)
    <3>2. Len(x) \in Nat
      OBVIOUS
    <3> QED BY <3>1, <3>2
  <2>2. /\ y \in Seq(S) /\ Len(y) = n /\ y[n] = r /\ \A i \in 1..Len(x) : y[i] = x[i]
    BY AddedOne
  <2>3. /\ z \in Seq(S) /\ Len(z) = n
        /\ \A j \in 1..n : z[j] = IF j = n THEN r ELSE a[j]
    <3>1. Len(a) \in 1..Len(a)
      BY <2>1
    <3>2. /\ z \in Seq(S) /\ Len(z) = Len(a)
          /\ \A j \in 1..Len(a) : z[j] = IF j = Len(a) THEN r ELSE a[j]
      <4>1. Overwrites(a, r, z, S)
        BY <2>1, <3>1, Overwritten, ZenonT(60)
      <4> QED BY <4>1, Zenon DEF Overwrites
    <3> HIDE DEF z
    <3> QED BY <2>1, <3>2, ZenonT(60)
  <2> HIDE DEF y, z
  <2>4. \A i \in 1..Len(y) : y[i] = z[i]
    <3> SUFFICES ASSUME NEW i \in 1..Len(y) PROVE y[i] = z[i]
      OBVIOUS
    <3>1. i = n \/ i \in 1..Len(x)
      BY <2>1, <2>2
    <3>2. i \in 1..n /\ (i \in 1..Len(x) => i # n)
      BY <2>1, <2>2, SMTT(60)
    <3> HIDE DEF n
    <3> QED BY <2>1, <2>2, <2>3, <3>1, <3>2, ZenonT(60)
  <2>5. y = z
    BY <2>2, <2>3, <2>4, SeqEqual
  <2> QED BY <2>5 DEF Replaced, y, z
(* Arithmetic of QuitIsAlone.                                              *)
<1>OneLeft.
      ASSUME NEW n \in Nat, NEW k \in Nat, NEW l, n + 1 = l, l = n + k
      PROVE  k = 1
  BY <1>OneLeft
(* COM_QUIT is the last request.                                           *)
<1>QuitIsAlone.
      ASSUME ExchangeInv, NEW cs \in Seq(ClientMsgs), NEW bs \in Seq(RequestMsgs),
             NEW sv \in Seq(RequestMsgs), cs # <<>>, (sv \o bs) \o cs = asked,
             QuitIsLast, cs[1].head = "quit"
      PROVE  /\ Len(cs) = 1 /\ Tail(cs) = <<>> /\ asked # <<>>
             /\ asked[Len(asked)].head = "quit"
  <2> USE <1>QuitIsAlone
  <2> DEFINE n == Len(sv \o bs)
  <2>1. n + 1 \in 1..Len(asked) /\ asked[n + 1] = cs[1] /\ Len(asked) = n + Len(cs)
    BY NextAsked
  <2>2. n + 1 = Len(asked)
    BY <2>1 DEF QuitIsLast
  <2>3. n \in Nat
    <3>1. sv \o bs \in Seq(RequestMsgs)
      OBVIOUS
    <3> QED BY <3>1
  <2> HIDE DEF n
  <2>4. Len(cs) = 1
    <3>1. Len(cs) \in Nat
      OBVIOUS
    <3> QED BY <2>1, <2>2, <2>3, <3>1, <1>OneLeft, ZenonT(60)
  <2>5. Tail(cs) = <<>>
    BY <2>4, TailOfOne, Zenon
  <2>6. asked # <<>>
    BY <2>1, <2>3
  <2> QED BY <2>1, <2>2, <2>4, <2>5, <2>6, ZenonT(60)
<1>0. Types /\ LedgerInv
  BY DEF ExchangeInv
<1>1. PICK cs, bs, sv, ms : Ledger(cs, bs, sv, ms)
  BY <1>0, Zenon DEF LedgerInv
<1>2. TakesOut(RequestMsgs, cin, cs) /\ cs[1] \in ClientMsgs
  BY <1>1, RequestTaken DEF OnQuit
<1> DEFINE w == EndPacket(Payload(ResetMsg), bnum)
<1>3. /\ cs[1] \in RequestMsgs /\ cs # <<>> /\ NextData(cin) = Payload(cs[1])
      /\ Carries(Consume(cin).wire, Tail(cs))
  BY <1>2, Zenon DEF TakesOut
<1>4. Payload(cs[1])[1][1] = cs[1]
  BY <1>3, PayloadType, MessagesSized, ZenonT(30) DEF Sized
<1>5. /\ at = "command" /\ cs[1].head = "quit" /\ at' = "reset"
      /\ bout' = bout \o w /\ bnum' = SeqAfter(Payload(ResetMsg), bnum)
      /\ cin' = Consume(cin) /\ got' = <<>> /\ sent' = bin.wire
      /\ UNCHANGED <<deof, bdeof, bin, left, asked, served, wrapped>>
  BY <1>3, <1>4 DEF OnQuit, WriteBackend, ResetMsg
<1>6. bnum \in 0..(NumMod - 1)
  BY <1>0 DEF Types
<1>7. w \in Seq(WrittenFrames) /\ Writes(RequestMsgs, ResetMsg, bnum, w)
  <2>1. ResetMsg \notin ClientMsgs
    BY ResetType DEF ClientMsgs, Commands
  <2> QED BY <1>6, <2>1, ResetType, RequestWritten, WrittenIs, MessagesSized, ZenonT(60)
<1> HIDE DEF w
<1>8. Types' /\ Flow'
  <2>1. bnum' \in 0..(NumMod - 1)
    BY <1>5, <1>7, ZenonT(60) DEF Writes
  <2>2. at' \in Steps
    BY <1>5, ZenonT(60) DEF Steps, Reading
  <2> QED BY <1>2, <1>5, <1>7, <2>1, <2>2, RequestFlow, ZenonT(60)
<1>9. Ledger(Tail(cs), bs \o <<ResetMsg>>, sv, ms)'
  <2>1. /\ cs \in Seq(ClientMsgs) /\ bs \in Seq(RequestMsgs) /\ sv \in Seq(RequestMsgs)
        /\ ms \in Seq(Messages) /\ Carries(bin.wire, ms)
    BY <1>1, ZenonT(60) DEF Ledger
  <2>2. Tail(cs) \in Seq(ClientMsgs) /\ bs \o <<ResetMsg>> \in Seq(RequestMsgs) /\ cs \in Seq(RequestMsgs)
    BY <1>3, <2>1, AddedOne, FramesTyped, HeadTailProperties, ResetType, SMTT(60)
  <2>3. WholeRequests' = WholeRequests /\ Agreed' = Agreed
    BY <1>5, SMTT(30) DEF WholeRequests, Agreed
  <2>4. ASSUME WholeRequests, Queue(cs, bs, sv)
        PROVE  Queue(Tail(cs), bs \o <<ResetMsg>>, sv)'
    <3> DEFINE x == sv \o bs
               y == x \o <<ResetMsg>>
    <3>1. ~Leaving /\ Leaving'
      BY <1>5 DEF Leaving
    <3>2. Due = asked /\ Due' = [asked EXCEPT ![Len(asked)] = ResetMsg]
      BY <1>5, <3>1 DEF Due
    <3>3. x \o cs = asked /\ QuitIsLast
      BY <2>4, <3>2, SMTT(30) DEF Queue
    <3>4. Len(cs) = 1 /\ Tail(cs) = <<>> /\ asked # <<>> /\ asked[Len(asked)].head = "quit"
      BY <1>3, <1>5, <2>1, <3>3, <1>QuitIsAlone, ZenonT(60)
    <3>5. x \in Seq(RequestMsgs) /\ sv \o (bs \o <<ResetMsg>>) = y
      <4> DEFINE z == <<ResetMsg>>
      <4>1. z \in Seq(RequestMsgs)
        BY ResetType, OneSeq
      <4> HIDE DEF z
      <4>2. sv \o (bs \o z) = (sv \o bs) \o z
        BY <2>1, <4>1, SMTT(60)
      <4> QED BY <2>1, <4>2 DEF z
    <3>8. \A i \in 1..Len(x) : x[i].head # "quit"
      BY <2>4 DEF Queue
    <3> HIDE DEF x
    <3>6. /\ y \in Seq(RequestMsgs) /\ Len(y) = Len(x) + 1 /\ \A i \in 1..Len(x) : y[i] = x[i]
          /\ y[Len(x) + 1] = ResetMsg
      BY <3>5, ResetType, AddedOne
    <3>7. y = [asked EXCEPT ![Len(asked)] = ResetMsg]
      <4>1. Replaced(asked, x, ResetMsg)
        BY <2>2, <3>3, <3>4, <3>5, ResetType, <1>LastReplaced, ZenonT(60)
      <4> QED BY <4>1 DEF Replaced
    <3> HIDE DEF x, y
    <3>9. (sv \o (bs \o <<ResetMsg>>)) \o Tail(cs) = Due'
      <4>1. y \o <<>> = y
        BY <3>6
      <4> QED BY <3>2, <3>4, <3>5, <3>7, <4>1, ZenonT(60)
    <3>10. \A i \in 1..Len(y) : y[i].head # "quit"
      <4>1. Len(x) \in Nat
        BY <3>5, SMTT(30)
      <4> QED BY <3>6, <3>8, <4>1, ResetType, SMTT(60)
    <3>11. Carries(bout', bs \o <<ResetMsg>>)
      <4>1. ResetMsg.len % MaxPayload # 0
        <5>1. /\ ResetLen \in 0..(MaxPayload - 1) /\ MaxPayload \in Nat \ {0}
              /\ ResetLen \in Nat \ {0} /\ ResetLen = 0 * MaxPayload + ResetLen
          BY ExchangeAssumption, FramesAssumption
        <5>2. ResetLen % MaxPayload = ResetLen
          BY <5>1, DivUnique
        <5> QED BY <5>1, <5>2, ResetType
      <4>2. w \in Wires(RequestMsgs) /\ Carries(w, <<ResetMsg>>)
        BY <1>7, <4>1, ZenonT(60) DEF Writes
      <4>3. bout \in Wires(RequestMsgs) /\ Carries(bout, bs) /\ <<ResetMsg>> \in Seq(RequestMsgs)
        BY <1>0, <2>4, FramesTyped, OneSeq, ResetType, ZenonT(60) DEF Types, Queue
      <4> QED BY <1>5, <2>1, <4>2, <4>3, CarriesConcat, MessagesSized, ZenonT(60)
    <3>12. QuitIsLast'
      BY <1>5, <3>3, <3>4, ZenonT(60) DEF QuitIsLast
    <3>13. ResetNumbered'
      <4>1. ASSUME NEW i \in 1..Len(bout),
                   bout[i].data[1][1].head = "reset"
            PROVE  FALSE
        <5>1. bout[i].data[1][1] \in ClientMsgs
          BY <1>0, <2>1, <2>4, <3>1, <4>1, OnTheWay, ZenonT(60)
        <5>2. bout[i].data[1][1].head \in Commands
          BY <5>1 DEF ClientMsgs
        <5> QED BY <4>1, <5>2 DEF Commands
      <4>2. Len(w) = 1 /\ w[1].num = bnum
        BY <1>7, ExchangeAssumption, ResetType, ZenonT(60) DEF Writes
      <4>3. bnum = ResetNum
        <5>1. x \in Seq(RequestMsgs) /\ cs \in Seq(RequestMsgs) /\ Len(asked) = Len(x) + 1
          <6>1. Len(x \o cs) = Len(x) + Len(cs)
            BY <2>2, <3>5, ConcatProperties, ZenonT(60)
          <6> QED BY <2>2, <3>3, <3>4, <3>5, <6>1, ZenonT(60)
        <5>2. bnum = IF x = <<>> THEN 0 ELSE NumberAfter(x[Len(x)])
          BY <2>4, <3>1, ZenonT(60) DEF Queue, Numbered, x
        <5>3. CASE x = <<>>
          <6>1. Len(asked) = 1
            BY <5>1, <5>3
          <6> QED BY <5>2, <5>3, <6>1 DEF ResetNum
        <5>4. CASE x # <<>>
          <6>1. Len(x) \in Nat \ {0} /\ Len(asked) # 1 /\ Len(asked) - 1 = Len(x) /\ Len(x) \in 1..Len(x)
            BY <5>1, <5>4
          <6>2. asked[Len(x)] = x[Len(x)]
            BY <2>2, <3>3, <3>5, <6>1
          <6> QED BY <5>2, <5>4, <6>1, <6>2, ZenonT(60) DEF ResetNum
        <5> QED BY <5>3, <5>4
      <4>4. ResetNum' = ResetNum
        BY <1>5 DEF ResetNum
      <4>5. ASSUME NEW i \in 1..Len(bout'), bout'[i].data[1][1].head = "reset"
            PROVE  bout'[i].num = ResetNum'
        <5>1. bout \in Seq(WrittenFrames) /\ w \in Seq(WrittenFrames) /\ bout' = bout \o w
          BY <1>0, <1>5, <1>7 DEF Types
        <5>2. \/ i \in 1..Len(bout) /\ bout'[i] = bout[i]
              \/ bout'[i] = w[1]
          <6> DEFINE v == bout \o w
                     n == Len(bout)
          <6>1. /\ Len(v) = n + Len(w)
                /\ \A l \in 1..(n + Len(w)) : v[l] = IF l <= n THEN bout[l] ELSE w[l - n]
            BY <5>1, ConcatProperties, ZenonT(60)
          <6>2. i \in 1..Len(v) /\ bout' = v /\ n \in Nat
            BY <4>5, <5>1
          <6> HIDE DEF v, n
          <6>3. i \in 1..(n + Len(w)) /\ (i <= n => i \in 1..n) /\ (~(i <= n) => i - n = 1)
            BY <4>2, <6>1, <6>2
          <6> QED BY <6>1, <6>2, <6>3, ZenonT(60) DEF n
        <5>3. bout'[i] = w[1]
          BY <4>1, <4>5, <5>2, ZenonT(60)
        <5> QED BY <4>2, <4>3, <4>4, <5>3, ZenonT(60)
      <4> QED BY <4>5, Zenon DEF ResetNumbered
    <3>14. Numbered(sv \o (bs \o <<ResetMsg>>))'
      BY <3>1, <3>13, ZenonT(60) DEF Numbered
    <3> QED BY <1>5, <2>4, <3>5, <3>9, <3>10, <3>11, <3>12, <3>14, ZenonT(60) DEF Queue
  <2>5. ASSUME Answering(bs, ms) PROVE Answering(bs \o <<ResetMsg>>, ms)'
    <3>1. at' = Sends(ResetMsg.head)
      BY <1>5, ResetType, ZenonT(60) DEF Sends
    <3> QED BY <1>5, <2>1, <2>5, <3>1, RequestAwaited, ResetType, ZenonT(60)
  <2>6. WholeRequests' => /\ Queue(Tail(cs), bs \o <<ResetMsg>>, sv)'
                          /\ Agreed' /\ ~wrapped' => Answering(bs \o <<ResetMsg>>, ms)'
    <3>1. WholeRequests => Queue(cs, bs, sv) /\ (Agreed /\ ~wrapped => Answering(bs, ms))
      BY <1>1 DEF Ledger
    <3> QED BY <1>5, <2>3, <2>4, <2>5, <3>1, ZenonT(60)
  <2> QED BY <1>3, <1>5, <2>1, <2>2, <2>6, ZenonT(60) DEF Ledger
<1>10. LedgerInv'
  BY <1>9, Zenon DEF LedgerInv
<1> QED BY <1>8, <1>10
==============================================================================
