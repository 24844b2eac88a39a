----------------------- MODULE CommandExchangeProofs ------------------------
(***************************************************************************)
(* The steps of the server and of the forwarders keep the invariant of     *)
(* RequestProofs.  So, for all lengths, buffer sizes, results and          *)
(* deliveries of TCP, answers and requests arrive as they were sent, with  *)
(* their numbers, and each forwarder stops where the answer ends.          *)
(***************************************************************************)
EXTENDS RequestProofs

(* The server takes a request and answers.                                 *)
LEMMA ServeStep ==
  ASSUME ExchangeInv, Serve
  PROVE  Types' /\ Flow' /\ LedgerInv'
(* The number of the next frame of an answer.                              *)
<1>NumAfterType.
      ASSUME NEW n \in 0..(NumMod - 1), NEW v \in Wires(Messages)
      PROVE  NumAfter(n, v) \in 0..(NumMod - 1)
  <2>1. n + 1 + Len(v) \in Nat
    BY FramesAssumption, WireFinite
  <2> QED BY <2>1, ModNum DEF NumAfter
(* One step of AnswerFrames is a function on wires.                        *)
<1>AnswerStepOK.
      ASSUME NEW a \in Seq(Messages), NEW n \in 0..(NumMod - 1)
      PROVE  /\ AnswerStep(a, n) \in [Nat -> [Wires(Messages) -> Wires(Messages)]]
             /\ \A k \in 1..Len(a) : \A v \in Wires(Messages) :
                  AnswerStep(a, n)[k][v] = v \o Cut(Payload(a[k]), NumAfter(n, v))
  <2> DEFINE W == Wires(Messages)
             x(k, v) == v \o Cut(Payload(a[k]), NumAfter(n, v))
  <2>1. \A k \in 1..Len(a) : \A v \in W : x(k, v) \in W
    <3> SUFFICES ASSUME NEW k \in 1..Len(a), NEW v \in W PROVE x(k, v) \in W
      OBVIOUS
    <3>1. a[k] \in Messages
      OBVIOUS
    <3>2. Cut(Payload(a[k]), NumAfter(n, v)) \in W
      BY <3>1, <1>NumAfterType, MessagesSized, CutCarries, Zenon
    <3> QED BY <3>2, WireConcat
  <2>2. AnswerStep(a, n) = [k \in Nat |-> [v \in W |-> IF k \in 1..Len(a) THEN x(k, v) ELSE v]]
    BY DEF AnswerStep
  <2> HIDE DEF x, W
  <2>3. \A k \in Nat : [v \in W |-> IF k \in 1..Len(a) THEN x(k, v) ELSE v] \in [W -> W]
    BY <2>1
  <2>4. AnswerStep(a, n) \in [Nat -> [W -> W]]
    BY <2>2, <2>3
  <2>5. \A k \in 1..Len(a) : \A v \in W : AnswerStep(a, n)[k][v] = x(k, v)
    BY <2>2
  <2> QED BY <2>4, <2>5 DEF x, W
(* AnswerFrames is the last value of a function that adds the messages one *)
(* by one.                                                                 *)
<1>AnswerFramesOf.
      ASSUME NEW a \in Seq(Messages), NEW n \in 0..(NumMod - 1)
      PROVE  \E f : AnswerFrames(a, n) = f[Len(a)] /\ AnswerSums(a, n, f)
  <2> DEFINE N == Len(a)
             W == Wires(Messages)
             x(k, v) == v \o Cut(Payload(a[k]), NumAfter(n, v))
             w[k \in 0..Len(a)] ==
               IF k = 0 THEN <<>>
               ELSE w[k - 1] \o Cut(Payload(a[k]), (n + 1 + Len(w[k - 1])) % NumMod)
             UpTo(f) == [k \in 0..N |-> IF k = 0 THEN <<>> ELSE x(k, f[k - 1])]
  <2>1. AnswerFrames(a, n) = w[Len(a)] /\ N \in Nat
    BY DEF AnswerFrames
  <2>2. w = CHOOSE f : f = [k \in 0..Len(a) |->
               IF k = 0 THEN <<>>
               ELSE f[k - 1] \o Cut(Payload(a[k]), (n + 1 + Len(f[k - 1])) % NumMod)]
    OBVIOUS
  <2>3. w = CHOOSE f : f = UpTo(f)
    BY <2>2 DEF NumAfter
  <2> HIDE DEF w
  <2>4. PICK f \in [0..N -> W] : GoesOn(f, N, <<>>, AnswerStep(a, n))
    <3>1. <<>> \in W
      BY DEF Wires
    <3>2. AnswerStep(a, n) \in [Nat -> [W -> W]]
      BY <1>AnswerStepOK
    <3> HIDE DEF N, W
    <3> QED BY <2>1, <3>1, <3>2, RecExists, Zenon
  <2>5. ASSUME NEW k \in 1..N PROVE f[k] = x(k, f[k - 1])
    <3>1. k - 1 \in 0..N /\ k \in 1..Len(a)
      BY <2>1
    <3> HIDE DEF N
    <3>2. f[k - 1] \in W
      BY <3>1
    <3>3. f[k] = AnswerStep(a, n)[k][f[k - 1]]
      BY <2>4 DEF GoesOn
    <3>4. AnswerStep(a, n)[k][f[k - 1]] = x(k, f[k - 1])
      BY <3>1, <3>2, <1>AnswerStepOK, Zenon
    <3> QED BY <3>3, <3>4, Zenon
  <2>6. f[0] = <<>>
    BY <2>4 DEF GoesOn
  <2> HIDE DEF x, N, W
  <2>7. f = UpTo(f)
    <3>1. f = [k \in 0..N |-> f[k]]
      OBVIOUS
    <3>2. \A k \in 0..N : f[k] = IF k = 0 THEN <<>> ELSE x(k, f[k - 1])
      BY <2>1, <2>5, <2>6
    <3> QED BY <3>1, <3>2
  <2>8. w = UpTo(w)
    <3> HIDE DEF UpTo
    <3> QED BY <2>3, <2>7
  <2>9. w[0] = <<>> /\ \A k \in 1..N : w[k] = x(k, w[k - 1])
    <3> DEFINE h == UpTo(w)
    <3>1. h[0] = <<>> /\ \A k \in 1..N : h[k] = x(k, w[k - 1])
      BY <2>1
    <3> HIDE DEF h
    <3>2. w = h
      BY <2>8, Zenon DEF h
    <3> QED BY <3>1, <3>2
  <2>10. AnswerSums(a, n, w)
    BY <2>9, Zenon DEF AnswerSums, x, N
  <2> QED BY <2>1, <2>10
(* The frames of an answer carry it.                                       *)
<1>AnswerFramesCarry.
      ASSUME NEW a \in Seq(Messages), NEW n \in 0..(NumMod - 1)
      PROVE  AnswerFrames(a, n) \in Wires(Messages) /\ Carries(AnswerFrames(a, n), a)
  <2>1. PICK f : AnswerFrames(a, n) = f[Len(a)] /\ AnswerSums(a, n, f)
    BY <1>AnswerFramesOf
  <2> DEFINE N == Len(a)
             OK(k) == f[k] \in Wires(Messages) /\ Carries(f[k], SubSeq(a, 1, k))
             S == {k \in Nat : k <= N => OK(k)}
  <2>2. N \in Nat
    OBVIOUS
  <2>3. SubSeq(a, 1, 0) = <<>> /\ SubSeq(a, 1, N) = a
    OBVIOUS
  <2> HIDE DEF N
  <2>4. 0 \in S
    <3>1. f[0] = <<>>
      BY <2>1 DEF AnswerSums
    <3>2. <<>> \in Wires(Messages)
      BY DEF Wires
    <3> QED BY <2>3, <3>1, <3>2, CarriesNone, Zenon
  <2>5. ASSUME NEW j \in Nat, j \in S PROVE j + 1 \in S
    <3> SUFFICES ASSUME j + 1 <= N PROVE OK(j + 1)
      OBVIOUS
    <3>1. PICK k \in 1..N : k = j + 1 /\ k - 1 = j
      BY <2>2
    <3>2. OK(k - 1)
      BY <2>2, <2>5, <3>1
    <3> DEFINE v == f[k - 1]
               c == Cut(Payload(a[k]), NumAfter(n, v))
               b == SubSeq(a, 1, k - 1)
    <3>3. f[k] = v \o c
      BY <2>1, Zenon DEF AnswerSums, N
    <3>4. /\ b \in Seq(Messages) /\ a[k] \in Messages
          /\ SubSeq(a, 1, k) = b \o <<a[k]>>
      BY PrefixGrows DEF N
    <3>5. v \in Wires(Messages) /\ Carries(v, b)
      BY <3>2
    <3>6. c \in Wires(Messages) /\ Carries(c, <<a[k]>>)
      BY <3>4, <3>5, <1>NumAfterType, MessagesSized, CutCarries, Zenon
    <3>7. <<a[k]>> \in Seq(Messages)
      BY <3>4, OneSeq
    <3> HIDE DEF v, c, b
    <3>8. v \o c \in Wires(Messages)
      BY <3>5, <3>6, WireConcat
    <3>9. Carries(v \o c, b \o <<a[k]>>)
      BY <3>4, <3>5, <3>6, <3>7, MessagesSized, CarriesConcat, Zenon
    <3>10. OK(k)
      BY <3>3, <3>4, <3>8, <3>9, Zenon
    <3> QED BY <3>1, <3>10, Zenon
  <2> HIDE DEF S, OK
  <2>6. Nat \subseteq S
    BY <2>4, <2>5, SetInduction
  <2>7. OK(N)
    BY <2>2, <2>6 DEF S
  <2> QED BY <2>1, <2>3, <2>7, Zenon DEF OK, N
(* What the server sends for a request.                                    *)
<1>RepliesAre.
      ASSUME NEW com \in Commands \cup {"reset"}, NEW d \in BOOLEAN, NEW n \in 0..(NumMod - 1),
             NEW w \in Replies[com][d][n]
      PROVE  \E a \in Answers(com, d) : /\ a \in Seq(Messages) /\ w \in Wires(Messages)
                                        /\ Carries(w, a)
  <2>1. Replies[com][d][n] = {AnswerFrames(a, n) : a \in Answers(com, d)}
    BY DEF Replies
  <2>2. PICK a \in Answers(com, d) : w = AnswerFrames(a, n)
    BY <2>1, Zenon
  <2>3. a \in Seq(Messages)
    BY <2>2, AnswersStop, Zenon
  <2> QED BY <2>2, <2>3, <1>AnswerFramesCarry, Zenon
(* What the server takes for a request starts like one.                    *)
<1>ServedIs.
      ASSUME Types, NEW r, r = [wire |-> bout, rem |-> WireLen(bout)], Ready(r)
      PROVE  /\ Joined(r) \in 1..Len(bout)
             /\ NextData(r)[1][1].head \in Commands \cup {"reset"}
             /\ NextNum(r) \in 0..(NumMod - 1)
  <2> USE <1>ServedIs
  <2>1. Joined(r) \in Parsed(bout, WireLen(bout)) /\ r.wire = bout
    BY DEF Ready, Joined
  <2> DEFINE k == Joined(r)
  <2>2. k \in 1..Len(bout)
    BY <2>1 DEF Parsed
  <2>3. bout \in Seq(WrittenFrames) /\ bout \in Wires(RequestMsgs)
    BY FramesTyped DEF Types
  <2>4. NextData(r) = Data(SubSeq(bout, 1, k)) /\ NextNum(r) = bout[k].num
    BY <2>1 DEF NextData, NextNum
  <2> HIDE DEF k
  <2>5. bout[1].data # <<>>
    <3>1. 1 \in 1..Len(bout)
      BY <2>2, <2>3
    <3>2. bout[1] \in WrittenFrames
      BY <2>3, <3>1
    <3> QED BY <3>2, Zenon DEF WrittenFrames
  <2>6. Data(SubSeq(bout, 1, k))[1][1] \in RequestMsgs
    BY <2>2, <2>3, <2>5, FirstByte
  <2>7. bout[k].num \in 0..(NumMod - 1)
    BY <2>2, <2>3, WireSeq, FrameData
  <2>8. NextData(r)[1][1].head \in Commands \cup {"reset"}
    BY <2>4, <2>6 DEF RequestMsgs
  <2> QED BY <2>2, <2>4, <2>7, <2>8 DEF k
(* The answer to the first of the requests on the way.                     *)
<1>AnswerSent.
      ASSUME NEW bs \in Seq(RequestMsgs), bs # <<>>, NEW ms, Answering(bs, ms),
             deof \in BOOLEAN, NEW a \in Answers(bs[1].head, deof),
             UNCHANGED <<at, left, deof>>
      PROVE  Answering(Tail(bs), ms \o a)'
  <2> USE <1>AnswerSent
  <2> DEFINE n == Len(bs)
             t == Tail(bs)
             h == bs[1].head
  <2>1. /\ n \in Nat \ {0} /\ bs[1] \in RequestMsgs /\ t \in Seq(RequestMsgs)
        /\ Len(t) = n - 1 /\ \A i \in 1..(n - 1) : t[i] = bs[i + 1]
    BY HeadTailProperties
  <2>2. h \in Commands \cup {"reset"}
    BY <2>1 DEF RequestMsgs
  <2>3. /\ a \in Seq(Messages)
        /\ h \in Unanswered => a = <<>>
        /\ h \notin Unanswered => Stops(deof, <<Sends(h), left>>, a)
    BY <2>2, AnswersStop
  <2>4. ms = <<>>
    BY DEF Answering
  <2>5. ms \o a = a
    BY <2>3, <2>4
  <2> HIDE DEF h, t, n
  <2>6. n = Len(bs) /\ h = bs[1].head
    BY DEF n, h
  <2>9. 1 \in 1..n /\ (n # 1 => 1 \in 1..(n - 1))
    BY <2>1
  <2>7. CASE at \notin Reading
    <3>1. \A i \in 1..n : bs[i].head = "close"
      BY <2>6, <2>7 DEF Answering
    <3>2. h = "close"
      BY <2>6, <2>9, <3>1, Zenon
    <3>3. a = <<>>
      BY <2>3, <3>2 DEF Unanswered
    <3>4. \A i \in 1..Len(t) : t[i].head = "close"
      BY <2>1, <3>1
    <3> QED BY <2>5, <2>7, <3>3, <3>4 DEF Answering, t
  <2>8. CASE at \in Reading
    <3>1. /\ \A i \in 1..(n - 1) : bs[i].head = "close"
          /\ bs[n].head # "close" /\ at = Sends(bs[n].head)
      BY <2>6, <2>8 DEF Answering
    <3>2. CASE n = 1
      <4>1. h # "close" /\ at = Sends(h)
        BY <2>6, <3>1, <3>2
      <4>2. t = <<>>
        BY <2>6, <3>2, TailOfOne, Zenon DEF t
      <4>3. CASE h = "longdata"
        <5>1. a = <<>> /\ at = "one"
          <6>1. h \in Unanswered /\ Sends(h) = "one"
            BY <4>3 DEF Unanswered, Sends, Forwarder
          <6> QED BY <2>3, <4>1, <6>1
        <5> QED BY <2>5, <4>2, <5>1 DEF Answering, t
      <4>4. CASE h # "longdata"
        <5>1. Stops(deof, <<at, left>>, a)
          BY <2>3, <4>1, <4>4, ZenonT(60) DEF Unanswered
        <5> QED BY <2>5, <2>8, <4>2, <5>1 DEF Answering, t
      <4> QED BY <4>3, <4>4
    <3>3. CASE n # 1
      <4>1. h = "close"
        BY <2>6, <2>9, <3>1, <3>3, Zenon
      <4>2. a = <<>>
        BY <2>3, <4>1 DEF Unanswered
      <4>3. /\ Len(t) \in 1..(n - 1) /\ t[Len(t)] = bs[n] /\ t # <<>>
            /\ \A i \in 1..(Len(t) - 1) : t[i].head = "close"
        <5>1. Len(t) = n - 1 /\ n - 1 \in 1..(n - 1) /\ (n - 1) + 1 = n /\ n \in Nat
          BY <2>1, <3>3
        <5>2. t[n - 1] = bs[(n - 1) + 1]
          BY <2>1, <5>1, Zenon
        <5>3. t # <<>>
          BY <2>1, <5>1
        <5>4. ASSUME NEW i \in 1..(Len(t) - 1) PROVE t[i].head = "close"
          <6>1. i \in 1..(n - 1) /\ i + 1 \in 1..(n - 1)
            BY <5>1
          <6>2. t[i] = bs[i + 1]
            BY <2>1, <6>1, Zenon
          <6> QED BY <3>1, <6>1, <6>2, Zenon
        <5> QED BY <5>1, <5>2, <5>3, <5>4
      <4> QED BY <2>5, <2>8, <3>1, <4>2, <4>3 DEF Answering, t
    <3> QED BY <3>2, <3>3
  <2> QED BY <2>7, <2>8
(* What the server sends is added on both sides of Flow.                   *)
<1>FlowGrows.
      ASSUME Types, Flow, NEW w \in Wires(Messages), bin'.wire = bin.wire \o w,
             sent' = sent \o w, UNCHANGED <<got, at>>
      PROVE  Flow'
  <2> USE <1>FlowGrows
  <2> DEFINE b == bin.wire
             B == Bytes(Messages)
  <2>1. got \in Wires(Messages) /\ b \in Wires(Messages) /\ sent \in Wires(Messages)
    BY FramesTyped DEF Types
  <2> HIDE DEF b
  <2>2. Data(b \o w) = Data(b) \o Data(w) /\ Data(sent \o w) = Data(sent) \o Data(w)
    <3> DEFINE F == FramesOf(B)
    <3>1. b \in Seq(F) /\ sent \in Seq(F) /\ w \in Seq(F)
      BY <2>1, WireSeq
    <3> HIDE DEF B
    <3>2. Data(b \o w) = Data(b) \o Data(w)
      BY <3>1, DataConcat
    <3>3. Data(sent \o w) = Data(sent) \o Data(w)
      BY <3>1, DataConcat, ZenonT(60)
    <3> QED BY <3>2, <3>3
  <2>3. /\ Data(got) \in Seq(B) /\ Data(b) \in Seq(B) /\ Data(w) \in Seq(B)
    BY <2>1, WireSeq, DataType
  <2>4. Data(got) \o (Data(b) \o Data(w)) = (Data(got) \o Data(b)) \o Data(w)
    <3> DEFINE x == Data(got)
               y == Data(b)
               z == Data(w)
    <3> HIDE DEF x, y, z, B
    <3>1. x \in Seq(B) /\ y \in Seq(B) /\ z \in Seq(B)
      BY <2>3 DEF x, y, z
    <3>2. x \o (y \o z) = (x \o y) \o z
      BY <3>1, SMTT(60)
    <3> QED BY <3>2 DEF x, y, z
  <2>5. got \o (b \o w) = (got \o b) \o w
    <3> DEFINE F == FramesOf(B)
    <3>1. got \in Seq(F) /\ b \in Seq(F) /\ w \in Seq(F)
      BY <2>1, WireSeq
    <3> HIDE DEF F
    <3> QED BY <3>1, SMTT(60)
  <2>6. ASSUME at # "left" PROVE Data(got) \o Data(b \o w) = Data(sent \o w)
    <3>1. Data(got) \o Data(b) = Data(sent)
      BY <2>6 DEF Flow, b
    <3> QED BY <2>2, <2>4, <3>1, Zenon
  <2>7. ASSUME at # "left", \A i \in 1..Len(sent \o w) : ~IsFull((sent \o w)[i])
        PROVE  got \o (b \o w) = sent \o w
    <3>1. ASSUME NEW i \in 1..Len(sent) PROVE ~IsFull(sent[i])
      <4> DEFINE F == FramesOf(B)
      <4>1. sent \in Seq(F) /\ w \in Seq(F)
        BY <2>1, WireSeq
      <4> HIDE DEF F
      <4>2. i \in 1..Len(sent \o w) /\ (sent \o w)[i] = sent[i]
        BY <4>1
      <4>3. ~IsFull((sent \o w)[i])
        BY <2>7, <4>2, Zenon
      <4> QED BY <4>2, <4>3, Zenon
    <3>2. got \o b = sent
      BY <2>7, <3>1 DEF Flow, b
    <3> QED BY <2>5, <3>2, Zenon
  <2> QED BY <2>6, <2>7, Zenon DEF Flow, b
(* Append, as a function.                                                  *)
<1>AppendIs.
      ASSUME NEW S, NEW f \in Seq(S), NEW e
      PROVE  Append(f, e) = [i \in 1..(Len(f) + 1) |-> IF i = Len(f) + 1 THEN e ELSE f[i]]
  <2> DEFINE T == S \cup {e}
             g == Append(f, e)
             h == [i \in 1..(Len(f) + 1) |-> IF i = Len(f) + 1 THEN e ELSE f[i]]
  <2>1. f \in Seq(T) /\ e \in T /\ Len(f) \in Nat
    OBVIOUS
  <2> HIDE DEF T
  <2>2. /\ g \in Seq(T) /\ Len(g) = Len(f) + 1 /\ \A i \in 1..Len(f) : g[i] = f[i]
        /\ g[Len(f) + 1] = e
    BY <2>1, AppendProperties
  <2> HIDE DEF g
  <2>3. g \in [1..(Len(f) + 1) -> T]
    BY <2>2, LenProperties
  <2>4. \A i \in 1..(Len(f) + 1) : g[i] = h[i]
    BY <2>1, <2>2
  <2>5. g = h
    <3>1. h \in [1..(Len(f) + 1) -> T]
      BY <2>1
    <3> HIDE DEF h
    <3> QED BY <2>3, <2>4, <3>1
  <2> QED BY <2>5 DEF g
<1>Associative. \A a, b, c \in Seq(RequestMsgs) : (a \o b) \o c = a \o (b \o c)
  BY ConcatAssociative, SMTT(60)
(* The server takes a request.                                             *)
<1>QueueServed.
      ASSUME Types, NEW cs, NEW bs \in Seq(RequestMsgs), NEW sv \in Seq(RequestMsgs),
             Queue(cs, bs, sv), bs # <<>>, Carries(bout', Tail(bs)),
             served' = Append(served, Payload(bs[1])), UNCHANGED <<at, asked, bnum>>,
             NEW k \in 1..Len(bout), bout' = SubSeq(bout, k + 1, Len(bout))
      PROVE  Queue(cs, Tail(bs), sv \o <<bs[1]>>)'
  <2> USE <1>QueueServed
  <2> DEFINE m == bs[1]
             x == <<m>>
             t == Tail(bs)
             s == sv \o x
  <2>1. m \in RequestMsgs /\ t \in Seq(RequestMsgs) /\ bs = x \o t /\ x \in Seq(RequestMsgs)
    BY Moves, OneSeq
  <2>2. /\ s \in Seq(RequestMsgs) /\ Len(s) = Len(sv) + 1
        /\ \A i \in 1..Len(sv) : s[i] = sv[i]
        /\ s[Len(sv) + 1] = m
    BY <2>1, AddedOne
  <2> HIDE DEF m, t
  <2>3. sv \o bs = s \o t
    <3> HIDE DEF x, s
    <3>0. sv \in Seq(RequestMsgs) /\ x \in Seq(RequestMsgs) /\ t \in Seq(RequestMsgs)
      BY <2>1, ZenonT(60)
    <3>1. (sv \o x) \o t = sv \o (x \o t)
      BY <3>0, <1>Associative, ZenonT(60)
    <3> QED BY <2>1, <3>1 DEF s
  <2>4. served' = [i \in 1..Len(s) |-> Payload(s[i])]
    <3> HIDE DEF x, s
    <3> DEFINE F == [i \in 1..Len(sv) |-> Payload(sv[i])]
               n == Len(sv)
    <3>1. served = F /\ n \in Nat
      BY DEF Queue
    <3>2. F \in Seq({Payload(sv[i]) : i \in 1..n}) /\ Len(F) = n
      BY <3>1
    <3> HIDE DEF F
    <3>3. Append(F, Payload(m)) = [i \in 1..(n + 1) |-> IF i = n + 1 THEN Payload(m) ELSE F[i]]
      <4>1. Append(F, Payload(m)) =
              [i \in 1..(Len(F) + 1) |-> IF i = Len(F) + 1 THEN Payload(m) ELSE F[i]]
        BY <3>2, <1>AppendIs
      <4> QED BY <3>2, <4>1
    <3>4. ASSUME NEW i \in 1..(n + 1)
          PROVE  (IF i = n + 1 THEN Payload(m) ELSE F[i]) = Payload(s[i])
      <4>1. CASE i = n + 1
        BY <2>2, <4>1, Zenon
      <4>2. CASE i # n + 1
        <5>1. i \in 1..n
          BY <3>1, <4>2
        <5>2. F[i] = Payload(sv[i])
          BY <5>1 DEF F
        <5> QED BY <2>2, <4>2, <5>1, <5>2, ZenonT(60)
      <4> QED BY <4>1, <4>2
    <3> HIDE DEF n
    <3>5. Append(F, Payload(m)) = [i \in 1..(n + 1) |-> Payload(s[i])]
      BY <3>3, <3>4, Zenon
    <3>6. Len(s) = n + 1
      BY <2>2 DEF n
    <3> QED BY <3>1, <3>5, <3>6 DEF m
  <2>5. Leaving' = Leaving /\ Due' = Due
    BY DEF Leaving, Due
  <2>6. QuitIsLast'
    BY <2>5 DEF Queue, QuitIsLast
  <2>7. (s \o t) \o cs = Due
    BY <2>3, ZenonT(60) DEF Queue
  <2>8. \A i \in 1..Len(s \o t) : (s \o t)[i].head # "quit"
    <3>1. \A i \in 1..Len(sv \o bs) : (sv \o bs)[i].head # "quit"
      BY DEF Queue
    <3> QED BY <2>3, <3>1, Zenon
  <2>9. Carries(bout', t)
    BY DEF t
  <2>11. Numbered(s \o t)'
    <3>1. Numbered(sv \o bs)
      BY DEF Queue
    <3>2. ResetNum' = ResetNum
      BY DEF ResetNum
    <3>3. ASSUME ResetNumbered PROVE ResetNumbered'
      <4>1. bout \in Seq(WrittenFrames)
        BY DEF Types
      <4>2. \A i \in 1..Len(bout') : k + i \in 1..Len(bout) /\ bout'[i] = bout[k + i]
        <5>1. Len(bout') = Len(bout) - k
          BY <4>1
        <5> QED BY <4>1, <5>1
      <4> QED BY <3>2, <3>3, <4>2, ZenonT(60) DEF ResetNumbered
    <3> QED BY <2>3, <2>5, <3>1, <3>3, ZenonT(60) DEF Numbered
  <2> HIDE DEF s
  <2>10. Queue(cs, t, s)'
    BY <2>4, <2>5, <2>6, <2>7, <2>8, <2>9, <2>11, ZenonT(30) DEF Queue
  <2> QED BY <2>10 DEF s, t, m
<1> DEFINE r == [wire |-> bout, rem |-> WireLen(bout)]
           com == NextData(r)[1][1].head
<1>0. BufferOK(bin) /\ Types /\ Flow /\ LedgerInv
  BY DEF ExchangeInv, BufferInv
<1>1. /\ Ready(r)
      /\ served' = Append(served, NextData(r))
      /\ bout' = SubSeq(bout, Joined(r) + 1, Len(bout))
      /\ UNCHANGED <<deof, bdeof, cin, bnum, got, at, left, asked, wrapped>>
  BY DEF Serve
<1>2. PICK w \in Replies[com][bdeof][NextNum(r)] :
        bin' = [bin EXCEPT !.wire = bin.wire \o w] /\ sent' = sent \o w
  BY Zenon DEF Serve
<1>3. Joined(r) \in 1..Len(bout) /\ com \in Commands \cup {"reset"} /\ NextNum(r) \in 0..(NumMod - 1)
  BY <1>0, <1>1, <1>ServedIs, ZenonT(60)
<1>4. r.wire = bout /\ r.rem = WireLen(bout)
  OBVIOUS
<1> HIDE DEF r
<1>5. PICK a \in Answers(com, bdeof) :
        a \in Seq(Messages) /\ w \in Wires(Messages) /\ Carries(w, a)
  <2>1. bdeof \in BOOLEAN
    BY <1>0 DEF Types
  <2> HIDE DEF com
  <2> QED BY <1>2, <1>3, <2>1, <1>RepliesAre, ZenonT(60)
<1> HIDE DEF com
<1>6. bin'.wire = bin.wire \o w /\ bin'.rem = bin.rem
  BY <1>0, <1>2 DEF BufferOK
<1>7. Types'
  <2>1. bin.wire \in Wires(Messages) /\ sent \in Wires(Messages) /\ bin.rem <= WireLen(bin.wire)
    BY <1>0 DEF Types
  <2>2. bin.wire \o w \in Wires(Messages) /\ sent \o w \in Wires(Messages)
    BY <1>5, <2>1, WireConcat
  <2>3. bin.rem <= WireLen(bin.wire \o w)
    <3>1. WireLen(bin.wire \o w) = WireLen(bin.wire) + WireLen(w)
      BY <1>5, <2>1, WireLenConcat, WireSeq, ZenonT(60)
    <3>2. WireLen(bin.wire) \in Nat /\ WireLen(w) \in Nat /\ bin.rem \in Nat
      BY <1>0, <1>5, <2>1, WireLenType, WireSeq, ZenonT(60) DEF BufferOK
    <3> QED BY <2>1, <3>1, <3>2
  <2>4. bout' \in Seq(WrittenFrames)
    <3> DEFINE k == Joined(r)
    <3>1. bout \in Seq(WrittenFrames) /\ k \in 1..Len(bout)
      BY <1>0, <1>3 DEF Types
    <3> HIDE DEF k
    <3>2. SubSeq(bout, k + 1, Len(bout)) \in Seq(WrittenFrames)
      BY <3>1, SubSeqProperties
    <3> QED BY <1>1, <3>2 DEF k
  <2> QED BY <1>0, <1>1, <1>2, <1>6, <2>2, <2>3, <2>4, ZenonT(60) DEF Types
<1>8. Flow'
  BY <1>0, <1>1, <1>2, <1>5, <1>6, <1>FlowGrows, ZenonT(60)
<1>9. PICK cs, bs, sv, ms : Ledger(cs, bs, sv, ms)
  BY <1>0, Zenon DEF LedgerInv
<1>10. /\ cs \in Seq(ClientMsgs) /\ bs \in Seq(RequestMsgs) /\ sv \in Seq(RequestMsgs)
       /\ ms \in Seq(Messages) /\ Carries(cin.wire, cs) /\ Carries(bin.wire, ms)
  BY <1>9 DEF Ledger
<1>11. ms \o a \in Seq(Messages) /\ Carries(bin'.wire, ms \o a)
  <2>1. bin.wire \in Wires(Messages)
    BY <1>0 DEF Types
  <2>2. Carries(bin.wire \o w, ms \o a)
    BY <1>5, <1>10, <2>1, CarriesConcat, MessagesSized, ZenonT(60)
  <2> QED BY <1>5, <1>6, <1>10, <2>2, SMTT(60)
<1>12. WholeRequests' = WholeRequests /\ Agreed' = Agreed
  BY <1>1 DEF WholeRequests, Agreed
<1>13. CASE ~WholeRequests
  <2>1. Ledger(cs, bs, sv, ms \o a)'
    BY <1>1, <1>10, <1>11, <1>12, <1>13, ZenonT(60) DEF Ledger
  <2>2. LedgerInv'
    BY <2>1, Zenon DEF LedgerInv
  <2> QED BY <1>7, <1>8, <2>2, ZenonT(60)
<1>14. CASE WholeRequests
  <2>1. Queue(cs, bs, sv) /\ (Agreed /\ ~wrapped => Answering(bs, ms))
    BY <1>9, <1>14 DEF Ledger
  <2>2. TakesOut(RequestMsgs, r, bs)
    <3>1. bout \in Wires(RequestMsgs) /\ Carries(bout, bs)
      BY <1>0, <2>1, FramesTyped DEF Types, Queue
    <3>2. WireLen(bout) \in Nat
      BY <3>1, WireSeq, WireLenType
    <3>3. /\ r.wire \in Wires(RequestMsgs) /\ r.rem \in Nat /\ r.rem <= WireLen(r.wire)
          /\ Carries(r.wire, bs)
      BY <1>4, <3>1, <3>2
    <3> QED BY <1>1, <1>10, <3>3, TakenIs, MessagesSized, ZenonT(60)
  <2>3. /\ bs # <<>> /\ bs[1] \in RequestMsgs /\ NextData(r) = Payload(bs[1])
        /\ Carries(Consume(r).wire, Tail(bs))
    BY <2>2, Zenon DEF TakesOut
  <2>4. Consume(r).wire = bout'
    BY <1>1, <1>4, Zenon DEF Consume
  <2>5. com = bs[1].head
    <3>1. Payload(bs[1])[1][1] = bs[1]
      BY <2>3, PayloadType, MessagesSized, Zenon DEF Sized
    <3> QED BY <2>3, <3>1 DEF com
  <2>6. Queue(cs, Tail(bs), sv \o <<bs[1]>>)'
    BY <1>0, <1>1, <1>3, <1>10, <2>1, <2>3, <2>4, <1>QueueServed, ZenonT(60)
  <2>7. ASSUME Agreed, ~wrapped PROVE Answering(Tail(bs), ms \o a)'
    <3>1. deof \in BOOLEAN /\ a \in Answers(bs[1].head, deof)
      BY <1>0, <1>5, <2>5, <2>7, ZenonT(60) DEF Types, Agreed
    <3> QED BY <1>1, <1>10, <2>1, <2>3, <2>7, <3>1, <1>AnswerSent, ZenonT(60)
  <2>8. Tail(bs) \in Seq(RequestMsgs) /\ sv \o <<bs[1]>> \in Seq(RequestMsgs)
    BY <1>10, <2>3, AddedOne, HeadTailProperties, ZenonT(60)
  <2>9. Ledger(cs, Tail(bs), sv \o <<bs[1]>>, ms \o a)'
    BY <1>1, <1>10, <1>11, <1>12, <2>6, <2>7, <2>8, ZenonT(60) DEF Ledger
  <2>10. LedgerInv'
    BY <2>9, Zenon DEF LedgerInv
  <2> QED BY <1>7, <1>8, <2>10, ZenonT(60)
<1> QED BY <1>13, <1>14

----------------------------------------------------------------------------
(* What a forwarder does with the packet it reads: it moves on as Go says, *)
(* unless the count of packets has overflowed, ...                         *)
MovesOn(m) == wrapped' \/ <<at', left'>> = Go(deof, <<at, left>>, m)

PacketTaken ==
  /\ at \in Reading /\ Takes(bin) /\ bin' = Consume(bin) /\ at' \in Steps
  /\ UNCHANGED <<deof, bdeof, cin, bnum, bout, asked, served, sent>>
  /\ \/ /\ at # "reset" /\ at' \notin {"reset", "left"}
        /\ got' = got \o EndPacket(NextData(bin), NextNum(bin))
     \/ at = "reset" /\ at' = "left" /\ got' = got
  /\ wrapped => wrapped'
  /\ \A m \in Messages : NextData(bin) = Payload(m) => MovesOn(m)

(* ... which is enough for the invariant.                                  *)
LEMMA PacketStep ==
  ASSUME ExchangeInv, PacketTaken
  PROVE  Types' /\ Flow' /\ LedgerInv'
(* ... and to the client.                                                  *)
<1>AnswerWritten.
      ASSUME NEW m \in Messages, NEW s \in 0..(NumMod - 1)
      PROVE  EndPacket(Payload(m), s) \in Seq(AnswerPieces)
  <2> DEFINE w == EndPacket(Payload(m), s)
  <2>0. Writes(Messages, m, s, w)
    BY MessagesSized, WrittenIs
  <2> HIDE DEF w
  <2>1. /\ w \in Wires(Messages)
        /\ \A i \in 1..Len(w) : \E k \in 1..Pieces(m) : w[i].data = Piece(m, k)
    BY <2>0, Zenon DEF Writes
  <2>2. ASSUME NEW i \in 1..Len(w) PROVE w[i] \in AnswerPieces
    <3>1. w[i] \in FramesOf(Bytes(Messages))
      BY <2>1, WireSeq, FrameData
    <3> QED BY <2>1, <3>1, ZenonT(60) DEF AnswerPieces
  <2>3. w \in Seq(AnswerPieces)
    BY <2>1, <2>2, WireIn
  <2> QED BY <2>3 DEF w
(* The reader of the server's bytes returns the first message on the way.  *)
<1>AnswerTaken.
      ASSUME ExchangeInv, Takes(bin), NEW cs, NEW bs, NEW sv, NEW ms, Ledger(cs, bs, sv, ms)
      PROVE  TakesOut(Messages, bin, ms)
  <2> USE <1>AnswerTaken
  <2>1. bin.wire \in Wires(Messages) /\ bin.rem <= WireLen(bin.wire) /\ bin.rem \in Nat
    BY DEF ExchangeInv, Types, BufferInv, BufferOK
  <2>2. ms \in Seq(Messages) /\ Carries(bin.wire, ms) /\ Ready(bin)
    BY DEF Ledger, Takes
  <2> QED BY <2>1, <2>2, TakenIs, MessagesSized, ZenonT(60)
(* A message that is forwarded, ...                                        *)
<1>FlowForwarded.
      ASSUME Types, Flow, NEW ms, TakesOut(Messages, bin, ms), bin' = Consume(bin), sent' = sent,
             got' = got \o EndPacket(NextData(bin), NextNum(bin)), at \in Reading
      PROVE  Flow' /\ got' \in Seq(AnswerPieces)
  <2> USE <1>FlowForwarded
  <2> DEFINE m == ms[1]
             s == NextNum(bin)
             w == EndPacket(Payload(m), s)
             b == bin.wire
             c == Consume(bin).wire
             B == Bytes(Messages)
  <2>1. /\ m \in Messages /\ NextData(bin) = Payload(m) /\ s \in 0..(NumMod - 1)
        /\ c \in Wires(Messages) /\ Data(b) = Payload(m) \o Data(c)
        /\ Joined(bin) \in 1..Len(b) /\ Joined(bin) = Pieces(m)
        /\ \A i \in 1..(Joined(bin) - 1) : IsFull(b[i])
        /\ \A i \in 1..Joined(bin) : b[i].data = Piece(m, i)
    BY ZenonT(60) DEF TakesOut
  <2>2. got \in Seq(AnswerPieces) /\ got \in Wires(Messages) /\ b \in Wires(Messages) /\ sent \in Wires(Messages)
    BY FramesTyped DEF Types
  <2>3. s = b[Joined(bin)].num /\ c = SubSeq(b, Joined(bin) + 1, Len(b))
    BY Zenon DEF NextNum, Consume
  <2>4. got' = got \o w /\ bin'.wire = c /\ at # "left"
    BY <2>1, ReadingSteps, ZenonT(60)
  <2> HIDE DEF m, s, b, c
  <2>5. Writes(Messages, m, s, w) /\ w \in Seq(AnswerPieces)
    BY <2>1, WrittenIs, <1>AnswerWritten, MessagesSized
  <2>6. w \in Wires(Messages) /\ Data(w) = Payload(m)
    BY <2>5, Zenon DEF Writes
  <2> HIDE DEF w
  <2>7. Data(got \o w) \o Data(c) = Data(got) \o Data(b)
    <3> DEFINE x == Data(got)
               y == Payload(m)
               z == Data(c)
               F == FramesOf(B)
    <3>1. got \in Seq(F) /\ w \in Seq(F) /\ c \in Seq(F)
      BY <2>1, <2>2, <2>6, WireSeq, ZenonT(60)
    <3>2. Data(got \o w) = x \o y
      BY <2>6, <3>1, DataConcat
    <3>3. x \in Seq(B) /\ y \in Seq(B) /\ z \in Seq(B)
      BY <2>6, <3>1, DataType
    <3> HIDE DEF x, y, z, B, F
    <3>4. (x \o y) \o z = x \o (y \o z)
      BY <3>3, SMTT(60)
    <3> QED BY <2>1, <3>2, <3>4, ZenonT(60) DEF x, y, z
  <2>8. ASSUME \A i \in 1..Len(sent) : ~IsFull(sent[i])
        PROVE  (got \o w) \o c = sent
    <3> DEFINE F == FramesOf(B)
    <3>1. got \in Seq(F) /\ b \in Seq(F) /\ sent \in Seq(F)
      BY <2>2, WireSeq
    <3>2. got \o b = sent
      BY <2>4, <2>8 DEF Flow, b
    <3> HIDE DEF F
    <3>3. 1 \in 1..Len(b) /\ ~IsFull(b[1])
      <4>1. 1 \in 1..Len(b) /\ Len(got) \in Nat
        BY <2>1, <3>1, SMTT(30)
      <4>2. Len(got) + 1 \in 1..Len(got \o b) /\ (got \o b)[Len(got) + 1] = b[1]
        BY <3>1, <4>1
      <4> QED BY <2>8, <3>2, <4>1, <4>2, ZenonT(60)
    <3>4. Joined(bin) = 1
      <4>1. ASSUME Joined(bin) # 1 PROVE FALSE
        <5>1. 1 \in 1..(Joined(bin) - 1)
          BY <2>1, <4>1, SMTT(60)
        <5> QED BY <2>1, <3>3, <5>1, ZenonT(60)
      <4> QED BY <4>1
    <3> DEFINE u == SubSeq(b, 1, 1)
               v == SubSeq(b, 1 + 1, Len(b))
    <3>5. w = u
      <4>1. Pieces(m) = 1 /\ b # <<>> /\ b[1].data = Piece(m, 1) /\ s = b[1].num
        <5>1. Pieces(m) = 1 /\ b[1].data = Piece(m, 1)
          BY <2>1, <3>3, <3>4
        <5>2. b # <<>>
          BY <3>1, <3>3
        <5>3. s = b[1].num
          BY <2>3, <3>4, SMTT(30)
        <5> QED BY <5>1, <5>2, <5>3
      <4> QED BY <2>1, <2>2, <4>1, SameFrame, MessagesSized, ZenonT(60) DEF w
    <3>6. u \in Wires(Messages) /\ v \in Wires(Messages) /\ b = u \o v
      BY <2>2, <3>3, SplitWire, Zenon
    <3>7. c = v
      BY <2>3, <3>4
    <3> HIDE DEF u, v
    <3>8. u \in Seq(F) /\ v \in Seq(F)
      BY <3>6, WireSeq DEF F
    <3>9. (got \o u) \o v = got \o (u \o v)
      BY <3>1, <3>8, SMTT(60)
    <3> QED BY <3>2, <3>5, <3>6, <3>7, <3>9, Zenon
  <2>9. got \o w \in Seq(AnswerPieces)
    BY <2>2, <2>5
  <2>10. Data(got) \o Data(b) = Data(sent)
    BY <2>4 DEF Flow, b
  <2>11. Flow'
    BY <2>4, <2>7, <2>8, <2>10, ZenonT(60) DEF Flow
  <2> QED BY <2>4, <2>9, <2>11
(* ... and how the forwarder goes on after it.                             *)
<1>AnswerGoesOn.
      ASSUME NEW bs, NEW ms \in Seq(Messages), ms # <<>>, Answering(bs, ms), at \in Reading,
             deof' = deof, <<at', left'>> = Go(deof, <<at, left>>, ms[1])
      PROVE  Answering(bs, Tail(ms))'
  <2> USE <1>AnswerGoesOn
  <2>1. bs = <<>> /\ Stops(deof, <<at, left>>, ms)
    BY DEF Answering
  <2>2. Stops(deof, <<at', left'>>, Tail(ms))
    BY <2>1, StopsTail
  <2>3. Tail(ms) \in Seq(Messages) /\ <<at', left'>>[1] = at'
    BY HeadTailProperties, AtStep, ZenonT(60)
  <2> DEFINE t == Tail(ms)
             s == <<at', left'>>
  <2> HIDE DEF t, s
  <2>4. CASE at' \in Reading
    BY <2>1, <2>2, <2>4, ZenonT(60) DEF Answering
  <2>5. CASE at' \notin Reading
    <3>1. t = <<>>
      <4>1. ASSUME t # <<>> PROVE FALSE
        <5>1. Stops(deof, s, t)
          BY <2>2 DEF s, t
        <5>2. s[1] \in Reading
          BY <4>1, <5>1, StopsTail
        <5> QED BY <2>3, <2>5, <5>2 DEF s
      <4> QED BY <4>1
    <3> QED BY <2>1, <2>5, <3>1 DEF Answering, t
  <2> QED BY <2>4, <2>5, ZenonT(60)
<1>0. Types /\ Flow /\ LedgerInv
  BY DEF ExchangeInv
<1>1. /\ at \in Reading /\ Takes(bin) /\ bin' = Consume(bin) /\ at' \in Steps
      /\ UNCHANGED <<deof, bdeof, cin, bnum, bout, asked, served, sent>>
      /\ wrapped => wrapped'
  BY DEF PacketTaken
<1>2. PICK cs, bs, sv, ms : Ledger(cs, bs, sv, ms)
  BY <1>0, Zenon DEF LedgerInv
<1>3. TakesOut(Messages, bin, ms)
  BY <1>1, <1>2, <1>AnswerTaken
<1>4. /\ ms # <<>> /\ ms[1] \in Messages /\ NextData(bin) = Payload(ms[1])
      /\ bin'.wire \in Wires(Messages) /\ Carries(bin'.wire, Tail(ms))
      /\ bin'.rem <= WireLen(bin'.wire)
  BY <1>1, <1>3, Zenon DEF TakesOut
<1>5. Flow' /\ got' \in Seq(AnswerPieces)
  <2>1. CASE at = "reset"
    <3>1. at' = "left" /\ got' = got
      BY <2>1 DEF PacketTaken
    <3>2. Flow'
      BY <3>1 DEF Flow
    <3> QED BY <1>0, <3>1, <3>2 DEF Types
  <2>2. CASE at # "reset"
    <3>1. got' = got \o EndPacket(NextData(bin), NextNum(bin))
      BY <2>2, ZenonT(60) DEF PacketTaken
    <3> QED BY <1>0, <1>1, <1>3, <3>1, <1>FlowForwarded, ZenonT(60)
  <2> QED BY <2>1, <2>2
<1>6. Types'
  BY <1>0, <1>1, <1>4, <1>5 DEF Types
<1>7. Leaving' = Leaving /\ Due' = Due
  <2>1. at # "left"
    BY <1>1, ReadingSteps
  <2>2. Leaving' = Leaving
    BY <2>1 DEF Leaving, PacketTaken
  <2> QED BY <1>1, <2>2 DEF Due
<1>8. /\ QuitIsLast' = QuitIsLast /\ WholeRequests' = WholeRequests /\ Agreed' = Agreed
  BY <1>1, <1>7, ZenonT(60) DEF QuitIsLast, WholeRequests, Agreed
<1>9. Queue(cs, bs, sv)' = Queue(cs, bs, sv)
  <2>1. Numbered(sv \o bs)' = Numbered(sv \o bs)
    BY <1>1, <1>7, NumberedKept, ZenonT(60)
  <2> QED BY <1>1, <1>7, <1>8, <2>1, ZenonT(60) DEF Queue
<1>10. /\ cs \in Seq(ClientMsgs) /\ bs \in Seq(RequestMsgs) /\ sv \in Seq(RequestMsgs)
       /\ ms \in Seq(Messages) /\ Carries(cin.wire, cs)
  BY <1>2, SMTT(30) DEF Ledger
<1>11. ASSUME ~wrapped', Answering(bs, ms) PROVE Answering(bs, Tail(ms))'
  <2>1. <<at', left'>> = Go(deof, <<at, left>>, ms[1])
    BY <1>4, <1>11 DEF PacketTaken, MovesOn
  <2> QED BY <1>1, <1>4, <1>10, <1>11, <2>1, <1>AnswerGoesOn, ZenonT(60)
<1>12. Tail(ms) \in Seq(Messages)
  BY <1>4, <1>10, HeadTailProperties, ZenonT(60)
<1>13. WholeRequests' => /\ Queue(cs, bs, sv)'
                         /\ Agreed' /\ ~wrapped' => Answering(bs, Tail(ms))'
  <2>1. WholeRequests => Queue(cs, bs, sv) /\ (Agreed /\ ~wrapped => Answering(bs, ms))
    BY <1>2, ZenonT(60) DEF Ledger
  <2> QED BY <1>1, <1>8, <1>9, <1>11, <2>1, ZenonT(60)
<1>14. Ledger(cs, bs, sv, Tail(ms))'
  BY <1>1, <1>4, <1>10, <1>12, <1>13, ZenonT(60) DEF Ledger
<1>15. LedgerInv'
  BY <1>14, Zenon DEF LedgerInv
<1> QED BY <1>5, <1>6, <1>15

(* What the forwarders look at, of the payload of a message.               *)
LEMMA Looks ==
  ASSUME NEW m \in Messages
  PROVE  /\ Payload(m)[1][1] = m
         /\ \A h : Starts(Payload(m), h) <=> m.head = h
         /\ IsEof(Payload(m)) <=> Ends(FALSE, m)
         /\ EndsRows(Payload(m)) <=> Ends(deof, m)
         /\ NextResult(Payload(m)) = AfterResult(m)
         /\ \A d : Expected(Payload(m), d) = Follow(m, d)
<1> DEFINE p == Payload(m)
<1>1. p # <<>> /\ p[1][1] = m /\ Len(p) = m.len
  BY PayloadType, MessagesSized, ZenonT(60) DEF Sized
<1> HIDE DEF p
<1>2. \A h : Starts(p, h) <=> m.head = h
  BY <1>1 DEF Starts
<1>3. IsEof(p) <=> Ends(FALSE, m)
  BY <1>1, <1>2 DEF IsEof, Ends
<1>4. EndsRows(p) <=> Ends(deof, m)
  <2>1. IsResultSetEof(p) <=> Ends(TRUE, m)
    BY <1>1, <1>2 DEF IsResultSetEof, Ends
  <2>2. Ends(deof, m) <=> IF deof THEN Ends(TRUE, m) ELSE Ends(FALSE, m)
    BY DEF Ends
  <2> QED BY <1>3, <2>1, <2>2, ZenonT(30) DEF EndsRows
<1>5. NextResult(p) = AfterResult(m)
  BY <1>1 DEF NextResult, AfterResult
<1>6. ASSUME NEW d PROVE Expected(p, d) = Follow(m, d)
  BY <1>1 DEF Expected, Follow
<1> QED BY <1>1, <1>2, <1>3, <1>4, <1>5, <1>6, ZenonT(60) DEF p

----------------------------------------------------------------------------
(* Forward does what PacketTaken says, if the forwarder moves on as Go     *)
(* says.                                                                   *)
LEMMA ForwardTakes ==
  ASSUME NEW step \in Reading \ {"reset"}, Forward(step), at' \in Steps \ {"reset", "left"},
         wrapped => wrapped',
         \A m \in Messages : NextData(bin) = Payload(m) => MovesOn(m)
  PROVE  PacketTaken
BY DEF Forward, ForwardOnePacket, PacketTaken

(* Go from its two halves.                                                 *)
LEMMA GoIs ==
  ASSUME NEW m, at' = NextAt(deof, <<at, left>>, m), left' = NextLeft(deof, <<at, left>>, m)
  PROVE  MovesOn(m)
BY DEF MovesOn, Go

(* Each forwarder moves on as Go says: forward_query, ...                  *)
LEMMA FirstTakes == ForwardFirst => PacketTaken
<1> SUFFICES ASSUME ForwardFirst PROVE PacketTaken
  OBVIOUS
<1> DEFINE p == NextData(bin)
<1>1. /\ Forward("first") /\ at = "first"
      /\ at' = CASE Starts(p, "ok")     -> NextResult(p)
                 [] Starts(p, "err")    -> "command"
                 [] Starts(p, "infile") -> "panicked"
                 [] OTHER               -> IF deof THEN "rows" ELSE "cols"
      /\ left' = left /\ wrapped' = wrapped
  BY DEF ForwardFirst, Forward
<1>2. NextResult(p) \in {"first", "command"}
  BY DEF NextResult
<1> HIDE DEF p
<1>3. at' \in {"first", "command", "panicked", "rows", "cols"}
  BY <1>1, <1>2
<1>4. at' \in Steps \ {"reset", "left"}
  BY <1>3 DEF Steps, Reading
<1>5. ASSUME NEW m \in Messages, p = Payload(m) PROVE MovesOn(m)
  <2>1. /\ \A h : Starts(p, h) <=> m.head = h
        /\ NextResult(p) = AfterResult(m)
    BY <1>5, Looks, ZenonT(30)
  <2>2. at' = NextAt(deof, <<"first", left>>, m)
    BY <1>1, <2>1, AtStep DEF NextAt
  <2>3. left' = NextLeft(deof, <<"first", left>>, m)
    BY <1>1, AtStep, ZenonT(60) DEF NextLeft
  <2> QED BY <1>1, <2>2, <2>3, GoIs, Zenon
<1> QED BY <1>1, <1>4, <1>5, ReadingSteps, ForwardTakes DEF p

(* ... forward_result with the definitions, ...                            *)
LEMMA ColsTakes == ForwardCols => PacketTaken
<1> SUFFICES ASSUME ForwardCols PROVE PacketTaken
  BY ZenonT(60)
<1> DEFINE p == NextData(bin)
<1>1. /\ Forward("cols") /\ at = "cols"
      /\ at' = IF ~IsEof(p) THEN "cols"
               ELSE IF p[1][1].cursor THEN NextResult(p) ELSE "rows"
      /\ left' = left /\ wrapped' = wrapped
  BY DEF ForwardCols, Forward
<1>2. NextResult(p) \in {"first", "command"}
  BY DEF NextResult
<1> HIDE DEF p
<1>3. at' \in {"first", "command", "rows", "cols"}
  BY <1>1, <1>2
<1>4. at' \in Steps \ {"reset", "left"}
  BY <1>3, SMTT(30) DEF Steps, Reading
<1>5. ASSUME NEW m \in Messages, p = Payload(m) PROVE MovesOn(m)
  <2>1. IsEof(p) <=> Ends(FALSE, m)
    BY <1>5, Looks, Zenon
  <2>2. p[1][1] = m /\ NextResult(p) = AfterResult(m)
    BY <1>5, Looks, Zenon
  <2>3. at' = NextAt(deof, <<"cols", left>>, m)
    BY <1>1, <2>1, <2>2, AtStep, Zenon DEF NextAt
  <2>4. left' = NextLeft(deof, <<"cols", left>>, m)
    BY <1>1, AtStep DEF NextLeft
  <2> QED BY <1>1, <2>3, <2>4, GoIs, ZenonT(60)
<1> QED BY <1>1, <1>4, <1>5, ReadingSteps, ForwardTakes, ZenonT(60) DEF p

(* ... with the rows, ...                                                  *)
LEMMA RowsTakes == ForwardRows => PacketTaken
<1> SUFFICES ASSUME ForwardRows PROVE PacketTaken
  OBVIOUS
<1> DEFINE p == NextData(bin)
<1>1. /\ Forward("rows") /\ at = "rows"
      /\ at' = CASE Starts(p, "err") -> "command"
                 [] EndsRows(p)      -> NextResult(p)
                 [] OTHER            -> "rows"
      /\ left' = left /\ wrapped' = wrapped
  BY DEF ForwardRows, Forward
<1>2. NextResult(p) \in {"first", "command"}
  BY DEF NextResult
<1>3. EndsRows(p) => ~Starts(p, "err")
  BY DEF EndsRows, IsResultSetEof, IsEof, Starts
<1> HIDE DEF p
<1>4. at' \in {"first", "command", "rows"}
  BY <1>1, <1>2, <1>3
<1>5. at' \in Steps \ {"reset", "left"}
  BY <1>4 DEF Steps, Reading
<1>6. ASSUME NEW m \in Messages, p = Payload(m) PROVE MovesOn(m)
  <2>1. EndsRows(p) <=> Ends(deof, m)
    BY <1>6, Looks, Zenon
  <2>2. (Starts(p, "err") <=> m.head = "err") /\ NextResult(p) = AfterResult(m)
    BY <1>6, Looks, ZenonT(30)
  <2>3. at' = NextAt(deof, <<"rows", left>>, m)
    BY <1>1, <1>3, <2>1, <2>2, AtStep, ZenonT(60) DEF NextAt
  <2>4. left' = NextLeft(deof, <<"rows", left>>, m)
    BY <1>1, AtStep DEF NextLeft
  <2> QED BY <1>1, <2>3, <2>4, GoIs, Zenon
<1> QED BY <1>1, <1>5, <1>6, ReadingSteps, ForwardTakes, ZenonT(60) DEF p

(* ... forward_until_result_end on its own, ...                            *)
LEMMA FetchTakes == ForwardFetch => PacketTaken
<1> SUFFICES ASSUME ForwardFetch PROVE PacketTaken
  OBVIOUS
<1> DEFINE p == NextData(bin)
<1>1. /\ Forward("fetch") /\ at = "fetch"
      /\ at' = IF Starts(p, "err") \/ EndsRows(p) THEN "command" ELSE "fetch"
      /\ left' = left /\ wrapped' = wrapped
  BY DEF ForwardFetch, Forward
<1> HIDE DEF p
<1>2. at' \in Steps \ {"reset", "left"}
  BY <1>1 DEF Steps, Reading
<1>3. ASSUME NEW m \in Messages, p = Payload(m) PROVE MovesOn(m)
  <2>1. EndsRows(p) <=> Ends(deof, m)
    BY <1>3, Looks, Zenon
  <2>2. Starts(p, "err") <=> m.head = "err"
    BY <1>3, Looks, ZenonT(30)
  <2>3. at' = NextAt(deof, <<"fetch", left>>, m)
    BY <1>1, <2>1, <2>2, AtStep DEF NextAt
  <2>4. left' = NextLeft(deof, <<"fetch", left>>, m)
    BY <1>1, AtStep DEF NextLeft
  <2> QED BY <1>1, <2>3, <2>4, GoIs, Zenon
<1> QED BY <1>1, <1>2, <1>3, ReadingSteps, ForwardTakes DEF p

(* ... forward_prepare_stmt with the definitions, GenericComForwarder, ... *)
LEMMA DefsTakes == ForwardDefs \/ ForwardGeneric => PacketTaken
<1>1. CASE ForwardDefs
  <2>1. /\ Forward("defs") /\ at = "defs" /\ left' = left - 1
        /\ at' = (IF left = 1 THEN "command" ELSE "defs") /\ wrapped' = wrapped
    BY <1>1 DEF ForwardDefs, Forward
  <2>2. at' \in Steps \ {"reset", "left"}
    BY <2>1 DEF Steps, Reading
  <2>3. ASSUME NEW m PROVE MovesOn(m)
    <3>1. at' = NextAt(deof, <<"defs", left>>, m) /\ left' = NextLeft(deof, <<"defs", left>>, m)
      BY <2>1, AtStep, ZenonT(60) DEF NextAt, NextLeft
    <3> QED BY <2>1, <3>1, GoIs
  <2> QED BY <2>1, <2>2, <2>3, ReadingSteps, ForwardTakes, ZenonT(60)
<1>2. CASE ForwardGeneric
  <2>1. /\ Forward("one") /\ at = "one" /\ left' = left
        /\ at' = "command" /\ wrapped' = wrapped
    BY <1>2 DEF ForwardGeneric, Forward
  <2>2. at' \in Steps \ {"reset", "left"}
    BY <2>1 DEF Steps, Reading
  <2>3. ASSUME NEW m PROVE MovesOn(m)
    <3>1. at' = NextAt(deof, <<"one", left>>, m) /\ left' = NextLeft(deof, <<"one", left>>, m)
      BY <2>1, AtStep DEF NextAt, NextLeft
    <3> QED BY <2>1, <3>1, GoIs, Zenon
  <2> QED BY <2>1, <2>2, <2>3, ReadingSteps, ForwardTakes, ZenonT(60)
<1> QED BY <1>1, <1>2

(* ... ResetConnForwarder, ...                                             *)
LEMMA ResetTakes == ForwardReset => PacketTaken
<1> SUFFICES ASSUME ForwardReset PROVE PacketTaken
  OBVIOUS
<1>1. /\ at = "reset" /\ at' = "left" /\ Takes(bin) /\ bin' = Consume(bin)
      /\ UNCHANGED <<deof, bdeof, cin, bnum, bout, got, left, asked, served, sent, wrapped>>
  BY DEF ForwardReset
<1>2. at \in Reading /\ at' \in Steps
  BY <1>1 DEF Steps, Reading
<1>3. ASSUME NEW m PROVE MovesOn(m)
  <2>1. at' = NextAt(deof, <<"reset", left>>, m) /\ left' = NextLeft(deof, <<"reset", left>>, m)
    BY <1>1, AtStep DEF NextAt, NextLeft
  <2> QED BY <1>1, <2>1, GoIs, Zenon
<1> QED BY <1>1, <1>2, <1>3 DEF PacketTaken

(* The packets after the first one can be counted.                         *)
LEMMA FollowType ==
  ASSUME NEW m \in Messages, NEW d
  PROVE  Follow(m, d) \in Nat
<1>1. m.cols \in Nat /\ m.params \in Nat
  BY DEF Messages
<1> QED BY <1>1 DEF Follow

(* ... and forward_prepare_stmt with the first packet, which counts the    *)
(* packets that follow.                                                    *)
LEMMA PrepareTakes == ForwardPrepare => PacketTaken
<1> SUFFICES ASSUME ForwardPrepare PROVE PacketTaken
  OBVIOUS
<1> DEFINE p == NextData(bin)
<1>1. /\ Forward("prepare") /\ at = "prepare"
      /\ left' = IF Starts(p, "ok") THEN Expected(p, deof) % CountMod ELSE 0
      /\ at' = CASE Starts(p, "err") -> "command"
                 [] Starts(p, "ok")  -> IF left' > 0 THEN "defs" ELSE "command"
                 [] OTHER            -> "panicked"
      /\ wrapped' = (wrapped \/ Expected(p, deof) >= CountMod)
  BY DEF ForwardPrepare, Forward
<1>2. ~(Starts(p, "err") /\ Starts(p, "ok"))
  BY DEF Starts
<1> HIDE DEF p
<1>3. at' \in Steps \ {"reset", "left"}
  BY <1>1, <1>2 DEF Steps, Reading
<1>4. ASSUME NEW m \in Messages, p = Payload(m), ~wrapped' PROVE MovesOn(m)
  <2> DEFINE f == Follow(m, deof)
  <2>1. /\ (Starts(p, "err") <=> m.head = "err") /\ (Starts(p, "ok") <=> m.head = "ok")
        /\ Expected(p, deof) = f
    BY <1>4, Looks, Zenon
  <2>2. f \in Nat
    BY FollowType
  <2> HIDE DEF f
  <2>3. f < CountMod
    <3>1. ~(Expected(p, deof) >= CountMod)
      BY <1>1, <1>4, Zenon
    <3>2. CountMod \in Nat
      BY ExchangeAssumption
    <3> QED BY <2>1, <2>2, <3>1, <3>2
  <2>4. f % CountMod = f
    <3>1. f \in 0..(CountMod - 1) /\ f = 0 * CountMod + f /\ CountMod \in Nat \ {0}
      BY <2>2, <2>3, ExchangeAssumption, SMTT(60)
    <3> QED BY <2>2, <3>1, DivUnique, ZenonT(60)
  <2>5. left' = IF m.head = "ok" THEN f ELSE 0
    BY <1>1, <2>1, <2>4
  <2>6. left' = NextLeft(deof, <<"prepare", left>>, m)
    BY <2>5, AtStep DEF NextLeft, f
  <2>7. at' = NextAt(deof, <<"prepare", left>>, m)
    <3>1. at' = CASE m.head = "err" -> "command"
                  [] m.head = "ok"  -> IF f > 0 THEN "defs" ELSE "command"
                  [] OTHER          -> "panicked"
      BY <1>1, <2>1, <2>5
    <3> QED BY <3>1, AtStep DEF NextAt, f
  <2> QED BY <1>1, <2>6, <2>7, GoIs, ZenonT(60)
<1>5. ASSUME NEW m \in Messages, p = Payload(m) PROVE MovesOn(m)
  <2>1. wrapped' => MovesOn(m)
    BY DEF MovesOn
  <2> QED BY <1>4, <1>5, <2>1
<1> QED BY <1>1, <1>3, <1>5, ReadingSteps, ForwardTakes, ZenonT(60) DEF p

----------------------------------------------------------------------------
(* Every step keeps the invariant.                                         *)
LEMMA ExchangeStep == ExchangeInv /\ [Next]_vars => ExchangeInv'
<1> SUFFICES ASSUME ExchangeInv, [Next]_vars
             PROVE  Types' /\ Flow' /\ LedgerInv'
  BY BufferStep DEF ExchangeInv
<1>1. ASSUME NEW r \in Requests, Ask(r[1], r[2])
      PROVE  Types' /\ Flow' /\ LedgerInv'
  BY <1>1, AskStep
<1>2. CASE Serve
  BY <1>2, ServeStep
<1>3. CASE ReadClient \/ ReadBackend \/ UNCHANGED vars
  BY <1>3, ReadStep
<1>4. CASE OnCom
  BY <1>4, OnComStep
<1>5. CASE OnQuit
  BY <1>5, OnQuitStep
<1>6. CASE ForwardStep
  <2>1. PacketTaken
    BY <1>6, FirstTakes, ColsTakes, RowsTakes, FetchTakes, PrepareTakes, DefsTakes, ResetTakes, ZenonT(60)
       DEF ForwardStep
  <2> QED BY <2>1, PacketStep
<1> QED BY <1>1, <1>2, <1>3, <1>4, <1>5, <1>6, ZenonT(60) DEF Next, ProxyStep

(* What the invariant says of the answers, ...                             *)
LEMMA InvAnswerIntact == ExchangeInv => AnswerIntact
(* A frame is not full exactly if it has the last byte of its message, but *)
(* for messages of a multiple of MaxPayload bytes.                         *)
<1>PieceWhole.
      ASSUME NEW m \in Messages, NEW k \in 1..Pieces(m), NEW f, f.data = Piece(m, k), f.data # <<>>
      PROVE  LET b == f.data[Len(f.data)]
             IN  Exact(b[1].len) \/ (b[2] = b[1].len <=> ~IsFull(f))
  <2> USE <1>PieceWhole
  <2> DEFINE n == PieceLen(m, k)
             e == (k - 1) * MaxPayload + n
             P == Pieces(m)
  <2>1. m.len \in Nat \ {0} /\ MaxPayload \in Nat \ {0}
    BY MessagesSized, FramesAssumption, ZenonT(60) DEF Sized
  <2>2. Piece(m, k)[Len(Piece(m, k))] = <<m, e>>
    BY PieceEnds, MessagesSized, ZenonT(60)
  <2>3. /\ P \in Nat \ {0} /\ n \in Nat
        /\ k < P => e = k * MaxPayload /\ n = MaxPayload
        /\ k = P => e = m.len /\ n < MaxPayload
    BY <2>1, PieceSizes, ZenonT(60)
  <2>4. Len(f.data) = n
    BY <2>1, PieceType
  <2> HIDE DEF n, e, P
  <2>5. k \in Nat /\ (k < P \/ k = P)
    BY <2>3 DEF P
  <2>6. IsFull(f) <=> n = MaxPayload
    BY <2>4, ZenonT(60) DEF IsFull
  <2>7. CASE k = P
    BY <2>1, <2>2, <2>3, <2>6, <2>7, SMTT(60)
  <2>8. CASE k < P
    <3>1. ASSUME e = m.len PROVE Exact(m.len)
      <4>1. m.len = k * MaxPayload + 0 /\ 0 \in 0..(MaxPayload - 1)
        BY <2>1, <2>3, <2>5, <2>8, <3>1, SMTT(60)
      <4>2. m.len % MaxPayload = 0
        BY <2>1, <2>5, <4>1, DivUnique
      <4> QED BY <4>2, ZenonT(60) DEF Exact
    <3> QED BY <2>2, <2>3, <2>6, <2>8, <3>1, SMTT(60)
  <2> QED BY <2>5, <2>7, <2>8, ZenonT(60)
<1> SUFFICES ASSUME ExchangeInv PROVE AnswerIntact
  OBVIOUS
<1>1. got \in Seq(AnswerPieces) /\ Flow
  BY ZenonT(60) DEF ExchangeInv, Types
<1>2. ASSUME NEW i \in 1..Len(got), got[i].data # <<>>
      PROVE  LET b == got[i].data[Len(got[i].data)]
             IN  Exact(b[1].len) \/ (b[2] = b[1].len <=> ~IsFull(got[i]))
  <2>1. got[i] \in AnswerPieces
    BY <1>1
  <2>2. PICK m \in Messages : \E k \in 1..Pieces(m) : got[i].data = Piece(m, k)
    BY <2>1, Zenon DEF AnswerPieces
  <2>3. PICK k \in 1..Pieces(m) : got[i].data = Piece(m, k)
    BY <2>2
  <2> QED BY <1>2, <2>3, <1>PieceWhole
<1> QED BY <1>1, <1>2, ZenonT(60) DEF AnswerIntact, Flow

(* ... of the numbers, ...                                                 *)
LEMMA InvNumbersFollow == ExchangeInv => NumbersFollow
<1> SUFFICES ASSUME ExchangeInv PROVE NumbersFollow
  OBVIOUS
<1>1. bout \in Seq(WrittenFrames) /\ Types /\ Flow
  BY DEF ExchangeInv, Types
<1>2. ASSUME WholeRequests, NEW i \in 1..Len(bout), bout[i].data[1][2] = 1
      PROVE  bout[i].num = IF bout[i].data[1][1].head = "reset"
                             THEN ResetNum ELSE LastNum(bout[i].data[1][1])
  <2> DEFINE m == bout[i].data[1][1]
  <2>1. PICK cs, bs, sv, ms : Ledger(cs, bs, sv, ms)
    BY Zenon DEF ExchangeInv, LedgerInv
  <2>2. /\ cs \in Seq(ClientMsgs) /\ bs \in Seq(RequestMsgs) /\ sv \in Seq(RequestMsgs)
        /\ Queue(cs, bs, sv)
    BY <1>2, <2>1 DEF Ledger
  <2>3. (m \in ClientMsgs /\ ~Exact(m.len)) \/ (Leaving /\ m.head = "reset")
    BY <1>1, <1>2, <2>2, OnTheWay, ZenonT(60)
  <2>4. CASE m \in ClientMsgs /\ ~Exact(m.len)
    <3>1. bout[i] \in WrittenFrames
      BY <1>1, <1>2
    <3>2. FirstFrame(bout[i], m)
      BY <1>2 DEF FirstFrame
    <3>3. bout[i].num = LastNum(m)
      BY <2>4, <3>1, <3>2, Zenon DEF WrittenFrames
    <3>4. m.head # "reset"
      BY <2>4 DEF ClientMsgs, Commands
    <3> QED BY <3>3, <3>4
  <2>5. CASE Leaving /\ m.head = "reset"
    BY <1>2, <2>2, <2>5, ZenonT(60) DEF Queue, Numbered, ResetNumbered
  <2> QED BY <2>3, <2>4, <2>5
<1> QED BY <1>1, <1>2, Zenon DEF NumbersFollow, Flow

(* ... of the forwarders when they have stopped, ...                       *)
LEMMA InvStopsAtEnd == ExchangeInv => StopsAtEnd
<1> SUFFICES ASSUME ExchangeInv, at \in {"command", "left"}, Agreed, ~wrapped, WholeRequests
             PROVE  /\ bin.wire = <<>> /\ bin.rem = 0
                    /\ \A i \in 1..Len(bout) : Starts(bout[i].data, "close")
  BY Zenon DEF StopsAtEnd
<1>0. Types /\ BufferOK(bin)
  BY DEF ExchangeInv, BufferInv
<1>1. PICK cs, bs, sv, ms : Ledger(cs, bs, sv, ms)
  BY ZenonT(60) DEF ExchangeInv, LedgerInv
<1>2. /\ bs \in Seq(RequestMsgs) /\ Carries(bin.wire, ms) /\ Carries(bout, bs)
      /\ Answering(bs, ms)
  BY <1>1 DEF Ledger, Queue
<1>3. ms = <<>> /\ \A j \in 1..Len(bs) : bs[j].head = "close"
  BY <1>2, ReadingSteps, ZenonT(60) DEF Answering
<1>4. bin.wire = <<>>
  BY <1>0, <1>2, <1>3, CarriesNothing DEF Types
<1>5. bin.rem = 0
  <2>1. bin.rem \in Nat /\ bin.rem <= WireLen(bin.wire) /\ WireLen(bin.wire) = 0
    BY <1>0, <1>4, WireLenEmpty, ZenonT(60) DEF Types, BufferOK
  <2> QED BY <2>1
<1>6. ASSUME NEW i \in 1..Len(bout) PROVE Starts(bout[i].data, "close")
  <2>1. bout \in Wires(RequestMsgs) /\ bout[i] \in WrittenFrames
    BY <1>0, FramesTyped DEF Types
  <2>2. bout[i].data # <<>>
    BY <2>1, ZenonT(60) DEF WrittenFrames
  <2>3. PICK j \in 1..Len(bs) : \E k \in 1..Pieces(bs[j]) : bout[i].data = Piece(bs[j], k)
    BY <1>2, <2>1, CarriesPieces, MessagesSized, SMTT(60)
  <2>4. PICK k \in 1..Pieces(bs[j]) : bout[i].data = Piece(bs[j], k)
    BY <2>3
  <2>5. bs[j] \in RequestMsgs
    BY <1>2, SMTT(60)
  <2>6. Piece(bs[j], k)[1][1] = bs[j]
    BY <2>2, <2>4, <2>5, PieceEnds, MessagesSized, ZenonT(60)
  <2> QED BY <1>3, <2>2, <2>4, <2>6, ZenonT(60) DEF Starts
<1> QED BY <1>4, <1>5, <1>6

(* ... and of the requests.                                                *)
LEMMA InvRequestIntact == ExchangeInv => RequestIntact
<1> SUFFICES ASSUME ExchangeInv, WholeRequests
             PROVE  /\ Len(served) <= Len(asked)
                    /\ \A i \in 1..Len(served) :
                         \/ asked[i].head # "quit" /\ served[i] = Payload(asked[i])
                         \/ /\ asked[i].head = "quit" /\ i = Len(asked)
                            /\ Starts(served[i], "reset") /\ Len(served[i]) = ResetLen
  BY Zenon DEF RequestIntact
<1>0. asked \in Seq(ClientMsgs) /\ asked \in Seq(RequestMsgs)
  BY FramesTyped DEF ExchangeInv, Types
<1>1. PICK cs, bs, sv, ms : Ledger(cs, bs, sv, ms)
  BY Zenon DEF ExchangeInv, LedgerInv
<1> DEFINE x == sv \o bs
<1>2. /\ cs \in Seq(RequestMsgs) /\ bs \in Seq(RequestMsgs) /\ sv \in Seq(RequestMsgs)
      /\ served = [i \in 1..Len(sv) |-> Payload(sv[i])] /\ x \o cs = Due /\ QuitIsLast
      /\ \A i \in 1..Len(x) : x[i].head # "quit"
  BY <1>1, FramesTyped DEF Ledger, Queue
<1>3. /\ Len(served) = Len(sv) /\ Len(sv) \in Nat
      /\ \A i \in 1..Len(sv) : served[i] = Payload(sv[i])
  BY <1>2
<1>4. /\ x \in Seq(RequestMsgs) /\ Len(sv) <= Len(x)
      /\ \A i \in 1..Len(sv) : i \in 1..Len(x) /\ x[i] = sv[i]
  BY <1>2
<1> HIDE DEF x
<1>5. /\ Len(x) <= Len(Due) /\ \A i \in 1..Len(x) : i \in 1..Len(Due) /\ Due[i] = x[i]
  <2> DEFINE y == x \o cs
  <2>1. Len(x) <= Len(y) /\ \A i \in 1..Len(x) : i \in 1..Len(y) /\ y[i] = x[i]
    BY <1>2, <1>4
  <2> QED BY <1>2, <2>1
<1>6. Len(Due) = Len(asked)
      /\ \A i \in 1..Len(asked) : Due[i] = IF Leaving /\ i = Len(asked) THEN ResetMsg ELSE asked[i]
  <2>1. CASE ~Leaving
    BY <2>1 DEF Due
  <2>2. CASE Leaving
    <3>1. asked # <<>> /\ Due = [asked EXCEPT ![Len(asked)] = ResetMsg]
      BY <1>2, <2>2 DEF QuitIsLast, Due
    <3>2. Len(asked) \in 1..Len(asked)
      BY <1>0, <3>1
    <3>3. Overwrites(asked, ResetMsg, Due, RequestMsgs)
      BY <1>0, <3>1, <3>2, Overwritten, ResetType, ZenonT(60)
    <3> QED BY <2>2, <3>3, Zenon DEF Overwrites
  <2> QED BY <2>1, <2>2
<1>7. Len(served) <= Len(asked)
  <2>1. Len(x) \in Nat /\ Len(asked) \in Nat
    BY <1>0, <1>4, SMTT(60)
  <2> QED BY <1>3, <1>4, <1>5, <1>6, <2>1, SMTT(60)
<1>8. ASSUME NEW i \in 1..Len(served)
      PROVE  \/ asked[i].head # "quit" /\ served[i] = Payload(asked[i])
             \/ /\ asked[i].head = "quit" /\ i = Len(asked)
                /\ Starts(served[i], "reset") /\ Len(served[i]) = ResetLen
  <2>1. i \in 1..Len(sv) /\ i \in 1..Len(x) /\ i \in 1..Len(asked)
    BY <1>3, <1>4, <1>5, <1>6
  <2>2. served[i] = Payload(sv[i]) /\ sv[i].head # "quit" /\ sv[i] = Due[i]
    BY <1>2, <1>3, <1>4, <1>5, <2>1, ZenonT(60)
  <2>3. CASE Leaving /\ i = Len(asked)
    <3>1. sv[i] = ResetMsg /\ asked[i].head = "quit"
      BY <1>2, <1>6, <2>1, <2>2, <2>3, ZenonT(60) DEF QuitIsLast
    <3>2. Payload(ResetMsg)[1][1] = ResetMsg /\ Payload(ResetMsg) # <<>> /\ Len(Payload(ResetMsg)) = ResetLen
      BY ResetType, PayloadType, MessagesSized, ZenonT(30) DEF Sized
    <3>3. Starts(Payload(ResetMsg), "reset")
      BY <3>2, ResetType, ZenonT(60) DEF Starts
    <3> QED BY <2>2, <2>3, <3>1, <3>2, <3>3, ZenonT(60)
  <2>4. CASE ~(Leaving /\ i = Len(asked))
    <3>1. sv[i] = asked[i]
      BY <1>6, <2>1, <2>2, <2>4
    <3> QED BY <2>2, <3>1, ZenonT(60)
  <2> QED BY <2>3, <2>4, ZenonT(60)
<1> QED BY <1>7, <1>8

(* The invariant always holds.                                             *)
LEMMA ExchangeAlways == Spec => []ExchangeInv
BY ExchangeInit, ExchangeStep, PTL DEF Spec

(* For all lengths of rows and requests, buffer sizes and deliveries of    *)
(* TCP, the client gets the bytes the server sent, all of them and in      *)
(* order, and a frame it gets ends its message exactly if it is not full,  *)
(* but for messages of a multiple of MaxPayload bytes                      *)
(* (packet_reader.rs:127, packet_writer.rs:94, forwarder/mod.rs:30).       *)
THEOREM AnswersAlwaysIntact == Spec => []AnswerIntact
BY ExchangeAlways, InvAnswerIntact, PTL

(* The server gets the client's requests one by one and in order, and for  *)
(* a COM_QUIT, the last one, a COM_RESET_CONNECTION, as long as no request *)
(* has a multiple of MaxPayload bytes (haentgl_server.rs:242,              *)
(* packet_writer.rs:94).                                                   *)
THEOREM RequestsAlwaysIntact == Spec => []RequestIntact
BY ExchangeAlways, InvRequestIntact, PTL

(* While no message of an answer needs more than one frame, the client     *)
(* sees the numbers the server gave.  The server sees a request start with *)
(* the number of the last frame the client sent it in, so a request of one *)
(* frame with 0, and the COM_RESET_CONNECTION at the end of the session    *)
(* with the number after the last request: for all lengths that are not a  *)
(* multiple of MaxPayload (packet_reader.rs:127, packet_writer.rs:94,      *)
(* forwarder/mod.rs:84, reset_conn_forward.rs:29).                         *)
THEOREM NumbersAlwaysFollow == Spec => []NumbersFollow
BY ExchangeAlways, InvNumbersFollow, PTL

(* When on_com waits for the next request, or the session has left,        *)
(* nothing of an earlier answer is on its way: the forwarders stop where   *)
(* the answer ends, for all numbers of rows and all counts of a prepared   *)
(* statement that do not overflow, if the server ends results the way the  *)
(* forwarders expect (query_forward.rs:30-131,                             *)
(* stmt_prepare_forward.rs:46).                                            *)
THEOREM AlwaysStopsAtEnd == Spec => []StopsAtEnd
BY ExchangeAlways, InvStopsAtEnd, PTL
==============================================================================
