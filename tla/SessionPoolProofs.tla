--------------------------- MODULE SessionPoolProofs ---------------------------
(***************************************************************************)
(* Proofs about SessionPool, for any number of clients, users and          *)
(* connections and any pool size.                                          *)
(***************************************************************************)
EXTENDS SessionPool, FiniteSetTheorems, TLAPS

----------------------------------------------------------------------------
(* The operators of Backend return server records.                         *)

LEMMA SendType ==
  ASSUME NEW b \in BackendConn, NEW k \in Kinds, NEW s \in Clients
  PROVE  Send(b, k, s) \in Seq(Packet)
<1>1. b.inbox \in Seq(Packet)
  BY DEF BackendConn
<1>2. Pkt(k, s) \in Packet
  BY DEF Pkt, Packet
<1>. QED
  BY <1>1, <1>2 DEF Send

LEMMA RejectType ==
  ASSUME NEW b \in BackendConn, NEW s \in Clients
  PROVE  Reject(b, s) \in BackendConn
<1>1. Send(b, "err", s) \in Seq(Packet)
  BY SendType DEF Kinds
<1>. QED
  BY <1>1, Zenon DEF Reject, BackendConn, BStates

LEMMA RequestAuthType ==
  ASSUME NEW b \in BackendConn, NEW s \in Clients, NEW u \in Users \cup {None},
         NEW d \in BOOLEAN
  PROVE  RequestAuth(b, s, u, d) \in BackendConn
<1>1. CASE b.state \in {"greeted", "ready"}
  <2>1. Send(b, "switch", s) \in Seq(Packet)
    BY SendType DEF Kinds
  <2>2. RequestAuth(b, s, u, d) =
          [b EXCEPT !.state = "switching", !.user = None, !.pend = u,
                    !.dirty = None, !.inbox = Send(b, "switch", s),
                    !.deof = IF b.state = "greeted" THEN d ELSE @]
    BY <1>1 DEF RequestAuth
  <2>3. (IF b.state = "greeted" THEN d ELSE b.deof) \in BOOLEAN
    BY DEF BackendConn
  <2>. QED
    BY <2>1, <2>2, <2>3, Zenon DEF BackendConn, BStates
<1>2. CASE b.state = "switching"
  BY <1>2, RejectType DEF RequestAuth
<1>3. CASE b.state \notin {"greeted", "ready", "switching"}
  BY <1>3 DEF RequestAuth
<1>. QED
  BY <1>1, <1>2, <1>3

LEMMA AnswerAuthType ==
  ASSUME NEW b \in BackendConn, NEW s \in Clients, NEW good \in BOOLEAN
  PROVE  AnswerAuth(b, s, good) \in BackendConn
<1>1. /\ Send(b, "ok", s) \in Seq(Packet)
      /\ Send(b, "err", s) \in Seq(Packet)
  BY SendType DEF Kinds
<1>2. CASE b.state = "switching" /\ good
  BY <1>1, <1>2, Zenon DEF AnswerAuth, BackendConn, BStates
<1>3. CASE b.state = "switching" /\ ~good
  BY <1>3, RejectType DEF AnswerAuth
<1>4. CASE b.state = "ready"
  BY <1>1, <1>4, ZenonT(60) DEF AnswerAuth, BackendConn, BStates
<1>5. CASE b.state \notin {"ready", "switching"}
  BY <1>5 DEF AnswerAuth
<1>. QED
  BY <1>2, <1>3, <1>4, <1>5

LEMMA ExecuteType ==
  ASSUME NEW b \in BackendConn, NEW s \in Clients, NEW kinds \in Seq(Kinds)
  PROVE  Execute(b, s, kinds) \in BackendConn
<1>1. CASE b.state = "ready"
  <2>. DEFINE answer == [i \in 1..Len(kinds) |-> Pkt(kinds[i], s)]
  <2>1. answer \in Seq(Packet)
    BY DEF Pkt, Packet
  <2>2. b.inbox \o answer \in Seq(Packet)
    BY <2>1 DEF BackendConn
  <2>3. Execute(b, s, kinds) =
          [b EXCEPT !.state = IF kinds = <<"infile">> THEN "infile" ELSE @,
                    !.dirty = s, !.inbox = b.inbox \o answer]
    BY <1>1 DEF Execute
  <2>. HIDE DEF answer
  <2>. QED
    BY <2>2, <2>3, Zenon DEF BackendConn, BStates
<1>2. CASE b.state = "switching"
  BY <1>2, RejectType DEF Execute
<1>3. CASE b.state \notin {"ready", "switching"}
  BY <1>3 DEF Execute
<1>. QED
  BY <1>1, <1>2, <1>3

LEMMA AnswerKinds ==
  ASSUME NEW b
  PROVE  /\ <<>> \in Seq(Kinds)
         /\ <<"ok">> \in Seq(Kinds)
         /\ <<"err">> \in Seq(Kinds)
         /\ <<"infile">> \in Seq(Kinds)
         /\ ResultSet(b) \in Seq(Kinds)
         /\ Rows(b) \in Seq(Kinds)
<1>. "ok" \in Kinds /\ "err" \in Kinds /\ "infile" \in Kinds /\ "data" \in Kinds
     /\ "eof" \in Kinds /\ "reof" \in Kinds
  BY DEF Kinds
<1>. QED
  BY DEF ResultSet, Rows

LEMMA ResetSessionType ==
  ASSUME NEW b \in BackendConn, NEW s \in Clients
  PROVE  ResetSession(b, s) \in BackendConn
<1>1. CASE b.state = "ready"
  <2>1. Send(b, "ok", s) \in Seq(Packet)
    BY SendType DEF Kinds
  <2>. QED
    BY <1>1, <2>1, Zenon DEF ResetSession, BackendConn
<1>2. CASE b.state = "switching"
  BY <1>2, RejectType DEF ResetSession
<1>3. CASE b.state \notin {"ready", "switching"}
  BY <1>3 DEF ResetSession
<1>. QED
  BY <1>1, <1>2, <1>3

LEMMA ReadType ==
  ASSUME NEW b \in BackendConn, b.inbox # <<>>
  PROVE  Read(b) \in BackendConn
BY SMTT(60) DEF Read, BackendConn

LEMMA CloseType ==
  ASSUME NEW b \in BackendConn
  PROVE  Close(b) \in BackendConn
BY ZenonT(60) DEF Close, BackendConn, BStates

LEMMA FixedConnType ==
  /\ NoConn \in BackendConn
  /\ \A s \in Clients : Greet(s) \in BackendConn
BY DEF NoConn, Greet, Pkt, BackendConn, BStates, Packet, Kinds
----------------------------------------------------------------------------
(* The pool: who has which connection, who has a permit, how many exist.   *)

(* The part of the type invariant that is not about the pool.              *)
RestOK ==
  /\ user \in [Clients -> Users \cup {None}]
  /\ deof \in [Clients -> BOOLEAN]
  /\ foreign \in [Clients -> BOOLEAN]
  /\ be \in [Conns -> BackendConn]

(* The inductive invariant of the pool.                                    *)
PoolInv ==
  /\ TypeOK
  /\ ExclusiveConn
  /\ PermitAccounting
  /\ SizeBounded
  /\ RefusedNotReused

(* What every step of a session that keeps its connection does to the      *)
(* pool, ...                                                               *)
Works(s) ==
  /\ pc[s] \in HasConn
  /\ \E step \in HasConn : Goto(s, step)
  /\ phase' \in {phase, [phase EXCEPT ![held[s]] = "Command"]}
  /\ UNCHANGED <<held, waiters, permits, idle, size>>

(* ... and every step that ends one.                                       *)
Ends(s) ==
  /\ pc[s] \in HasConn
  /\ Goto(s, "start")
  /\ phase' \in {phase, [phase EXCEPT ![held[s]] = "Connection"]}
  /\ ReturnObject(s)

LEMMA FiniteParts ==
  ASSUME TypeOK
  PROVE  /\ IsFiniteSet(Permitted) /\ Cardinality(Permitted) \in Nat
         /\ IsFiniteSet(Holders) /\ Cardinality(Holders) \in Nat
         /\ IsFiniteSet(Creating) /\ Cardinality(Creating) \in Nat
<1>1. /\ Permitted \in SUBSET Clients
      /\ Holders \in SUBSET Clients
      /\ Creating \in SUBSET Clients
  BY DEF Permitted, Holders, Creating
<1>. QED
  BY <1>1, PoolAssumption, FS_Subset, FS_CardinalityType

(* The figures of the pool and how they are related.                       *)
LEMMA Figures ==
  ASSUME PoolInv
  PROVE  /\ Cardinality(Permitted) \in Nat /\ Cardinality(Holders) \in Nat
         /\ Cardinality(Creating) \in Nat /\ Len(idle) \in Nat
         /\ size \in Nat /\ permits \in Nat /\ MaxSize \in Nat
         /\ permits + Cardinality(Permitted) = MaxSize
         /\ size = Len(idle) + Cardinality(Holders)
         /\ size + Cardinality(Creating) <= MaxSize
<1>1. TypeOK /\ PermitAccounting /\ SizeBounded
  BY DEF PoolInv
<1>2. size \in Nat /\ permits \in Nat /\ MaxSize \in Nat /\ Len(idle) \in Nat
  BY <1>1, PoolAssumption DEF TypeOK
<1>. QED
  BY <1>1, <1>2, FiniteParts DEF PermitAccounting, SizeBounded

LEMMA WorksPreserves ==
  ASSUME PoolInv, NEW s \in Clients, Works(s), RestOK'
  PROVE  PoolInv'
<1>. USE DEF PoolInv
<1>1. PICK step \in HasConn : Goto(s, step)
  BY DEF Works
<1>2. held[s] \in Conns
  BY DEF Works, PermitAccounting, TypeOK
<1>3. TypeOK'
  BY <1>1, <1>2, ZenonT(60)
  DEF Works, Goto, TypeOK, RestOK, Phases, Steps, HasConn
<1>4. ExclusiveConn'
  BY DEF Works, ExclusiveConn
<1>5. /\ Permitted' = Permitted
      /\ Holders' = Holders
      /\ Creating' = Creating
  BY <1>1 DEF Works, Goto, TypeOK, Permitted, Holders, Creating, HasConn,
     AuthSteps, ComSteps, FwdSteps, Outside
<1>6. PermitAccounting'
  BY <1>1, <1>5 DEF Works, Goto, TypeOK, PermitAccounting
<1>7. SizeBounded'
  BY <1>5 DEF Works, SizeBounded
<1>8. RefusedNotReused'
  BY <1>2 DEF Works, RefusedNotReused, ExclusiveConn, TypeOK
<1>. QED
  BY <1>3, <1>4, <1>6, <1>7, <1>8

LEMMA EndsPreserves ==
  ASSUME PoolInv, NEW s \in Clients, Ends(s), RestOK'
  PROVE  PoolInv'
<1>. USE DEF PoolInv
<1>1. held[s] \in Conns /\ held[s] # None
  BY DEF Ends, PermitAccounting, TypeOK
<1>2. /\ s \in Permitted /\ Permitted' = Permitted \ {s}
      /\ s \in Holders /\ Holders' = Holders \ {s}
      /\ Creating' = Creating
  BY <1>1 DEF Ends, Goto, ReturnObject, TypeOK, Permitted, Holders, Creating,
     HasConn, AuthSteps, ComSteps, FwdSteps, Outside
<1>3. /\ Cardinality(Permitted') = Cardinality(Permitted) - 1
      /\ Cardinality(Holders') = Cardinality(Holders) - 1
  BY <1>2, FiniteParts, FS_RemoveElement, ZenonT(60)
<1>4. Cardinality(Permitted') \in Nat
  BY <1>2, FiniteParts, FS_RemoveElement, FS_CardinalityType
<1>5. TypeOK'
  <2>1. permits' \in 0..MaxSize
    BY <1>3, <1>4, FiniteParts, PoolAssumption
    DEF Ends, ReturnObject, TypeOK, PermitAccounting
  <2>2. pc' \in [Clients -> Steps]
    BY DEF Ends, Goto, TypeOK, Steps, Outside
  <2>3. held' \in [Clients -> Conns \cup {None}] /\ UNCHANGED <<waiters, size>>
    BY DEF Ends, ReturnObject, TypeOK
  <2>4. idle' \in Seq(Conns)
    BY <1>1 DEF Ends, ReturnObject, TypeOK
  <2>5. phase' \in [Conns -> Phases]
    BY <1>1 DEF Ends, ReturnObject, TypeOK, Phases
  <2>. QED
    BY <2>1, <2>2, <2>3, <2>4, <2>5 DEF TypeOK, RestOK
<1>6. ExclusiveConn'
  <2>1. /\ idle' \in Seq(Conns)
        /\ Len(idle') = Len(idle) + 1
        /\ Len(idle) \in Nat
        /\ \A i \in 1..Len(idle) : idle'[i] = idle[i]
        /\ idle'[Len(idle) + 1] = held[s]
    BY <1>1 DEF Ends, ReturnObject, TypeOK
  <2>2. \A i \in 1..Len(idle') : i \in 1..Len(idle) \/ i = Len(idle) + 1
    BY <2>1
  <2>3. /\ held' \in [Clients -> Conns \cup {None}]
        /\ held'[s] = None
        /\ \A x \in Clients : x # s => held'[x] = held[x]
    BY DEF Ends, ReturnObject, TypeOK
  <2>4. None \notin Conns /\ \A i \in 1..Len(idle) : idle[i] \in Conns
    BY PoolAssumption DEF TypeOK
  <2>5. \A x, y \in Clients : x # y /\ held'[x] # None => held'[x] # held'[y]
    BY <2>3 DEF ExclusiveConn
  <2>6. \A i, j \in 1..Len(idle') : i # j => idle'[i] # idle'[j]
    BY <2>1, <2>2 DEF ExclusiveConn
  <2>7. \A i \in 1..Len(idle'), x \in Clients : idle'[i] # held'[x]
    <3>. SUFFICES ASSUME NEW i \in 1..Len(idle'), NEW x \in Clients
                  PROVE  idle'[i] # held'[x]
      OBVIOUS
    <3>1. CASE x = s
      BY <1>1, <2>1, <2>2, <2>3, <2>4, <3>1
    <3>2. CASE x # s
      BY <1>1, <2>1, <2>2, <2>3, <3>2 DEF ExclusiveConn
    <3>. QED
      BY <3>1, <3>2
  <2>. QED
    BY <2>5, <2>6, <2>7 DEF ExclusiveConn
<1>7. PermitAccounting'
  <2>1. permits' + Cardinality(Permitted') = MaxSize
    BY <1>3, FiniteParts, PoolAssumption, SMTT(60)
    DEF Ends, ReturnObject, TypeOK, PermitAccounting
  <2>2. \A x \in Clients : held'[x] # None <=> pc'[x] \in HasConn
    BY DEF Ends, Goto, ReturnObject, TypeOK, PermitAccounting, HasConn,
       AuthSteps, ComSteps, FwdSteps
  <2>. QED
    BY <2>1, <2>2 DEF PermitAccounting
<1>8. SizeBounded'
  BY <1>1, <1>2, <1>3, FiniteParts, SMTT(60)
  DEF Ends, ReturnObject, TypeOK, SizeBounded
<1>9. RefusedNotReused'
  BY <1>1 DEF Ends, ReturnObject, RefusedNotReused, ExclusiveConn, TypeOK
<1>. QED
  BY <1>5, <1>6, <1>7, <1>8, <1>9
(* The steps of a session that keep its connection, ...                    *)
WorkAction(s) ==
  \/ ContinueAuth(s) \/ AwaitGreeting(s) \/ ReplyHandshake(s)
  \/ ForwardSwitch(s) \/ AuthSucceeds(s) \/ AnswerStep(s)
  \/ Query(s) \/ LoadLocal(s) \/ Fetch(s) \/ Generic(s) \/ SendLongData(s)
  \/ StmtClose(s) \/ (\E u \in Users : ChangeUser(s, u)) \/ Quit(s)
  \/ ForwardFirst(s) \/ ForwardCols(s) \/ ForwardRows(s) \/ ForwardOne(s)
  \/ ForwardChangeUser(s)

(* ... and those that end it.                                              *)
EndAction(s) ==
  \/ SwitchAssertPanics(s) \/ AuthRefused(s) \/ AuthClientGone(s)
  \/ AuthBackendGone(s) \/ InfilePanics(s) \/ ChangeUserRefused(s)
  \/ ForwardReset(s) \/ ClientAborts(s) \/ ComBackendGone(s)
  \/ ClientLeaves(s) \/ ReplyHandshakeFails(s) \/ ChangeUserAnswerErr(s)

LEMMA HeldType ==
  ASSUME PoolInv, NEW s \in Clients, pc[s] \in HasConn
  PROVE  held[s] \in Conns /\ be[held[s]] \in BackendConn
BY DEF PoolInv, PermitAccounting, TypeOK

(* The shape shared by the steps that send something to the backend or     *)
(* read something from it.                                                 *)
LEMMA WorksShape ==
  ASSUME PoolInv, NEW s \in Clients, pc[s] \in HasConn,
         NEW step \in HasConn, Goto(s, step),
         NEW b \in BackendConn, be' = [be EXCEPT ![held[s]] = b],
         user' \in [Clients -> Users \cup {None}],
         foreign' \in [Clients -> BOOLEAN],
         phase' \in {phase, [phase EXCEPT ![held[s]] = "Command"]},
         UNCHANGED <<deof, held, waiters, permits, idle, size>>
  PROVE  Works(s) /\ RestOK'
<1>1. Works(s)
  BY DEF Works
<1>2. be' \in [Conns -> BackendConn]
  BY HeldType DEF PoolInv, TypeOK
<1>. QED
  BY <1>1, <1>2 DEF RestOK, PoolInv, TypeOK

LEMMA DeliverShape ==
  ASSUME PoolInv, NEW s \in Clients, pc[s] \in HasConn, HasPacket(s),
         Deliver(s)
  PROVE  /\ Read(be[held[s]]) \in BackendConn
         /\ be' = [be EXCEPT ![held[s]] = Read(be[held[s]])]
         /\ foreign' \in [Clients -> BOOLEAN]
<1>1. be[held[s]] \in BackendConn
  BY HeldType
<1>2. Read(be[held[s]]) \in BackendConn
  BY <1>1, ReadType DEF HasPacket
<1>3. be' = [be EXCEPT ![held[s]] = Read(be[held[s]])]
  BY DEF Deliver, ReadPacket
<1>4. foreign' \in [Clients -> BOOLEAN]
  BY DEF Deliver, PoolInv, TypeOK
<1>. QED
  BY <1>2, <1>3, <1>4

LEMMA WorkActionWorks ==
  ASSUME PoolInv, NEW s \in Clients, WorkAction(s)
  PROVE  Works(s) /\ RestOK'
<1>. USE DEF HasConn, AuthSteps, ComSteps, FwdSteps
<1>. DEFINE b == be[held[s]]
<1>0. /\ user \in [Clients -> Users \cup {None}]
      /\ deof \in [Clients -> BOOLEAN]
      /\ foreign \in [Clients -> BOOLEAN]
      /\ user[s] \in Users \cup {None}
      /\ deof[s] \in BOOLEAN
  BY DEF PoolInv, TypeOK
<1>1. CASE ContinueAuth(s)
  <2>1. pc[s] \in HasConn
    BY <1>1 DEF ContinueAuth
  <2>2. RequestAuth(b, s, user[s], deof[s]) \in BackendConn
    BY <1>0, <2>1, HeldType, RequestAuthType, Zenon
  <2>. QED
    BY <1>0, <1>1, <2>1, <2>2, WorksShape, Zenon DEF ContinueAuth, poolVars
<1>2. CASE AwaitGreeting(s)
  BY <1>0, <1>2 DEF AwaitGreeting, poolVars, Works, RestOK, PoolInv, TypeOK
<1>3. CASE ReplyHandshake(s)
  <2>1. pc[s] \in HasConn
    BY <1>3 DEF ReplyHandshake
  <2>2. Read(b) \in BackendConn
    BY <1>3, <2>1, HeldType, ReadType DEF ReplyHandshake, HasPacket
  <2>3. RequestAuth(Read(b), s, user[s], deof[s]) \in BackendConn
    BY <1>0, <2>2, RequestAuthType, ZenonT(60)
  <2>. QED
    BY <1>0, <1>3, <2>1, <2>3, WorksShape, Zenon DEF ReplyHandshake, poolVars
<1>4. CASE ForwardSwitch(s)
  <2>1. pc[s] \in HasConn /\ HasPacket(s) /\ Deliver(s) /\ Goto(s, "answer")
    BY <1>4 DEF ForwardSwitch
  <2>. QED
    BY <1>0, <1>4, <2>1, DeliverShape, WorksShape DEF ForwardSwitch, poolVars
<1>5. CASE AuthSucceeds(s)
  <2>1. pc[s] \in HasConn /\ HasPacket(s) /\ Deliver(s) /\ Goto(s, "command")
    BY <1>5, ZenonT(60) DEF AuthSucceeds
  <2>. QED
    BY <1>0, <1>5, <2>1, DeliverShape, WorksShape, Zenon DEF AuthSucceeds
<1>6. CASE AnswerStep(s)
  <2>1. PICK good \in BOOLEAN :
          ForwardAnswer(s, good) \/ ForwardChangeUserAnswer(s, good)
    BY <1>6, ZenonT(60) DEF AnswerStep
  <2>2. pc[s] \in HasConn
    BY <2>1 DEF ForwardAnswer, ForwardChangeUserAnswer
  <2>3. AnswerAuth(b, s, good) \in BackendConn
    BY <2>2, HeldType, AnswerAuthType
  <2>. QED
    BY <1>0, <2>1, <2>2, <2>3, WorksShape
    DEF ForwardAnswer, ForwardChangeUserAnswer, poolVars
<1>7. CASE Query(s)
  <2>1. pc[s] \in HasConn
    BY <1>7 DEF Query
  <2>2. b \in BackendConn
    BY <2>1, HeldType
  <2>3. \E kinds \in Seq(Kinds) :
          SendCommand(s, "query", Execute(b, s, kinds), "first")
    BY <1>7, AnswerKinds, Zenon DEF Query
  <2>4. PICK kinds \in Seq(Kinds) :
          SendCommand(s, "query", Execute(b, s, kinds), "first")
    BY <2>3
  <2>5. Execute(b, s, kinds) \in BackendConn
    BY <2>2, ExecuteType
  <2>. QED
    BY <1>0, <1>7, <2>1, <2>4, <2>5, WorksShape, ZenonT(60) DEF Query, SendCommand, poolVars
<1>8. CASE LoadLocal(s)
  <2>1. pc[s] \in HasConn
    BY <1>8 DEF LoadLocal
  <2>2. b \in BackendConn
    BY <2>1, HeldType
  <2>3. \E kinds \in Seq(Kinds) :
          SendCommand(s, "infile", Execute(b, s, kinds), "first")
    BY <1>8, AnswerKinds, Zenon DEF LoadLocal
  <2>4. PICK kinds \in Seq(Kinds) :
          SendCommand(s, "infile", Execute(b, s, kinds), "first")
    BY <2>3
  <2>5. Execute(b, s, kinds) \in BackendConn
    BY <2>2, ExecuteType
  <2>. QED
    BY <1>0, <1>8, <2>1, <2>4, <2>5, WorksShape, Zenon DEF LoadLocal, SendCommand, poolVars
<1>9. CASE Fetch(s)
  <2>1. pc[s] \in HasConn
    BY <1>9 DEF Fetch
  <2>2. b \in BackendConn
    BY <2>1, HeldType
  <2>3. \E kinds \in Seq(Kinds) :
          SendCommand(s, "fetch", Execute(b, s, kinds), "rows")
    BY <1>9, AnswerKinds, Zenon DEF Fetch
  <2>4. PICK kinds \in Seq(Kinds) :
          SendCommand(s, "fetch", Execute(b, s, kinds), "rows")
    BY <2>3
  <2>5. Execute(b, s, kinds) \in BackendConn
    BY <2>2, ExecuteType
  <2>. QED
    BY <1>0, <1>9, <2>1, <2>4, <2>5, WorksShape, ZenonT(60) DEF Fetch, SendCommand, poolVars
<1>10. CASE Generic(s)
  <2>1. pc[s] \in HasConn
    BY <1>10 DEF Generic
  <2>2. b \in BackendConn
    BY <2>1, HeldType
  <2>3. \E kinds \in Seq(Kinds) :
          SendCommand(s, "generic", Execute(b, s, kinds), "one")
    BY <1>10, AnswerKinds, Zenon DEF Generic
  <2>4. PICK kinds \in Seq(Kinds) :
          SendCommand(s, "generic", Execute(b, s, kinds), "one")
    BY <2>3
  <2>5. Execute(b, s, kinds) \in BackendConn
    BY <2>2, ExecuteType
  <2>. QED
    BY <1>0, <1>10, <2>1, <2>4, <2>5, WorksShape, Zenon DEF Generic, SendCommand, poolVars
<1>11. CASE SendLongData(s)
  <2>1. pc[s] \in HasConn
    BY <1>11 DEF SendLongData
  <2>2. b \in BackendConn
    BY <2>1, HeldType
  <2>3. \E kinds \in Seq(Kinds) :
          SendCommand(s, "longdata", Execute(b, s, kinds), "one")
    BY <1>11, AnswerKinds, Zenon DEF SendLongData
  <2>4. PICK kinds \in Seq(Kinds) :
          SendCommand(s, "longdata", Execute(b, s, kinds), "one")
    BY <2>3
  <2>5. Execute(b, s, kinds) \in BackendConn
    BY <2>2, ExecuteType
  <2>. QED
    BY <1>0, <1>11, <2>1, <2>4, <2>5, WorksShape, Zenon DEF SendLongData, SendCommand, poolVars
<1>12. CASE StmtClose(s)
  <2>1. pc[s] \in HasConn
    BY <1>12 DEF StmtClose
  <2>2. b \in BackendConn
    BY <2>1, HeldType
  <2>3. \E kinds \in Seq(Kinds) :
          SendCommand(s, "close", Execute(b, s, kinds), "command")
    BY <1>12, AnswerKinds, Zenon DEF StmtClose
  <2>4. PICK kinds \in Seq(Kinds) :
          SendCommand(s, "close", Execute(b, s, kinds), "command")
    BY <2>3
  <2>5. Execute(b, s, kinds) \in BackendConn
    BY <2>2, ExecuteType
  <2>. QED
    BY <1>0, <1>12, <2>1, <2>4, <2>5, WorksShape, ZenonT(60) DEF StmtClose, SendCommand, poolVars
<1>13. CASE \E u \in Users : ChangeUser(s, u)
  <2>1. PICK u \in Users : ChangeUser(s, u)
    BY <1>13
  <2>2. pc[s] \in HasConn
    BY <2>1 DEF ChangeUser
  <2>3. RequestAuth(b, s, u, deof[s]) \in BackendConn
    BY <1>0, <2>2, HeldType, RequestAuthType
  <2>4. user' \in [Clients -> Users \cup {None}]
    BY <1>0, <2>1, ZenonT(60) DEF ChangeUser
  <2>. QED
    BY <1>0, <2>1, <2>2, <2>3, <2>4, WorksShape, Zenon
    DEF ChangeUser, SendCommand, poolVars
<1>14. CASE Quit(s)
  <2>1. pc[s] \in HasConn
    BY <1>14 DEF Quit
  <2>2. ResetSession(b, s) \in BackendConn
    BY <2>1, HeldType, ResetSessionType
  <2>. QED
    BY <1>0, <1>14, <2>1, <2>2, WorksShape, ZenonT(60) DEF Quit, poolVars
<1>15. CASE ForwardFirst(s)
  <2>1. pc[s] \in HasConn /\ HasPacket(s) /\ Deliver(s)
    BY <1>15 DEF ForwardFirst, Forward
  <2>2. PICK step \in HasConn : Goto(s, step)
    BY <1>15, ZenonT(60) DEF ForwardFirst, Forward
  <2>. QED
    BY <1>0, <1>15, <2>1, <2>2, DeliverShape, WorksShape, ZenonT(60)
    DEF ForwardFirst, Forward, poolVars
<1>16. CASE ForwardCols(s)
  <2>1. pc[s] \in HasConn /\ HasPacket(s) /\ Deliver(s)
    BY <1>16 DEF ForwardCols, Forward
  <2>2. PICK step \in HasConn : Goto(s, step)
    BY <1>16, ZenonT(60) DEF ForwardCols, Forward
  <2>. QED
    BY <1>0, <1>16, <2>1, <2>2, DeliverShape, WorksShape
    DEF ForwardCols, Forward, poolVars
<1>17. CASE ForwardRows(s)
  <2>1. pc[s] \in HasConn /\ HasPacket(s) /\ Deliver(s)
    BY <1>17 DEF ForwardRows, Forward
  <2>2. PICK step \in HasConn : Goto(s, step)
    BY <1>17, ZenonT(60) DEF ForwardRows, Forward
  <2>. QED
    BY <1>0, <1>17, <2>1, <2>2, DeliverShape, WorksShape
    DEF ForwardRows, Forward, poolVars
<1>18. CASE ForwardOne(s)
  <2>1. pc[s] \in HasConn /\ HasPacket(s) /\ Deliver(s)
    BY <1>18 DEF ForwardOne, Forward
  <2>2. PICK step \in HasConn : Goto(s, step)
    BY <1>18, ZenonT(60) DEF ForwardOne, Forward
  <2>. QED
    BY <1>0, <1>18, <2>1, <2>2, DeliverShape, WorksShape
    DEF ForwardOne, Forward, poolVars
<1>19. CASE ForwardChangeUser(s)
  <2>1. pc[s] \in HasConn /\ HasPacket(s) /\ Deliver(s)
    BY <1>19 DEF ForwardChangeUser, Forward
  <2>2. PICK step \in HasConn : Goto(s, step)
    BY <1>19 DEF ForwardChangeUser, Forward
  <2>. QED
    BY <1>0, <1>19, <2>1, <2>2, DeliverShape, WorksShape
    DEF ForwardChangeUser, Forward, poolVars
<1>. QED
  BY <1>1, <1>2, <1>3, <1>4, <1>5, <1>6, <1>7, <1>8, <1>9, <1>10, <1>11, <1>12, <1>13, <1>14, <1>15, <1>16, <1>17, <1>18, <1>19, ZenonT(60) DEF WorkAction
LEMMA EndTaskType ==
  ASSUME PoolInv, NEW s \in Clients, EndTask(s)
  PROVE  /\ user' \in [Clients -> Users \cup {None}]
         /\ deof' \in [Clients -> BOOLEAN]
         /\ foreign' \in [Clients -> BOOLEAN]
BY DEF EndTask, PoolInv, TypeOK

LEMMA ReadPacketType ==
  ASSUME PoolInv, NEW s \in Clients, pc[s] \in HasConn,
         \/ HasPacket(s) /\ ReadPacket(s)
         \/ UNCHANGED be
  PROVE  be' \in [Conns -> BackendConn]
<1>1. CASE HasPacket(s) /\ ReadPacket(s)
  <2>1. Read(be[held[s]]) \in BackendConn
    BY <1>1, HeldType, ReadType DEF HasPacket
  <2>. QED
    BY <1>1, <2>1, HeldType DEF ReadPacket, PoolInv, TypeOK
<1>2. CASE UNCHANGED be
  BY <1>2 DEF PoolInv, TypeOK
<1>. QED
  BY <1>1, <1>2

LEMMA EndActionEnds ==
  ASSUME PoolInv, NEW s \in Clients, EndAction(s)
  PROVE  Ends(s) /\ RestOK'
<1>. USE DEF HasConn, AuthSteps, ReadSteps, ComSteps, FwdSteps
<1>1. pc[s] \in HasConn
  BY DEF EndAction, SwitchAssertPanics, AuthRefused, AuthClientGone,
     AuthBackendGone, InfilePanics, ChangeUserRefused, ForwardReset,
     ClientAborts, ComBackendGone, ClientLeaves, ReplyHandshakeFails,
     ChangeUserAnswerErr
<1>2. EndSession(s) \/ AuthFailed(s)
  BY DEF EndAction, SwitchAssertPanics, AuthRefused, AuthClientGone,
     AuthBackendGone, InfilePanics, ChangeUserRefused, ForwardReset,
     ClientAborts, ComBackendGone, ClientLeaves, ReplyHandshakeFails,
     ChangeUserAnswerErr
<1>3. \/ HasPacket(s) /\ ReadPacket(s)
      \/ UNCHANGED be
      \/ \E good \in BOOLEAN :
           be' = [be EXCEPT ![held[s]] = AnswerAuth(be[held[s]], s, good)]
  BY DEF EndAction, SwitchAssertPanics, AuthRefused, AuthClientGone,
     AuthBackendGone, InfilePanics, ChangeUserRefused, ForwardReset,
     ClientAborts, ComBackendGone, ClientLeaves, ReplyHandshakeFails,
     ChangeUserAnswerErr
<1>5. Ends(s)
  BY <1>1, <1>2 DEF Ends, EndSession, AuthFailed, EndTask
<1>6. be' \in [Conns -> BackendConn]
  <2>1. CASE (HasPacket(s) /\ ReadPacket(s)) \/ UNCHANGED be
    BY <1>1, <2>1, ReadPacketType
  <2>2. CASE \E good \in BOOLEAN :
               be' = [be EXCEPT ![held[s]] = AnswerAuth(be[held[s]], s, good)]
    <3>1. PICK good \in BOOLEAN :
               be' = [be EXCEPT ![held[s]] = AnswerAuth(be[held[s]], s, good)]
      BY <2>2, ZenonT(60)
    <3>2. AnswerAuth(be[held[s]], s, good) \in BackendConn /\ held[s] \in Conns
      BY <1>1, HeldType, AnswerAuthType
    <3>. QED
      BY <3>1, <3>2 DEF PoolInv, TypeOK
  <2>. QED
    BY <1>3, <2>1, <2>2, ZenonT(60)
<1>7. EndTask(s)
  BY <1>2 DEF EndSession, AuthFailed
<1>. QED
  BY <1>5, <1>6, <1>7, EndTaskType, ZenonT(60) DEF RestOK

(* Steps outside the pool leave it alone.                                  *)
LEMMA OutsidePreserves ==
  ASSUME PoolInv, NEW s \in Clients,
         \/ \E u \in Users, d \in Caps : OnConn(s, u, d)
         \/ ConnectToBackend(s)
         \/ NoBackend(s)
  PROVE  PoolInv'
<1>. USE DEF PoolInv
<1>1. /\ pc[s] \in Outside
      /\ \E step \in Outside : Goto(s, step)
      /\ UNCHANGED <<held, permits, idle, size, phase, be>>
      /\ waiters' = waiters \/ waiters' = Append(waiters, s)
  BY DEF OnConn, ConnectToBackend, NoBackend, EndTask, poolVars, Outside
<1>2. /\ user' \in [Clients -> Users \cup {None}]
      /\ deof' \in [Clients -> BOOLEAN]
      /\ foreign' \in [Clients -> BOOLEAN]
  <2>1. CASE \E u \in Users, d \in Caps : OnConn(s, u, d)
    BY <2>1, PoolAssumption DEF OnConn, TypeOK
  <2>2. CASE ConnectToBackend(s)
    BY <2>2 DEF ConnectToBackend, TypeOK
  <2>3. CASE NoBackend(s)
    BY <2>3, EndTaskType DEF NoBackend
  <2>. QED
    BY <2>1, <2>2, <2>3
<1>3. TypeOK'
  <2>0. waiters \in Seq(Clients)
    BY DEF TypeOK
  <2>1. waiters' \in Seq(Clients)
    <3>1. Append(waiters, s) \in Seq(Clients)
      BY <2>0
    <3>. QED
      BY <1>1, <2>0, <3>1
  <2>2. pc' \in [Clients -> Steps]
    BY <1>1 DEF TypeOK, Goto, Steps
  <2>. QED
    BY <1>1, <1>2, <2>1, <2>2 DEF TypeOK
<1>4. ExclusiveConn' /\ RefusedNotReused'
  BY <1>1 DEF ExclusiveConn, RefusedNotReused
<1>5. Permitted' = Permitted /\ Holders' = Holders /\ Creating' = Creating
  BY <1>1 DEF Goto, TypeOK, Permitted, Holders, Creating, Outside
<1>6. PermitAccounting' /\ SizeBounded'
  BY <1>1, <1>5 DEF Goto, TypeOK, PermitAccounting, SizeBounded, HasConn,
     AuthSteps, ComSteps, FwdSteps, Outside
<1>. QED
  BY <1>3, <1>4, <1>6

LEMMA AcquirePermitPreserves ==
  ASSUME PoolInv, NEW s \in Clients, AcquirePermit(s)
  PROVE  PoolInv'
<1>. USE DEF PoolInv
<1>1. TypeOK'
  <2>1. waiters' \in Seq(Clients)
    BY DEF AcquirePermit, TypeOK
  <2>2. pc' \in [Clients -> Steps]
    BY DEF AcquirePermit, Goto, TypeOK, Steps, Acquiring
  <2>3. permits' \in 0..MaxSize
    BY PoolAssumption DEF AcquirePermit, TypeOK
  <2>. QED
    BY <2>1, <2>2, <2>3 DEF AcquirePermit, TypeOK
<1>2. ExclusiveConn' /\ RefusedNotReused'
  BY Zenon DEF AcquirePermit, ExclusiveConn, RefusedNotReused
<1>3. /\ s \notin Permitted /\ Permitted' = Permitted \cup {s}
      /\ Holders' = Holders /\ Creating' = Creating
  BY DEF AcquirePermit, Goto, TypeOK, Permitted, Holders, Creating, Outside
<1>4. Cardinality(Permitted') = Cardinality(Permitted) + 1
  BY <1>3, FiniteParts, FS_AddElement, Zenon
<1>5. permits' + Cardinality(Permitted') = MaxSize
  BY <1>4, FiniteParts, PoolAssumption DEF AcquirePermit, TypeOK, PermitAccounting
<1>6. PermitAccounting'
  BY <1>5 DEF AcquirePermit, Goto, TypeOK, PermitAccounting, HasConn,
     AuthSteps, ComSteps, FwdSteps
<1>7. SizeBounded'
  BY <1>3 DEF AcquirePermit, SizeBounded
<1>. QED
  BY <1>1, <1>2, <1>6, <1>7

(* Taking the head of the idle queue.                                      *)
LEMMA IdleTail ==
  ASSUME PoolInv, idle # <<>>
  PROVE  /\ Head(idle) = idle[1] /\ idle[1] \in Conns
         /\ Len(idle) \in Nat /\ 1 \in 1..Len(idle)
         /\ Tail(idle) \in Seq(Conns)
         /\ Len(Tail(idle)) = Len(idle) - 1
         /\ \A i \in 1..Len(Tail(idle)) :
              Tail(idle)[i] = idle[i + 1] /\ i + 1 \in 1..Len(idle)
BY DEF PoolInv, TypeOK

LEMMA TakeIdlePreserves ==
  ASSUME PoolInv, NEW s \in Clients, TakeIdle(s)
  PROVE  PoolInv'
<1>. USE DEF PoolInv
<1>0. idle # <<>> /\ idle' = Tail(idle)
  BY DEF TakeIdle
<1>. DEFINE c == idle[1]
<1>1. /\ held' = [held EXCEPT ![s] = c]
      /\ phase[c] # "Connection"
      /\ held[s] = None
      /\ c \in Conns /\ c # None
  BY <1>0, IdleTail, PoolAssumption
  DEF TakeIdle, Recyclable, PermitAccounting, HasConn, AuthSteps, ComSteps,
      FwdSteps
<1>. HIDE DEF c
<1>2. TypeOK'
  BY <1>0, <1>1, IdleTail, ZenonT(60) DEF TakeIdle, Goto, TypeOK, Steps, AuthSteps
<1>3. ExclusiveConn'
  <2>1. \A x, y \in Clients : x # y /\ held'[x] # None => held'[x] # held'[y]
    BY <1>0, <1>1, IdleTail DEF ExclusiveConn, TypeOK, c
  <2>2. \A i, j \in 1..Len(idle') : i # j => idle'[i] # idle'[j]
    BY <1>0, IdleTail, SMTT(60) DEF ExclusiveConn
  <2>3. \A i \in 1..Len(idle'), x \in Clients : idle'[i] # held'[x]
    BY <1>0, <1>1, IdleTail DEF ExclusiveConn, TypeOK, c
  <2>. QED
    BY <2>1, <2>2, <2>3, ZenonT(60) DEF ExclusiveConn
<1>4. /\ Permitted' = Permitted /\ Creating' = Creating
      /\ s \notin Holders /\ Holders' = Holders \cup {s}
  BY <1>1 DEF TakeIdle, Goto, TypeOK, Permitted, Holders, Creating, Outside
<1>5. Cardinality(Holders') = Cardinality(Holders) + 1
  BY <1>4, FiniteParts, FS_AddElement, ZenonT(60)
<1>6. PermitAccounting'
  BY <1>1, <1>4 DEF TakeIdle, Goto, TypeOK, PermitAccounting, HasConn, AuthSteps
<1>7. SizeBounded'
  <2>1. size' = size /\ Len(idle') = Len(idle) - 1 /\ Creating' = Creating
    BY <1>0, <1>4, IdleTail DEF TakeIdle
  <2>2. size' = Len(idle') + Cardinality(Holders')
    BY <1>5, <2>1, Figures
  <2>3. size' + Cardinality(Creating') <= MaxSize
    BY <2>1, Figures
  <2>. QED
    BY <2>2, <2>3 DEF SizeBounded
<1>8. RefusedNotReused'
  BY <1>1 DEF TakeIdle, RefusedNotReused, TypeOK
<1>. QED
  BY <1>2, <1>3, <1>6, <1>7, <1>8
LEMMA DiscardIdlePreserves ==
  ASSUME PoolInv, NEW s \in Clients, DiscardIdle(s)
  PROVE  PoolInv'
<1>. USE DEF PoolInv
<1>0. idle # <<>> /\ idle' = Tail(idle)
  BY DEF DiscardIdle
<1>1. /\ UNCHANGED <<pc, user, deof, held, foreign, waiters, permits>>
      /\ phase' = [phase EXCEPT ![idle[1]] = "None"]
      /\ be' = [be EXCEPT ![idle[1]] = NoConn]
      /\ size' = size - 1
      /\ idle[1] \in Conns
  BY <1>0, IdleTail, ZenonT(60) DEF DiscardIdle, clientVars
<1>2. /\ Permitted' = Permitted /\ Holders' = Holders /\ Creating' = Creating
  BY <1>1 DEF Permitted, Holders, Creating
<1>3. /\ Len(idle') = Len(idle) - 1 /\ Len(idle) \in Nat /\ Len(idle) > 0
      /\ size = Len(idle) + Cardinality(Holders)
      /\ size + Cardinality(Creating) <= MaxSize
      /\ size \in 0..MaxSize /\ MaxSize \in Nat
  BY <1>0, IdleTail, PoolAssumption DEF SizeBounded, TypeOK
<1>4. size' \in 0..MaxSize /\ SizeBounded'
  <2>1. size' = Len(idle') + Cardinality(Holders)
    BY <1>1, <1>3, FiniteParts
  <2>2. size' + Cardinality(Creating) <= MaxSize /\ size' \in 0..MaxSize
    BY <1>1, <1>3, FiniteParts, SMTT(60)
  <2>. QED
    BY <1>2, <2>1, <2>2 DEF SizeBounded
<1>5. TypeOK'
  BY <1>0, <1>1, <1>4, IdleTail, FixedConnType, ZenonT(60) DEF TypeOK, Phases
<1>6. ExclusiveConn'
  <2>1. \A x, y \in Clients : x # y /\ held'[x] # None => held'[x] # held'[y]
    BY <1>1 DEF ExclusiveConn
  <2>2. \A i, j \in 1..Len(idle') : i # j => idle'[i] # idle'[j]
    BY <1>0, <1>1, IdleTail, SMTT(60) DEF ExclusiveConn
  <2>3. \A i \in 1..Len(idle'), x \in Clients : idle'[i] # held'[x]
    <3>. TAKE i \in 1..Len(idle'), x \in Clients
    <3>1. idle' = Tail(idle) /\ idle # <<>> /\ held' = held
      BY <1>0, <1>1
    <3>2. idle'[i] = idle[i + 1] /\ i + 1 \in 1..Len(idle)
      BY <3>1, IdleTail
    <3>3. idle[i + 1] # held[x]
      BY <3>2, Zenon DEF ExclusiveConn
    <3>. QED
      BY <3>1, <3>2, <3>3, ZenonT(60)
  <2>. QED
    BY <2>1, <2>2, <2>3, ZenonT(60) DEF ExclusiveConn
<1>7. PermitAccounting'
  BY <1>1, <1>2 DEF PermitAccounting
<1>8. RefusedNotReused'
  BY <1>1 DEF RefusedNotReused, TypeOK
<1>. QED
  BY <1>4, <1>5, <1>6, <1>7, <1>8

(* A task decides to open a connection when the queue is empty: all live   *)
(* connections are then with tasks that hold a permit, as is this task.    *)
LEMMA NoneIdlePreserves ==
  ASSUME PoolInv, NEW s \in Clients, NoneIdle(s)
  PROVE  PoolInv'
<1>. USE DEF PoolInv
<1>0. /\ UNCHANGED <<user, deof, held, foreign, waiters, permits, idle, size,
                     phase, be>>
      /\ pc[s] = "slot" /\ pc' = [pc EXCEPT ![s] = "create"]
      /\ idle = <<>>
  BY DEF NoneIdle, Goto, poolVars
<1>1. TypeOK'
  BY <1>0 DEF TypeOK, Steps, Acquiring
<1>2. ExclusiveConn' /\ RefusedNotReused'
  <2>1. UNCHANGED <<held, idle, phase>>
    BY <1>0
  <2>. QED
    BY <2>1, Zenon DEF ExclusiveConn, RefusedNotReused
<1>3. /\ Permitted' = Permitted /\ Holders' = Holders
      /\ s \notin Creating /\ Creating' = Creating \cup {s}
  BY <1>0 DEF TypeOK, Permitted, Holders, Creating, Outside
<1>4. Cardinality(Creating') = Cardinality(Creating) + 1
  BY <1>3, FiniteParts, FS_AddElement, Zenon
<1>5. PermitAccounting'
  BY <1>0, <1>3 DEF TypeOK, PermitAccounting, HasConn, AuthSteps, ComSteps, FwdSteps
<1>6. SizeBounded'
  <2>1. Holders \cap Creating' = {}
    BY <1>0, <1>3
    DEF TypeOK, Holders, Creating, PermitAccounting, HasConn, AuthSteps,
        ComSteps, FwdSteps
  <2>2. (Holders \cup Creating') \in SUBSET Permitted
    BY <1>0, ZenonT(60)
    DEF TypeOK, Holders, Creating, Permitted, PermitAccounting, HasConn,
        AuthSteps, ComSteps, FwdSteps, Outside
  <2>3. IsFiniteSet(Creating')
    BY <1>3, FiniteParts, FS_AddElement
  <2>4. Cardinality(Holders \cup Creating') =
          Cardinality(Holders) + Cardinality(Creating')
    <3>1. Cardinality(Holders \cup Creating') =
            Cardinality(Holders) + Cardinality(Creating')
              - Cardinality(Holders \cap Creating')
      BY <2>3, FiniteParts, FS_Union
    <3>2. Cardinality(Holders \cap Creating') = 0
      BY <2>1, FS_EmptySet
    <3>. QED
      BY <1>4, <3>1, <3>2, FiniteParts
  <2>5. Cardinality(Holders \cup Creating') <= Cardinality(Permitted)
    BY <2>2, FiniteParts, FS_Subset
  <2>6. Len(idle) = 0 /\ size' = size /\ idle' = idle /\ Holders' = Holders
    BY <1>0, <1>3
  <2>7. Cardinality(Holders) + Cardinality(Creating') <= MaxSize
    BY <1>4, <2>4, <2>5, Figures, SMTT(60)
  <2>8. size = Cardinality(Holders)
    BY <2>6, Figures
  <2>. QED
    BY <2>6, <2>7, <2>8, Figures, ZenonT(60) DEF SizeBounded
<1>. QED
  BY <1>1, <1>2, <1>5, <1>6
LEMMA CreatePreserves ==
  ASSUME PoolInv, NEW s \in Clients, NEW c \in Conns, Create(s, c)
  PROVE  PoolInv'
<1>. USE DEF PoolInv
<1>0. /\ UNCHANGED <<user, deof, foreign, waiters, permits, idle>>
      /\ pc[s] = "create" /\ pc' = [pc EXCEPT ![s] = "auth"]
      /\ held' = [held EXCEPT ![s] = c]
      /\ phase' = [phase EXCEPT ![c] = "None"]
      /\ be' = [be EXCEPT ![c] = Greet(s)]
      /\ size' = size + 1
      /\ c # None
  BY PoolAssumption DEF Create, Goto
<1>1. /\ \A x \in Clients : held[x] # c
      /\ \A i \in 1..Len(idle) : idle[i] # c
  BY DEF Create, Live, TypeOK
<1>2. held[s] = None
  BY <1>0 DEF PermitAccounting, HasConn, AuthSteps, ComSteps, FwdSteps
<1>3. /\ Permitted' = Permitted
      /\ s \notin Holders /\ Holders' = Holders \cup {s}
      /\ s \in Creating /\ Creating' = Creating \ {s}
  BY <1>0, <1>2 DEF TypeOK, Permitted, Holders, Creating, Outside
<1>4. /\ Cardinality(Holders') = Cardinality(Holders) + 1
      /\ Cardinality(Creating') = Cardinality(Creating) - 1
  BY <1>3, FiniteParts, FS_AddElement, FS_RemoveElement, Zenon
<1>5. Cardinality(Creating') \in Nat
  BY <1>3, FiniteParts, FS_RemoveElement, FS_CardinalityType
<1>6. SizeBounded'
  <2>1. size' = size + 1 /\ idle' = idle
    BY <1>0
  <2>2. size' = Len(idle') + Cardinality(Holders')
    BY <1>4, <2>1, Figures
  <2>3. size' + Cardinality(Creating') <= MaxSize
    BY <1>4, <2>1, Figures
  <2>. QED
    BY <2>2, <2>3 DEF SizeBounded
<1>7. size' \in 0..MaxSize
  <2>1. size' = size + 1
    BY <1>0
  <2>2. size \in Nat /\ MaxSize \in Nat
    BY Figures, ZenonT(60)
  <2>3. size' + Cardinality(Creating') <= MaxSize
    BY <1>6, ZenonT(60) DEF SizeBounded
  <2>. QED
    BY <1>5, <2>1, <2>2, <2>3, SMTT(60)
<1>8. TypeOK'
  BY <1>0, <1>7, FixedConnType DEF TypeOK, Steps, AuthSteps, Phases
<1>9. ExclusiveConn'
  BY <1>0, <1>1 DEF ExclusiveConn, TypeOK
<1>10. PermitAccounting'
  BY <1>0, <1>3 DEF PermitAccounting, TypeOK, HasConn, AuthSteps
<1>11. RefusedNotReused'
  BY <1>0, <1>1 DEF RefusedNotReused, TypeOK
<1>. QED
  BY <1>6, <1>8, <1>9, <1>10, <1>11, ZenonT(60)

LEMMA CreatePanicsPreserves ==
  ASSUME PoolInv, NEW s \in Clients, CreatePanics(s)
  PROVE  PoolInv'
<1>. USE DEF PoolInv
<1>0. /\ UNCHANGED <<held, waiters, idle, size, phase, be>>
      /\ pc[s] = "create" /\ pc' = [pc EXCEPT ![s] = "start"]
      /\ permits' = permits + 1
  BY DEF CreatePanics, EndTask, Goto
<1>1. /\ user' \in [Clients -> Users \cup {None}]
      /\ deof' \in [Clients -> BOOLEAN]
      /\ foreign' \in [Clients -> BOOLEAN]
  BY EndTaskType DEF CreatePanics
<1>2. /\ s \in Permitted /\ Permitted' = Permitted \ {s}
      /\ Holders' = Holders
      /\ s \in Creating /\ Creating' = Creating \ {s}
  BY <1>0 DEF TypeOK, Permitted, Holders, Creating, Outside
<1>3. /\ Cardinality(Permitted') = Cardinality(Permitted) - 1
      /\ Cardinality(Creating') = Cardinality(Creating) - 1
      /\ Cardinality(Permitted') \in Nat
  BY <1>2, FiniteParts, FS_RemoveElement, FS_CardinalityType, ZenonT(60)
<1>4. permits' + Cardinality(Permitted') = MaxSize /\ permits' \in 0..MaxSize
  BY <1>0, <1>3, FiniteParts, PoolAssumption, SMTT(60) DEF PermitAccounting, TypeOK
<1>5. TypeOK'
  BY <1>0, <1>1, <1>4, Zenon DEF TypeOK, Steps, Outside
<1>6. ExclusiveConn' /\ RefusedNotReused'
  <2>1. UNCHANGED <<held, idle, phase>>
    BY <1>0
  <2>. QED
    BY <2>1, Zenon DEF ExclusiveConn, RefusedNotReused
<1>7. PermitAccounting'
  BY <1>0, <1>4 DEF PermitAccounting, TypeOK, HasConn, AuthSteps, ComSteps, FwdSteps
<1>8. SizeBounded'
  <2>1. size' = size /\ idle' = idle /\ Holders' = Holders
    BY <1>0, <1>2
  <2>. QED
    BY <1>3, <2>1, Figures, SMTT(60) DEF SizeBounded
<1>. QED
  BY <1>5, <1>6, <1>7, <1>8

LEMMA BackendClosesPreserves ==
  ASSUME PoolInv, NEW c \in Conns, BackendCloses(c)
  PROVE  PoolInv'
<1>. USE DEF PoolInv
<1>1. /\ UNCHANGED <<pc, user, deof, held, foreign, waiters, permits, idle, size,
                     phase>>
      /\ be' = [be EXCEPT ![c] = Close(be[c])]
  BY DEF BackendCloses, clientVars, poolVars
<1>2. Close(be[c]) \in BackendConn
  BY CloseType DEF TypeOK
<1>3. TypeOK'
  BY <1>1, <1>2 DEF TypeOK
<1>. QED
  BY <1>1, <1>3, Zenon
  DEF ExclusiveConn, PermitAccounting, SizeBounded, RefusedNotReused,
      Permitted, Holders, Creating

LEMMA PoolInit == Init => PoolInv
<1>. SUFFICES ASSUME Init PROVE PoolInv
  OBVIOUS
<1>. USE PoolAssumption DEF Init
<1>1. TypeOK
  BY FixedConnType DEF TypeOK, Steps, Outside, Phases
<1>2. Permitted = {} /\ Holders = {} /\ Creating = {}
  BY DEF Permitted, Holders, Creating, Outside
<1>3. PermitAccounting /\ SizeBounded
  BY <1>2, FS_EmptySet DEF PermitAccounting, SizeBounded, HasConn, AuthSteps,
     ComSteps, FwdSteps
<1>4. ExclusiveConn /\ RefusedNotReused
  BY DEF ExclusiveConn, RefusedNotReused
<1>. QED
  BY <1>1, <1>3, <1>4 DEF PoolInv

(* The steps of a session, sorted by what they do to the pool.             *)
LEMMA StepKinds ==
  ASSUME NEW s \in Clients,
         TaskStep(s) \/ AnswerStep(s) \/ LeaveStep(s) \/ ClientStep(s)
  PROVE  \/ WorkAction(s)
         \/ EndAction(s)
         \/ (\E u \in Users, d \in Caps : OnConn(s, u, d))
            \/ ConnectToBackend(s) \/ NoBackend(s)
         \/ AcquirePermit(s) \/ TakeIdle(s) \/ DiscardIdle(s) \/ NoneIdle(s)
         \/ (\E c \in Conns : Create(s, c)) \/ CreatePanics(s)
BY DEF TaskStep, LeaveStep, ClientStep, WorkAction, EndAction

LEMMA PoolStep == PoolInv /\ [Next]_vars => PoolInv'
<1>. SUFFICES ASSUME PoolInv, [Next]_vars PROVE PoolInv'
  BY ZenonT(60)
<1>1. CASE UNCHANGED vars
  BY <1>1 DEF vars, PoolInv, TypeOK, ExclusiveConn, PermitAccounting,
     SizeBounded, RefusedNotReused, Permitted, Holders, Creating
<1>2. ASSUME NEW c \in Conns, BackendCloses(c) PROVE PoolInv'
  BY <1>2, BackendClosesPreserves
<1>3. ASSUME NEW s \in Clients,
             TaskStep(s) \/ AnswerStep(s) \/ LeaveStep(s) \/ ClientStep(s)
      PROVE  PoolInv'
  BY <1>3, StepKinds, WorkActionWorks, WorksPreserves, EndActionEnds,
     EndsPreserves, OutsidePreserves, AcquirePermitPreserves,
     TakeIdlePreserves, DiscardIdlePreserves, NoneIdlePreserves,
     CreatePreserves, CreatePanicsPreserves, ZenonT(60)
<1>. QED
  BY <1>1, <1>2, <1>3 DEF Next

(* The pool's bookkeeping is right in every reachable state.               *)
THEOREM PoolInvariant == Spec => []PoolInv
<1>1. Init => PoolInv
  BY PoolInit
<1>2. PoolInv /\ [Next]_vars => PoolInv'
  BY PoolStep
<1>. QED
  BY <1>1, <1>2, PTL DEF Spec
(* The type invariant.                                                     *)
THEOREM TypeCorrect == Spec => []TypeOK
<1>1. PoolInv => TypeOK
  BY DEF PoolInv
<1>. QED
  BY <1>1, PoolInvariant, PTL

(* No two sessions ever share a backend connection, and none is both in    *)
(* use and in the idle queue.                                              *)
THEOREM ConnsAreExclusive == Spec => []ExclusiveConn
<1>1. PoolInv => ExclusiveConn
  BY DEF PoolInv
<1>. QED
  BY <1>1, PoolInvariant, PTL

(* No way for a task to end leaks or duplicates a permit of the pool.      *)
THEOREM PermitsAddUp == Spec => []PermitAccounting
<1>1. PoolInv => PermitAccounting
  BY DEF PoolInv
<1>. QED
  BY <1>1, PoolInvariant, PTL

(* The pool never has more than max_size connections, open or being        *)
(* opened.                                                                 *)
THEOREM PoolSizeBounded == Spec => []SizeBounded
<1>1. PoolInv => SizeBounded
  BY DEF PoolInv
<1>. QED
  BY <1>1, PoolInvariant, PTL

(* The two together.                                                       *)
THEOREM PoolAddsUp == Spec => []PoolAccounting
<1>1. PoolInv => PoolAccounting
  BY DEF PoolInv, PoolAccounting
<1>. QED
  BY <1>1, PoolInvariant, PTL

(* A connection whose authentication failed is never given out again.      *)
THEOREM RefusedDiscarded == Spec => []RefusedNotReused
<1>1. PoolInv => RefusedNotReused
  BY DEF PoolInv
<1>. QED
  BY <1>1, PoolInvariant, PTL

----------------------------------------------------------------------------
(* Isolation of sessions that share connections over time.                 *)

(* The server was asked to authenticate u and nothing has run since.       *)
AskedFor(b, u) ==
  /\ b.state \in {"switching", "infile", "closed"}
  /\ b.state = "switching" => b.pend = u /\ b.dirty = None

(* If the server runs a command now, it does so as u, in a session state   *)
(* only s has touched.                                                     *)
ServesFor(b, s, u) ==
  /\ b.state # "greeted"
  /\ b.state = "ready" => b.user = u /\ b.dirty \in {None, s}
  /\ b.state = "switching" => b.pend = u /\ b.dirty = None

SessionAuth(s) ==
  /\ pc[s] \in {"switch", "answer"} => AskedFor(be[held[s]], user[s])
  /\ pc[s] \in {"verdict"} \cup ComSteps => ServesFor(be[held[s]], s, user[s])

(* The inductive invariant: IsolatedSession alone does not say what the    *)
(* server is doing while an authentication is under way.                   *)
AuthInv == \A s \in Clients : SessionAuth(s)

LEMMA RequestAuthAsks ==
  ASSUME NEW b \in BackendConn, NEW s \in Clients, NEW u, NEW d
  PROVE  AskedFor(RequestAuth(b, s, u, d), u)
<1>1. CASE b.state \in {"greeted", "ready"}
  <2>1. RequestAuth(b, s, u, d) =
          [b EXCEPT !.state = "switching", !.user = None, !.pend = u,
                    !.dirty = None, !.inbox = Send(b, "switch", s),
                    !.deof = IF b.state = "greeted" THEN d ELSE @]
    BY <1>1 DEF RequestAuth
  <2>. QED
    BY <2>1 DEF AskedFor, BackendConn
<1>2. CASE b.state = "switching"
  BY <1>2, ZenonT(60) DEF RequestAuth, Reject, AskedFor, BackendConn
<1>3. CASE b.state \in {"infile", "closed"}
  BY <1>3 DEF RequestAuth, AskedFor
<1>. QED
  BY <1>1, <1>2, <1>3 DEF BackendConn, BStates

LEMMA AskedServes ==
  ASSUME NEW b, NEW s, NEW u, AskedFor(b, u)
  PROVE  ServesFor(b, s, u)
BY DEF AskedFor, ServesFor

LEMMA AnswerServes ==
  ASSUME NEW b \in BackendConn, NEW s \in Clients, NEW u, NEW good \in BOOLEAN,
         ServesFor(b, s, u)
  PROVE  ServesFor(AnswerAuth(b, s, good), s, u)
<1>1. CASE b.state = "switching" /\ good
  BY <1>1, Zenon DEF AnswerAuth, ServesFor, BackendConn
<1>2. CASE b.state = "switching" /\ ~good
  BY <1>2, ZenonT(60) DEF AnswerAuth, Reject, ServesFor, BackendConn
<1>3. CASE b.state = "ready"
  BY <1>3 DEF AnswerAuth, ServesFor, BackendConn
<1>4. CASE b.state \notin {"ready", "switching"}
  BY <1>4 DEF AnswerAuth, ServesFor
<1>. QED
  BY <1>1, <1>2, <1>3, <1>4

LEMMA ExecuteServes ==
  ASSUME NEW b \in BackendConn, NEW s \in Clients, NEW u, NEW kinds,
         ServesFor(b, s, u)
  PROVE  ServesFor(Execute(b, s, kinds), s, u)
<1>1. CASE b.state = "ready"
  <2>1. /\ Execute(b, s, kinds).state \in {"ready", "infile"}
        /\ Execute(b, s, kinds).user = b.user
        /\ Execute(b, s, kinds).dirty = s
    BY <1>1, Zenon DEF Execute, BackendConn
  <2>. QED
    BY <1>1, <2>1 DEF ServesFor
<1>2. CASE b.state = "switching"
  BY <1>2, Zenon DEF Execute, Reject, ServesFor, BackendConn
<1>3. CASE b.state \notin {"ready", "switching"}
  BY <1>3 DEF Execute, ServesFor
<1>. QED
  BY <1>1, <1>2, <1>3

LEMMA ResetServes ==
  ASSUME NEW b \in BackendConn, NEW s \in Clients, NEW u, ServesFor(b, s, u)
  PROVE  ServesFor(ResetSession(b, s), s, u)
<1>1. CASE b.state = "ready"
  BY <1>1, Zenon DEF ResetSession, ServesFor, BackendConn
<1>2. CASE b.state = "switching"
  BY <1>2, ZenonT(60) DEF ResetSession, Reject, ServesFor, BackendConn
<1>3. CASE b.state \notin {"ready", "switching"}
  BY <1>3 DEF ResetSession, ServesFor
<1>. QED
  BY <1>1, <1>2, <1>3

LEMMA ReadKeeps ==
  ASSUME NEW b \in BackendConn, NEW s, NEW u
  PROVE  /\ AskedFor(b, u) => AskedFor(Read(b), u)
         /\ ServesFor(b, s, u) => ServesFor(Read(b), s, u)
BY DEF Read, AskedFor, ServesFor, BackendConn

LEMMA CloseKeeps ==
  ASSUME NEW b \in BackendConn, NEW s, NEW u
  PROVE  AskedFor(Close(b), u) /\ ServesFor(Close(b), s, u)
BY DEF Close, AskedFor, ServesFor, BackendConn
(* A session whose own part of the state does not change stays as it was.  *)
LEMMA SessionFrame ==
  ASSUME PoolInv, NEW t \in Clients, SessionAuth(t),
         pc'[t] = pc[t], held'[t] = held[t], user'[t] = user[t],
         held[t] # None => be'[held[t]] = be[held[t]]
  PROVE  SessionAuth(t)'
<1>1. pc[t] \in {"switch", "answer", "verdict"} \cup ComSteps => held[t] # None
  BY DEF PoolInv, PermitAccounting, HasConn, AuthSteps
<1>. QED
  BY <1>1 DEF SessionAuth

(* A step of session s that changes only the server end of its own         *)
(* connection leaves the other sessions as they were.                      *)
LEMMA OthersFrame ==
  ASSUME PoolInv, AuthInv, NEW s \in Clients, NEW step, Goto(s, step),
         \A t \in Clients : t # s => held'[t] = held[t] /\ user'[t] = user[t],
         \A c \in Conns : c # held[s] => be'[c] = be[c]
  PROVE  \A t \in Clients : t # s => SessionAuth(t)'
<1>. SUFFICES ASSUME NEW t \in Clients, t # s PROVE SessionAuth(t)'
  OBVIOUS
<1>1. pc'[t] = pc[t]
  BY DEF Goto, PoolInv, TypeOK
<1>2. held[t] # None => be'[held[t]] = be[held[t]]
  <2>1. held[t] # None => held[t] \in Conns
    BY ZenonT(60) DEF PoolInv, TypeOK
  <2>2. held[t] # None => held[t] # held[s]
    BY ZenonT(60) DEF PoolInv, ExclusiveConn
  <2>. QED
    BY <2>1, <2>2, ZenonT(60)
<1>3. SessionAuth(t)
  BY ZenonT(60) DEF AuthInv
<1>. QED
  BY <1>1, <1>2, <1>3, SessionFrame, ZenonT(60)

(* The steps that keep the connection.                                     *)
LEMMA SendKeeps ==
  ASSUME PoolInv, AuthInv, NEW s \in Clients, NEW b, NEW step,
         pc[s] \in HasConn, Goto(s, step),
         be' = [be EXCEPT ![held[s]] = b],
         UNCHANGED held,
         \A t \in Clients : t # s => user'[t] = user[t],
         step \in {"switch", "answer"} => AskedFor(b, user'[s]),
         step \in {"verdict"} \cup ComSteps => ServesFor(b, s, user'[s])
  PROVE  AuthInv'
<1>1. \A t \in Clients : t # s => SessionAuth(t)'
  <2>1. \A c \in Conns : c # held[s] => be'[c] = be[c]
    BY DEF PoolInv, TypeOK
  <2>. QED
    BY <2>1, OthersFrame
<1>2. be'[held'[s]] = b
  BY HeldType DEF PoolInv, TypeOK
<1>3. pc'[s] = step
  BY ZenonT(60) DEF Goto, PoolInv, TypeOK
<1>4. SessionAuth(s)'
  BY <1>2, <1>3, ZenonT(60) DEF SessionAuth
<1>. QED
  BY <1>1, <1>4, ZenonT(60) DEF AuthInv

LEMMA WorkKeepsAuth ==
  ASSUME PoolInv, AuthInv, NEW s \in Clients, WorkAction(s)
  PROVE  AuthInv'
<1>. DEFINE b == be[held[s]]
<1>0. SessionAuth(s)
  BY DEF AuthInv
<1>1. CASE ContinueAuth(s)
  <2>1. pc[s] \in HasConn
    BY <1>1, ZenonT(60) DEF ContinueAuth, HasConn, AuthSteps
  <2>2. AskedFor(RequestAuth(b, s, user[s], deof[s]), user[s])
    BY <2>1, HeldType, RequestAuthAsks
  <2>. QED
    BY <1>1, <2>1, <2>2, SendKeeps, ZenonT(60) DEF ContinueAuth, ComSteps, FwdSteps
<1>2. CASE AwaitGreeting(s)
  <2>1. \A t \in Clients : t # s => SessionAuth(t)'
    BY <1>2, OthersFrame, Zenon DEF AwaitGreeting
  <2>2. SessionAuth(s)'
    BY <1>2 DEF AwaitGreeting, Goto, PoolInv, TypeOK, SessionAuth, ComSteps,
       FwdSteps
  <2>. QED
    BY <2>1, <2>2 DEF AuthInv
<1>3. CASE ReplyHandshake(s)
  <2>1. pc[s] \in HasConn
    BY <1>3, ZenonT(60) DEF ReplyHandshake, HasConn, AuthSteps
  <2>2. Read(b) \in BackendConn
    BY <1>3, <2>1, HeldType, ReadType, ZenonT(60) DEF ReplyHandshake, HasPacket
  <2>3. AskedFor(RequestAuth(Read(b), s, user[s], deof[s]), user[s])
    BY <2>2, RequestAuthAsks
  <2>. QED
    BY <1>3, <2>1, <2>3, SendKeeps, ZenonT(60) DEF ReplyHandshake, ComSteps, FwdSteps
<1>4. CASE ForwardSwitch(s)
  <2>1. pc[s] = "switch" /\ pc[s] \in HasConn
    BY <1>4, ZenonT(60) DEF ForwardSwitch, HasConn, AuthSteps
  <2>2. AskedFor(Read(b), user[s])
    BY <1>0, <2>1, HeldType, ReadKeeps DEF SessionAuth
  <2>. QED
    BY <1>4, <2>1, <2>2, SendKeeps, ZenonT(30)
    DEF ForwardSwitch, Deliver, ReadPacket, ComSteps, FwdSteps
<1>5. CASE AuthSucceeds(s)
  <2>1. pc[s] = "verdict" /\ pc[s] \in HasConn
    BY <1>5, ZenonT(60) DEF AuthSucceeds, HasConn, AuthSteps
  <2>2. ServesFor(Read(b), s, user[s])
    BY <1>0, <2>1, HeldType, ReadKeeps DEF SessionAuth
  <2>. QED
    BY <1>5, <2>1, <2>2, SendKeeps, ZenonT(60) DEF AuthSucceeds, Deliver, ReadPacket
<1>6. CASE AnswerStep(s)
  <2>1. PICK good \in BOOLEAN :
          ForwardAnswer(s, good) \/ ForwardChangeUserAnswer(s, good)
    BY <1>6, ZenonT(60) DEF AnswerStep
  <2>2. pc[s] \in {"answer", "cuanswer"} /\ pc[s] \in HasConn
    BY <2>1 DEF ForwardAnswer, ForwardChangeUserAnswer, HasConn, AuthSteps,
       ComSteps
  <2>3. ServesFor(b, s, user[s])
    BY <1>0, <2>2, AskedServes, ZenonT(60) DEF SessionAuth, ComSteps
  <2>4. ServesFor(AnswerAuth(b, s, good), s, user[s])
    BY <2>2, <2>3, HeldType, AnswerServes, ZenonT(60)
  <2>5. /\ \E step \in {"verdict", "cuser"} : Goto(s, step)
        /\ be' = [be EXCEPT ![held[s]] = AnswerAuth(b, s, good)]
        /\ UNCHANGED <<held, user>>
    BY <2>1, SMTT(30) DEF ForwardAnswer, ForwardChangeUserAnswer
  <2>. QED
    BY <2>2, <2>4, <2>5, SendKeeps, ZenonT(30)
<1>7. CASE \E kinds, class : \E step \in {"first", "rows", "one", "command"} :
             /\ pc[s] = "command" /\ UNCHANGED user
             /\ SendCommand(s, class, Execute(b, s, kinds), step)
  <2>1. PICK kinds, class : \E step \in {"first", "rows", "one", "command"} :
             /\ pc[s] = "command" /\ UNCHANGED user
             /\ SendCommand(s, class, Execute(b, s, kinds), step)
    BY <1>7, ZenonT(60)
  <2>2. PICK step \in {"first", "rows", "one", "command"} :
             /\ pc[s] = "command" /\ UNCHANGED user
             /\ SendCommand(s, class, Execute(b, s, kinds), step)
    BY <2>1, ZenonT(60)
  <2>3. pc[s] \in HasConn /\ ServesFor(b, s, user[s])
    BY <1>0, <2>2, ZenonT(60) DEF HasConn, ComSteps, SessionAuth
  <2>4. ServesFor(Execute(b, s, kinds), s, user[s])
    BY <2>3, HeldType, ExecuteServes, ZenonT(60)
  <2>5. step \notin {"switch", "answer"}
    BY <2>2, SMTT(30)
  <2>. QED
    BY <2>2, <2>3, <2>4, <2>5, SendKeeps, ZenonT(60) DEF SendCommand
<1>8. CASE \E u \in Users : ChangeUser(s, u)
  <2>1. PICK u \in Users : ChangeUser(s, u)
    BY <1>8, ZenonT(60)
  <2>2. pc[s] \in HasConn
    BY <2>1, ZenonT(60) DEF ChangeUser, HasConn, ComSteps
  <2>3. ServesFor(RequestAuth(b, s, u, deof[s]), s, u)
    BY <2>2, HeldType, RequestAuthAsks, AskedServes
  <2>4. user'[s] = u /\ \A t \in Clients : t # s => user'[t] = user[t]
    BY <2>1, ZenonT(60) DEF ChangeUser, PoolInv, TypeOK
  <2>. QED
    BY <2>1, <2>2, <2>3, <2>4, SendKeeps, Zenon DEF ChangeUser, SendCommand
<1>9. CASE Quit(s)
  <2>1. pc[s] \in HasConn /\ ServesFor(b, s, user[s])
    BY <1>0, <1>9, ZenonT(60) DEF Quit, HasConn, ComSteps, SessionAuth
  <2>2. ServesFor(ResetSession(b, s), s, user[s])
    BY <2>1, HeldType, ResetServes
  <2>. QED
    BY <1>9, <2>1, <2>2, SendKeeps, ZenonT(60) DEF Quit
<1>10. CASE \/ ForwardFirst(s) \/ ForwardCols(s) \/ ForwardRows(s)
            \/ ForwardOne(s) \/ ForwardChangeUser(s)
  <2>1. /\ pc[s] \in ComSteps
        /\ \E step \in {"command", "cols", "rows", "cuanswer"} : Forward(s, step)
    BY <1>10 DEF ForwardFirst, ForwardCols, ForwardRows, ForwardOne,
       ForwardChangeUser, ComSteps, FwdSteps
  <2>2. PICK step \in {"command", "cols", "rows", "cuanswer"} : Forward(s, step)
    BY <2>1, ZenonT(60)
  <2>3. pc[s] \in HasConn /\ ServesFor(Read(b), s, user[s])
    BY <1>0, <2>1, HeldType, ReadKeeps DEF HasConn, SessionAuth
  <2>. QED
    BY <2>2, <2>3, SendKeeps, Zenon DEF Forward, Deliver, ReadPacket
<1>11. CASE Query(s) \/ LoadLocal(s) \/ Fetch(s) \/ Generic(s)
            \/ SendLongData(s) \/ StmtClose(s)
  BY <1>7, <1>11, ZenonT(30) DEF Query, LoadLocal, Fetch, Generic, SendLongData, StmtClose
<1>. QED
  BY <1>1, <1>2, <1>3, <1>4, <1>5, <1>6, <1>8, <1>9, <1>10, <1>11, ZenonT(60)
  DEF WorkAction
(* A session that ends has nothing left to show.                           *)
LEMMA EndKeepsAuth ==
  ASSUME PoolInv, AuthInv, NEW s \in Clients, EndAction(s)
  PROVE  AuthInv'
<1>1. EndTask(s) /\ ReturnObject(s)
  BY ZenonT(60) DEF EndAction, SwitchAssertPanics, AuthRefused, AuthClientGone,
     AuthBackendGone, InfilePanics, ChangeUserRefused, ForwardReset,
     ClientAborts, ComBackendGone, ClientLeaves, ReplyHandshakeFails,
     ChangeUserAnswerErr, EndSession, AuthFailed
<1>2. \/ ReadPacket(s) \/ UNCHANGED be
      \/ \E good \in BOOLEAN :
           be' = [be EXCEPT ![held[s]] = AnswerAuth(be[held[s]], s, good)]
  BY ZenonT(60) DEF EndAction, SwitchAssertPanics, AuthRefused, AuthClientGone,
     AuthBackendGone, InfilePanics, ChangeUserRefused, ForwardReset,
     ClientAborts, ComBackendGone, ClientLeaves, ReplyHandshakeFails,
     ChangeUserAnswerErr
<1>3. \A c \in Conns : c # held[s] => be'[c] = be[c]
  BY <1>2 DEF ReadPacket, PoolInv, TypeOK
<1>4. \A t \in Clients : t # s => held'[t] = held[t] /\ user'[t] = user[t]
  BY <1>1, ZenonT(60) DEF EndTask, ReturnObject, PoolInv, TypeOK
<1>5. \A t \in Clients : t # s => SessionAuth(t)'
  BY <1>1, <1>3, <1>4, OthersFrame, ZenonT(60) DEF EndTask
<1>6. pc'[s] = "start"
  BY <1>1, ZenonT(60) DEF EndTask, Goto, PoolInv, TypeOK
<1>7. SessionAuth(s)'
  BY <1>6, ZenonT(60) DEF SessionAuth, ComSteps, FwdSteps
<1>. QED
  BY <1>5, <1>7 DEF AuthInv

(* A step before the authentication.                                       *)
LEMMA EarlyKeepsAuth ==
  ASSUME PoolInv, AuthInv, NEW s \in Clients,
         NEW step \in Outside \cup Acquiring \cup {"auth"}, Goto(s, step),
         \A t \in Clients : t # s => held'[t] = held[t] /\ user'[t] = user[t],
         \A t \in Clients : held[t] # None => be'[held[t]] = be[held[t]]
  PROVE  AuthInv'
<1>1. pc'[s] = step /\ \A t \in Clients : t # s => pc'[t] = pc[t]
  BY ZenonT(60) DEF Goto, PoolInv, TypeOK
<1>2. SessionAuth(s)'
  BY <1>1, ZenonT(60) DEF SessionAuth, Outside, Acquiring, ComSteps, FwdSteps
<1>3. ASSUME NEW t \in Clients, t # s PROVE SessionAuth(t)'
  BY <1>1, <1>3, SessionFrame, ZenonT(60) DEF AuthInv
<1>. QED
  BY <1>2, <1>3, ZenonT(60) DEF AuthInv

LEMMA AuthInit == Init => AuthInv
BY ZenonT(60) DEF Init, AuthInv, SessionAuth, ComSteps, FwdSteps

LEMMA AuthStep == PoolInv /\ AuthInv /\ [Next]_vars => AuthInv'
<1>. SUFFICES ASSUME PoolInv, AuthInv, [Next]_vars PROVE AuthInv'
  BY ZenonT(60)
<1>1. CASE UNCHANGED vars
  BY <1>1, ZenonT(60) DEF vars, AuthInv, SessionAuth
<1>2. ASSUME NEW c \in Conns, BackendCloses(c) PROVE AuthInv'
  <2>1. /\ UNCHANGED <<pc, user, held>>
        /\ be' = [be EXCEPT ![c] = Close(be[c])]
        /\ be[c] \in BackendConn
    BY <1>2 DEF BackendCloses, clientVars, PoolInv, TypeOK
  <2>2. ASSUME NEW t \in Clients PROVE SessionAuth(t)'
    <3>1. CASE held[t] = c
      <4>1. be'[held'[t]] = Close(be[c])
        BY <2>1, <3>1, ZenonT(60) DEF PoolInv, TypeOK
      <4>. QED
        BY <2>1, <4>1, CloseKeeps, ZenonT(60) DEF SessionAuth
    <3>2. CASE held[t] # c
      <4>1. held[t] # None => be'[held[t]] = be[held[t]]
        BY <2>1, <3>2, ZenonT(60) DEF PoolInv, TypeOK
      <4>. QED
        BY <2>1, <4>1, SessionFrame, ZenonT(60) DEF AuthInv
    <3>. QED
      BY <3>1, <3>2, ZenonT(60)
  <2>. QED
    BY <2>2 DEF AuthInv
<1>3. ASSUME NEW s \in Clients,
             TaskStep(s) \/ AnswerStep(s) \/ LeaveStep(s) \/ ClientStep(s)
      PROVE  AuthInv'
  <2>1. CASE WorkAction(s)
    BY <2>1, WorkKeepsAuth
  <2>2. CASE EndAction(s)
    BY <2>2, EndKeepsAuth, ZenonT(60)
  <2>3. CASE \/ \E u \in Users, d \in Caps : OnConn(s, u, d)
             \/ ConnectToBackend(s) \/ NoBackend(s)
             \/ AcquirePermit(s) \/ NoneIdle(s) \/ CreatePanics(s)
    <3>1. /\ \E step \in Outside \cup Acquiring \cup {"auth"} : Goto(s, step)
          /\ UNCHANGED <<held, be>>
      BY <2>3, ZenonT(60) DEF OnConn, ConnectToBackend, NoBackend, AcquirePermit, NoneIdle,
         CreatePanics, EndTask, Outside, Acquiring
    <3>2. \A t \in Clients : t # s => user'[t] = user[t]
      BY <2>3, ZenonT(60) DEF OnConn, ConnectToBackend, NoBackend, AcquirePermit, NoneIdle,
         CreatePanics, EndTask, PoolInv, TypeOK
    <3>. QED
      BY <3>1, <3>2, EarlyKeepsAuth, ZenonT(60)
  <2>4. CASE TakeIdle(s)
    <3>1. /\ Goto(s, "auth")
          /\ UNCHANGED <<be, user>>
          /\ \A t \in Clients : t # s => held'[t] = held[t]
      BY <2>4 DEF TakeIdle, PoolInv, TypeOK
    <3>. QED
      BY <3>1, EarlyKeepsAuth, ZenonT(60)
  <2>5. CASE DiscardIdle(s)
    <3>1. /\ UNCHANGED <<pc, user, held>>
          /\ be' = [be EXCEPT ![idle[1]] = NoConn]
          /\ idle[1] \in Conns
      BY <2>5, IdleTail DEF DiscardIdle, clientVars
    <3>2. \A t \in Clients : held[t] # idle[1]
      BY <2>5, IdleTail, ZenonT(60) DEF DiscardIdle, PoolInv, ExclusiveConn
    <3>3. \A t \in Clients : held[t] # None => be'[held[t]] = be[held[t]]
      BY <3>1, <3>2, ZenonT(60) DEF PoolInv, TypeOK
    <3>4. ASSUME NEW t \in Clients PROVE SessionAuth(t)'
      BY <3>1, <3>3, SessionFrame, ZenonT(60) DEF AuthInv
    <3>. QED
      BY <3>4 DEF AuthInv
  <2>6. CASE \E c \in Conns : Create(s, c)
    <3>1. PICK c \in Conns : Create(s, c)
      BY <2>6
    <3>2. \A t \in Clients : held[t] # c
      BY <3>1, ZenonT(60) DEF Create, Live
    <3>3. /\ Goto(s, "auth")
          /\ UNCHANGED user
          /\ \A t \in Clients : t # s => held'[t] = held[t]
          /\ \A t \in Clients : held[t] # None => be'[held[t]] = be[held[t]]
      BY <3>1, <3>2 DEF Create, PoolInv, TypeOK
    <3>. QED
      BY <3>3, EarlyKeepsAuth
  <2>. QED
    BY <1>3, <2>1, <2>2, <2>3, <2>4, <2>5, <2>6, StepKinds, ZenonT(60)
<1>. QED
  BY <1>1, <1>2, <1>3 DEF Next

(* Every command runs as the user its client authenticated as, in a        *)
(* session state no other client has touched, whatever happened on the     *)
(* connection before.                                                      *)
THEOREM SessionsAreIsolated == Spec => []IsolatedSession
<1>1. Init => PoolInv /\ AuthInv
  BY PoolInit, AuthInit
<1>2. PoolInv /\ AuthInv /\ [Next]_vars => (PoolInv /\ AuthInv)'
  BY PoolStep, AuthStep, ZenonT(60)
<1>3. AuthInv => IsolatedSession
  BY ZenonT(60) DEF AuthInv, SessionAuth, ServesFor, IsolatedSession
<1>. QED
  BY <1>1, <1>2, <1>3, PTL DEF Spec
----------------------------------------------------------------------------
(* The pool implements ConnLease.                                          *)

(* A task that is looking for a connection finds fewer than MaxSize out.   *)
LEMMA RoomToLease ==
  ASSUME PoolInv, NEW s \in Clients, pc[s] \in Acquiring
  PROVE  held[s] = None /\ Cardinality(Holders) < MaxSize
<1>1. held[s] = None
  BY DEF PoolInv, PermitAccounting, HasConn, AuthSteps, ComSteps, FwdSteps,
     Acquiring
<1>2. s \notin Holders /\ (Holders \cup {s}) \in SUBSET Permitted
  BY <1>1 DEF PoolInv, PermitAccounting, Holders, Permitted, HasConn, AuthSteps,
     ComSteps, FwdSteps, Acquiring, Outside
<1>3. Cardinality(Holders \cup {s}) <= Cardinality(Permitted)
  BY <1>2, FiniteParts, FS_Subset, ZenonT(60) DEF PoolInv
<1>4. Cardinality(Holders \cup {s}) = Cardinality(Holders) + 1
  BY <1>2, FiniteParts, FS_AddElement, ZenonT(60) DEF PoolInv
<1>5. Cardinality(Holders) + 1 <= Cardinality(Permitted)
  BY <1>3, <1>4
<1>6. Cardinality(Permitted) <= MaxSize
  BY Figures
<1>. QED
  BY <1>1, <1>5, <1>6, Figures, SMTT(60)

LEMMA LeaseStep == PoolInv /\ [Next]_vars => [Pool!Next]_held
<1>. SUFFICES ASSUME PoolInv, [Next]_vars, held' # held PROVE Pool!Next
  OBVIOUS
<1>0. Pool!Cardinality(Pool!Leased) = Cardinality(Holders)
  BY DEF Pool!Leased, Holders, Pool!Cardinality, Cardinality
<1>1. PICK s \in Clients :
        TaskStep(s) \/ AnswerStep(s) \/ LeaveStep(s) \/ ClientStep(s)
  BY DEF Next, vars, BackendCloses, clientVars
<1>2. CASE EndAction(s)
  <2>1. Ends(s)
    BY <1>2, EndActionEnds, ZenonT(60)
  <2>2. held[s] # None /\ held' = [held EXCEPT ![s] = None]
    BY <2>1 DEF Ends, ReturnObject, PoolInv, PermitAccounting
  <2>. QED
    BY <2>2, Zenon DEF Pool!Next, Pool!Return
<1>3. CASE TakeIdle(s)
  <2>1. /\ idle[1] \in Conns
        /\ held' = [held EXCEPT ![s] = idle[1]]
        /\ \A t \in Clients : held[t] # idle[1]
    BY <1>3, IdleTail, ZenonT(60) DEF TakeIdle, PoolInv, ExclusiveConn
  <2>2. held[s] = None /\ Cardinality(Holders) < MaxSize
    BY <1>3, RoomToLease DEF TakeIdle, Acquiring
  <2>3. Pool!Lease(s, idle[1])
    BY <1>0, <2>1, <2>2 DEF Pool!Lease
  <2>. QED
    BY <2>1, <2>3, ZenonT(60) DEF Pool!Next
<1>4. CASE \E c \in Conns : Create(s, c)
  <2>1. PICK c \in Conns : Create(s, c)
    BY <1>4
  <2>2. /\ held' = [held EXCEPT ![s] = c]
        /\ \A t \in Clients : held[t] # c
    BY <2>1 DEF Create, Live
  <2>3. held[s] = None /\ Cardinality(Holders) < MaxSize
    BY <2>1, RoomToLease DEF Create, Acquiring
  <2>4. Pool!Lease(s, c)
    BY <1>0, <2>2, <2>3 DEF Pool!Lease
  <2>. QED
    BY <2>4 DEF Pool!Next
<1>5. CASE WorkAction(s)
  BY <1>5, WorkActionWorks, ZenonT(60) DEF Works
<1>6. CASE \/ \E u \in Users, d \in Caps : OnConn(s, u, d)
           \/ ConnectToBackend(s) \/ NoBackend(s)
           \/ AcquirePermit(s) \/ DiscardIdle(s) \/ NoneIdle(s)
           \/ CreatePanics(s)
  BY <1>6 DEF OnConn, ConnectToBackend, NoBackend, AcquirePermit, DiscardIdle,
     NoneIdle, CreatePanics, clientVars
<1>. QED
  BY <1>1, <1>2, <1>3, <1>4, <1>5, <1>6, StepKinds, ZenonT(60)

(* Seen by the sessions, the pool with its semaphore, idle queue, recycling *)
(* and creation is the abstract lease service: at most MaxSize connections  *)
(* out, each with one session.                                              *)
THEOREM PoolImplementsLease == Spec => LeaseSpec
<1>1. Init => Pool!Init
  BY DEF Init, Pool!Init
<1>2. PoolInv /\ [Next]_vars => [Pool!Next]_held
  BY LeaseStep
<1>. QED
  BY <1>1, <1>2, PoolInvariant, PTL DEF Spec, LeaseSpec, Pool!Spec
================================================================================
