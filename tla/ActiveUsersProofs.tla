-------------------------- MODULE ActiveUsersProofs --------------------------
(***************************************************************************)
(* Proofs about the window of active users and its report service, for any *)
(* number of users, calls, events and batches: types, and, as long as      *)
(* freezes do not overlap, that no event is reported twice and none is     *)
(* lost unless its put straddles a switch; and that replies are complete.  *)
(***************************************************************************)
EXTENDS ActiveUsersReport, TLAPS

(* The index is 0 or 1, and Other changes it.                              *)
LEMMA OtherIndex ==
  ASSUME NEW i \in 0..1
  PROVE  Other(i) \in 0..1 /\ Other(i) # i /\ Other(Other(i)) = i
<1>1. i = 0 \/ i = 1
  OBVIOUS
<1>2. Other(0) = 1 /\ Other(1) = 0
  BY DEF Other
<1> QED
  BY <1>1, <1>2

----------------------------------------------------------------------------
(* Types.                                                                  *)

LEMMA TypeInit == Init => TypeOK
<1> SUFFICES ASSUME Init
             PROVE  TypeOK
  OBVIOUS
<1> USE DEF Init, WindowInit
<1>1. buf \in Seq(Users) /\ putter \in Putters /\ active \in 0..1
      /\ count \in Nat /\ size \in Nat
  BY DEF Putters
<1>2. table \in [0..1 -> [Users -> Nat]]
  BY DEF Empty
<1>3. rd \in [Streams -> Readers]
  BY DEF Readers, ReaderSteps
<1>4. chan \in [Streams -> Seq(Batches)] /\ \A s \in Streams : Len(chan[s]) <= Capacity
  BY ReportAssumption
<1>5. got \in [Streams -> [count : Nat, sum : Nat]]
  OBVIOUS
<1> QED
  BY <1>1, <1>2, <1>3, <1>4, <1>5 DEF TypeOK, WindowTypeOK

(* A step of a stream that changes only its own record.                    *)
LEMMA ReaderType ==
  ASSUME TypeOK, NEW s \in Streams, NEW r \in Readers, rd' = [rd EXCEPT ![s] = r]
  PROVE  rd' \in [Streams -> Readers]
  BY DEF TypeOK, WindowTypeOK

LEMMA ReaderAt ==
  ASSUME NEW r \in Readers, NEW a \in ReaderSteps, NEW i \in 0..1
  PROVE  [r EXCEPT !.at = a, !.idx = i] \in Readers
  BY Zenon DEF Readers

LEMMA FreezeType == ASSUME TypeOK, NEW s \in Streams, FreezeLoad(s) \/ Freezing(s)
                    PROVE  WindowTypeOK'
<1> USE DEF TypeOK, WindowTypeOK
<1>0. rd[s] \in Readers /\ \A i \in 0..1 : Other(i) \in 0..1
  BY OtherIndex
<1>1. CASE FreezeLoad(s)
  <2>1. [rd[s] EXCEPT !.at = "cas", !.idx = active] \in Readers
    BY <1>0, ZenonT(60) DEF Readers, ReaderSteps
  <2>2. rd' = [rd EXCEPT ![s] = [rd[s] EXCEPT !.at = "cas", !.idx = active]]
    BY <1>1, Zenon DEF FreezeLoad
  <2>3. rd' \in [Streams -> Readers]
    BY <2>1, <2>2, ReaderType
  <2>4. met' \in Nat
    BY <1>1, SMTT(60) DEF FreezeLoad
  <2> QED
    BY <1>1, <2>3, <2>4, Zenon DEF FreezeLoad, tableVars
<1>2. CASE Switched(s)
  <2>1. [rd[s] EXCEPT !.at = "iterate", !.todo = Users] \in Readers
    BY <1>0, Zenon DEF Readers, ReaderSteps
  <2>2. rd' = [rd EXCEPT ![s] = [rd[s] EXCEPT !.at = "iterate", !.todo = Users]]
    BY <1>2, Zenon DEF Switched
  <2>3. active' \in 0..1
    BY <1>0, <1>2 DEF Switched
  <2>4. rd' \in [Streams -> Readers]
    BY <2>1, <2>2, ReaderType
  <2> QED
    BY <1>2, <2>3, <2>4 DEF Switched, history
<1>3. CASE NotSwitched(s)
  <2>0. "frozen" \in ReaderSteps /\ 0 \in 0..1
    BY DEF ReaderSteps
  <2>1. [rd[s] EXCEPT !.at = "frozen", !.idx = 0] \in Readers
    BY <1>0, <2>0, ReaderAt, Zenon
  <2>2. rd' = [rd EXCEPT ![s] = [rd[s] EXCEPT !.at = "frozen", !.idx = 0]]
    BY <1>3, Zenon DEF NotSwitched
  <2> QED
    BY <1>3, <2>1, <2>2, ReaderType, ZenonT(60) DEF NotSwitched, tableVars, history
<1>4. ASSUME NEW u \in Users, Iterate(s, u)
      PROVE  WindowTypeOK'
  <2> DEFINE e == table[rd[s].idx][u]
             d == IF e # 0 THEN Append(rd[s].data, e) ELSE rd[s].data
  <2>1. rd[s].idx \in 0..1 /\ rd[s].data \in Seq(Nat) /\ rd[s].todo \in SUBSET Users
    BY <1>0 DEF Readers
  <2>2. e \in Nat
    BY <2>1
  <2>3. d \in Seq(Nat)
    BY <2>1, <2>2
  <2>4. [rd[s] EXCEPT !.todo = @ \ {u}, !.data = d] \in Readers
    BY <1>0, <2>1, <2>3, Zenon DEF Readers
  <2>5. rd' = [rd EXCEPT ![s] = [rd[s] EXCEPT !.todo = @ \ {u}, !.data = d]]
    BY <1>4, Zenon DEF Iterate
  <2>6. rd' \in [Streams -> Readers]
    BY <2>4, <2>5, ReaderType
  <2>7. taken' \subseteq Nat /\ again' \subseteq Nat
    BY <1>4, <2>2 DEF Iterate
  <2> QED
    BY <1>4, <2>6, <2>7, ZenonT(60) DEF Iterate, tableVars
<1>5. CASE Iterated(s)
  <2>1. [rd[s] EXCEPT !.at = "clean"] \in Readers
    BY <1>0, Zenon DEF Readers, ReaderSteps
  <2>2. rd' = [rd EXCEPT ![s] = [rd[s] EXCEPT !.at = "clean"]]
    BY <1>5 DEF Iterated
  <2> QED
    BY <1>5, <2>1, <2>2, ReaderType, Zenon DEF Iterated, tableVars, history
<1>6. CASE CleanLoad(s)
  <2>1. [rd[s] EXCEPT !.at = "clear", !.idx = Other(active)] \in Readers
    BY <1>0, Zenon DEF Readers, ReaderSteps
  <2>2. rd' = [rd EXCEPT ![s] = [rd[s] EXCEPT !.at = "clear", !.idx = Other(active)]]
    BY <1>6, Zenon DEF CleanLoad
  <2> QED
    BY <1>6, <2>1, <2>2, ReaderType, Zenon DEF CleanLoad, tableVars, history
<1>7. CASE Clear(s)
  <2>0. "frozen" \in ReaderSteps /\ 0 \in 0..1
    BY DEF ReaderSteps
  <2>1. [rd[s] EXCEPT !.at = "frozen", !.idx = 0] \in Readers
    BY <1>0, <2>0, ReaderAt, Zenon
  <2>2. rd' = [rd EXCEPT ![s] = [rd[s] EXCEPT !.at = "frozen", !.idx = 0]]
    BY <1>7, Zenon DEF Clear
  <2>3. table' \in [0..1 -> [Users -> Nat]]
    BY <1>7, Zenon DEF Clear, Empty
  <2>4. rd' \in [Streams -> Readers]
    BY <2>1, <2>2, ReaderType
  <2> QED
    BY <1>7, <2>3, <2>4 DEF Clear, history
<1> QED
  BY <1>1, <1>2, <1>3, <1>4, <1>5, <1>6, <1>7, Zenon DEF Freezing

LEMMA PutType == ASSUME TypeOK, Putting \/ \E u \in Users : AddActiveUser(u)
                 PROVE  WindowTypeOK'
<1> USE DEF TypeOK, WindowTypeOK
<1>1. ASSUME NEW u \in Users, AddActiveUser(u)
      PROVE  WindowTypeOK'
  <2>1. buf' \in Seq(Users)
    BY <1>1 DEF AddActiveUser
  <2> QED
    BY <1>1, <2>1 DEF AddActiveUser, history
<1>2. CASE PutLoad
  <2>1. buf' \in Seq(Users) /\ Head(buf) \in Users
    BY <1>2 DEF PutLoad
  <2>2. putter' \in Putters
    BY <1>2, <2>1 DEF PutLoad, Putters
  <2> QED
    BY <1>2, <2>1, <2>2 DEF PutLoad, history
<1>3. CASE PutInsert
  <2>1. putter.idx \in 0..1 /\ putter.user \in Users
    BY <1>3 DEF PutInsert, Putters
  <2>2. table' \in [0..1 -> [Users -> Nat]] /\ table[putter.idx][putter.user] \in Nat
    BY <1>3, <2>1 DEF PutInsert
  <2>3. replaced' \subseteq Nat /\ raced' \subseteq Nat
    <3>1. {table[putter.idx][putter.user]} \ {0} \subseteq Nat
      BY <2>2
    <3>2. replaced' = replaced \cup ({table[putter.idx][putter.user]} \ {0})
      BY <1>3 DEF PutInsert
    <3>3. raced' = raced \/ raced' = raced \cup {count + 1}
      BY <1>3 DEF PutInsert
    <3>4. count + 1 \in Nat
      OBVIOUS
    <3> HIDE DEF TypeOK
    <3>5. replaced \subseteq Nat /\ raced \subseteq Nat
      BY DEF TypeOK
    <3> QED
      BY <3>1, <3>2, <3>3, <3>4, <3>5, Zenon
  <2>4. putter' \in Putters
    BY <1>3 DEF PutInsert, Putters
  <2> QED
    BY <1>3, <2>2, <2>3, <2>4 DEF PutInsert
<1>4. CASE PutCount
  <2>1. putter' \in Putters
    BY <1>4 DEF PutCount, Putters
  <2> QED
    BY <1>4, <2>1 DEF PutCount, history
<1> QED
  BY <1>1, <1>2, <1>3, <1>4, ZenonT(60) DEF Putting

LEMMA ReplyType == ASSUME TypeOK, NEW s \in Streams,
                          ReplyStep(s) \/ RequestsEnd(s) \/ Receive(s) \/ Drop(s)
                   PROVE  TypeOK'
<1> USE DEF TypeOK, WindowTypeOK
<1>0. rd[s] \in Readers /\ rd[s].data \in Seq(Nat) /\ chan[s] \in Seq(Batches)
  BY DEF Readers
<1>1. \A a \in ReaderSteps : [rd[s] EXCEPT !.at = a] \in Readers
  BY <1>0, Zenon DEF Readers
<1>2. CASE SendNone(s)
  <2>1. rd' \in [Streams -> Readers]
    BY <1>1, <1>2, ReaderType DEF SendNone, ReaderSteps
  <2>2. [count |-> 0, users |-> <<>>] \in Batches
    BY DEF Batches
  <2>3. chan' \in [Streams -> Seq(Batches)] /\ Len(chan'[s]) = Len(chan[s]) + 1
    BY <1>0, <1>2, <2>2 DEF SendNone
  <2>4. \A t \in Streams : Len(chan'[t]) <= Capacity
    BY <1>0, <1>2, <2>3, ReportAssumption DEF SendNone, HasRoom
  <2> QED
    BY <1>2, <2>1, <2>3, <2>4, ZenonT(60) DEF SendNone, tableVars, history
<1>3. CASE SendNoneFails(s) \/ RequestsEnd(s)
  <2>1. rd' \in [Streams -> Readers]
    BY <1>1, <1>3, ReaderType, ZenonT(60) DEF SendNoneFails, RequestsEnd, ReaderSteps
  <2> QED
    BY <1>3, <2>1 DEF SendNoneFails, RequestsEnd, tableVars, history
<1>4. CASE SendBatch(s)
  <2>1. Chunk(rd[s].data) \in Seq(Nat) /\ Rest(rd[s].data) \in Seq(Nat)
    <3> DEFINE d == rd[s].data
    <3>1. ChunkSize \in Nat /\ ChunkSize > 0 /\ Len(d) \in Nat /\ d \in Seq(Nat)
      BY <1>0, ReportAssumption
    <3>2. CASE Len(d) <= ChunkSize
      BY <1>0, <3>2 DEF Chunk, Rest
    <3>3. CASE Len(d) > ChunkSize
      <4> HIDE DEF d
      <4>1. \A i \in 1..ChunkSize : i \in 1..Len(d)
        BY <3>1, <3>3
      <4>2. \A i \in (ChunkSize + 1)..Len(d) : i \in 1..Len(d)
        BY <3>1, <3>3
      <4>3. \A i \in 1..Len(d) : d[i] \in Nat
        BY <3>1
      <4>4. SubSeq(d, 1, ChunkSize) \in Seq(Nat)
        BY <3>1, <4>1, <4>3
      <4>5. SubSeq(d, ChunkSize + 1, Len(d)) \in Seq(Nat)
        BY <3>1, <4>2, <4>3
      <4>6. ~(Len(d) <= ChunkSize)
        BY <3>1, <3>3
      <4> QED
        BY <4>4, <4>5, <4>6, Zenon DEF Chunk, Rest, d
    <3> QED
      BY <3>1, <3>2, <3>3
  <2>2. PackageCount(s) \in Nat
    BY <1>0 DEF PackageCount
  <2>3. \A a \in ReaderSteps : [rd[s] EXCEPT !.data = Rest(@), !.at = a] \in Readers
    BY <1>0, <2>1, Zenon DEF Readers
  <2>4. rd' \in [Streams -> Readers]
    BY <1>4, <2>3, ReaderType, ZenonT(60) DEF SendBatch, ReaderSteps
  <2>5. [count |-> PackageCount(s), users |-> Chunk(rd[s].data)] \in Batches
    BY <2>1, <2>2 DEF Batches
  <2>6. chan' \in [Streams -> Seq(Batches)] /\ Len(chan'[s]) = Len(chan[s]) + 1
    BY <1>0, <1>4, <2>5 DEF SendBatch
  <2>7. \A t \in Streams : Len(chan'[t]) <= Capacity
    BY <1>0, <1>4, <2>6, ReportAssumption DEF SendBatch, HasRoom
  <2>8. total' \in [Streams -> Nat]
    BY <1>4, <2>2 DEF SendBatch
  <2> QED
    BY <1>4, <2>4, <2>6, <2>7, <2>8 DEF SendBatch, tableVars, history
<1>5. CASE SendBatchFails(s)
  <2>0. "out" \in ReaderSteps /\ <<>> \in Seq(Nat)
    BY DEF ReaderSteps
  <2>1. [rd[s] EXCEPT !.at = "out", !.data = <<>>] \in Readers
    BY <1>0, <2>0, Zenon DEF Readers
  <2>2. rd' = [rd EXCEPT ![s] = [rd[s] EXCEPT !.at = "out", !.data = <<>>]]
    BY <1>5, Zenon DEF SendBatchFails
  <2>3. rd' \in [Streams -> Readers]
    BY <2>1, <2>2, ReaderType
  <2> QED
    BY <1>5, <2>3, ZenonT(60) DEF SendBatchFails, tableVars, history
<1>6. CASE Receive(s)
  <2>1. Head(chan[s]) \in Batches
    BY <1>0, <1>6, SMTT(30) DEF Receive
  <2>2. /\ Head(chan[s]).count \in Nat
        /\ Head(chan[s]).users \in Seq(Nat)
        /\ Len(Head(chan[s]).users) \in Nat
    BY <2>1 DEF Batches
  <2>3. chan' \in [Streams -> Seq(Batches)] /\ Len(chan'[s]) <= Len(chan[s])
    <3>1. /\ chan' = [chan EXCEPT ![s] = Tail(chan[s])]
          /\ chan \in [Streams -> Seq(Batches)] /\ chan[s] # <<>>
      BY <1>0, <1>6 DEF Receive
    <3>2. Tail(chan[s]) \in Seq(Batches) /\ Len(Tail(chan[s])) <= Len(chan[s])
      BY <3>1
    <3> QED
      BY <3>1, <3>2
  <2>4. \A t \in Streams : Len(chan'[t]) <= Capacity
    <3> TAKE t \in Streams
    <3>1. Len(chan[t]) <= Capacity /\ Len(chan[t]) \in Nat /\ Len(chan'[t]) \in Nat
          /\ Capacity \in Nat
      BY <1>0, <2>3, ReportAssumption
    <3>2. t # s => chan'[t] = chan[t]
      BY <1>0, <1>6 DEF Receive
    <3> HIDE DEF TypeOK
    <3> QED
      BY <2>3, <3>1, <3>2
  <2>5. got' \in [Streams -> [count : Nat, sum : Nat]]
    <3> DEFINE n == Len(Head(chan[s]).users)
               sum == got[s].sum + n
               g == IF sum = Head(chan[s]).count
                      THEN [count |-> 0, sum |-> 0]
                      ELSE [count |-> Head(chan[s]).count, sum |-> sum]
    <3>1. got' = [got EXCEPT ![s] = g]
      BY <1>6 DEF Receive
    <3>2. got \in [Streams -> [count : Nat, sum : Nat]]
      OBVIOUS
    <3>3. g \in [count : Nat, sum : Nat]
      <4>1. n \in Nat /\ Head(chan[s]).count \in Nat
        BY <2>2
      <4>2. got[s].sum \in Nat
        BY <3>2
      <4> HIDE DEF n, TypeOK
      <4> QED
        BY <4>1, <4>2
    <3> HIDE DEF g, TypeOK
    <3> QED
      BY <3>1, <3>2, <3>3
  <2>6. delivered' \subseteq Nat
    <3> DEFINE us == Head(chan[s]).users
    <3>1. \A i \in 1..Len(us) : us[i] \in Nat
      <4>1. us \in Seq(Nat)
        BY <2>2
      <4> HIDE DEF us
      <4> QED
        BY <4>1
    <3>2. delivered' = delivered \cup {us[i] : i \in 1..Len(us)}
      BY <1>6 DEF Receive
    <3>3. {us[i] : i \in 1..Len(us)} \subseteq Nat
      BY <3>1, Zenon
    <3>4. delivered \subseteq Nat
      OBVIOUS
    <3> HIDE DEF us, TypeOK
    <3> QED
      BY <3>2, <3>3, <3>4, Zenon
  <2> QED
    BY <1>6, <2>3, <2>4, <2>5, <2>6, Zenon DEF Receive, tableVars, history
<1>7. CASE Drop(s)
  <2>1. chan' \in [Streams -> Seq(Batches)] /\ Len(<<>>) <= Capacity
    BY <1>7, ReportAssumption DEF Drop
  <2>2. \A t \in Streams : Len(chan'[t]) <= Capacity
    BY <1>7, <2>1 DEF Drop
  <2> QED
    BY <1>7, <2>1, <2>2, ZenonT(60) DEF Drop, tableVars, history
<1> QED
  BY <1>2, <1>3, <1>4, <1>5, <1>6, <1>7, Zenon DEF ReplyStep

LEMMA TypeStep == TypeOK /\ [Next]_vars => TypeOK'
<1> SUFFICES ASSUME TypeOK, [Next]_vars
             PROVE  TypeOK'
  OBVIOUS
<1>1. CASE AddStep \/ PutStep
  BY <1>1, PutType, Zenon DEF AddStep, PutStep, TypeOK
<1>2. ASSUME NEW s \in Streams, OnRequest(s) \/ FreezeStep(s)
      PROVE  TypeOK'
  BY <1>2, FreezeType, ZenonT(60) DEF OnRequest, FreezeStep, TypeOK
<1>3. CASE UNCHANGED vars
  BY <1>3 DEF vars, TypeOK, WindowTypeOK
<1> QED
  BY <1>1, <1>2, <1>3, ReplyType DEF Next

(* Every variable keeps its type; in particular no channel ever holds more *)
(* than its capacity.                                                      *)
THEOREM TypeCorrect == Spec => []TypeOK
  BY TypeInit, TypeStep, PTL DEF Spec

----------------------------------------------------------------------------
(* One freeze at a time, of however many calls.                            *)

Solo == \A s, t \in Streams : InFreeze(s) /\ InFreeze(t) => s = t

(* While a stream copies or is about to clear a table, that table is not   *)
(* the active one, ...                                                     *)
Holds(s) == rd[s].at \in {"iterate", "clean", "clear"}

IndexInv ==
  \A s \in Streams :
    /\ rd[s].at = "cas" => rd[s].idx = active
    /\ Holds(s) => rd[s].idx = Other(active)
    /\ rd[s].at \in {"clean", "clear"} => rd[s].todo = {}

(* ... every entry is an event of its own, ...                             *)
EntryInv ==
  /\ \A i \in 0..1, u \in Users : table[i][u] # 0 => table[i][u] \in PutEvents
  /\ \A i, j \in 0..1, u, v \in Users :
       table[i][u] = table[j][v] /\ table[i][u] # 0 => i = j /\ u = v

(* ... and an entry has been copied only where a stream has been, and will *)
(* clear it; what it will clear has been copied or has raced it.           *)
CopyInv ==
  /\ taken \subseteq PutEvents
  /\ \A i \in 0..1, u \in Users :
       table[i][u] \in taken =>
         \E s \in Streams : Holds(s) /\ rd[s].idx = i /\ u \notin rd[s].todo
  /\ \A s \in Streams, u \in Users :
       Holds(s) /\ u \notin rd[s].todo /\ table[rd[s].idx][u] # 0 =>
         table[rd[s].idx][u] \in taken \cup raced

WindowInv == IndexInv /\ EntryInv /\ CopyInv /\ NoDoubleReport /\ LostOnlyIfRaced

LEMMA WindowInvInit == Init => WindowInv
<1> SUFFICES ASSUME Init
             PROVE  WindowInv
  OBVIOUS
<1>1. PutEvents = {}
  BY DEF Init, WindowInit, PutEvents
<1>2. \A i \in 0..1, u \in Users : table[i][u] = 0
  BY DEF Init, WindowInit, Empty
<1>3. taken = {} /\ again = {} /\ \A s \in Streams : rd[s].at \in {"out", "gone"}
  BY DEF Init, WindowInit
<1> QED
  BY <1>1, <1>2, <1>3 DEF WindowInv, IndexInv, EntryInv, CopyInv, Holds,
     NoDoubleReport, LostOnlyIfRaced

(* Steps that touch neither a table nor the copies.                        *)
LEMMA FrameStep ==
  ASSUME OneByOne, WindowInv,
         UNCHANGED <<active, table, taken, again, replaced, raced>>,
         PutEvents' = PutEvents,
         \A s \in Streams : rd'[s].at = "cas" => rd'[s].idx = active,
         \A s \in Streams : Holds(s)' <=> Holds(s),
         \A s \in Streams :
           Holds(s) => /\ rd'[s].idx = rd[s].idx
                       /\ rd'[s].todo = rd[s].todo
                       /\ rd'[s].at \in {"clean", "clear"} => rd[s].todo = {}
  PROVE  WindowInv'
<1>1. IndexInv'
  <2>1. \A s \in Streams : rd'[s].at \in {"clean", "clear"} => Holds(s)'
    BY DEF Holds
  <2> QED
    BY <2>1 DEF WindowInv, IndexInv
<1>2. EntryInv'
  BY DEF WindowInv, EntryInv
<1>3. CopyInv'
  BY DEF WindowInv, CopyInv
<1>4. NoDoubleReport' /\ LostOnlyIfRaced'
  BY DEF WindowInv, NoDoubleReport, LostOnlyIfRaced, InTables
<1> QED
  BY <1>1, <1>2, <1>3, <1>4 DEF WindowInv

(* Steps of one stream that leave the tables alone and neither begin nor   *)
(* end its hold of one.                                                    *)
LEMMA ReaderFrame ==
  ASSUME OneByOne, TypeOK, WindowInv, NEW s \in Streams,
         UNCHANGED <<active, table, count, putter, taken, again, replaced, raced>>,
         \A t \in Streams \ {s} : rd'[t] = rd[t],
         rd'[s].at = "cas" => rd'[s].idx = active,
         Holds(s)' <=> Holds(s),
         Holds(s) => /\ rd'[s].idx = rd[s].idx
                     /\ rd'[s].todo = rd[s].todo
                     /\ rd'[s].at \in {"clean", "clear"} => rd[s].todo = {}
  PROVE  WindowInv'
<1>1. PutEvents' = PutEvents
  BY DEF PutEvents
<1>2. \A t \in Streams : rd'[t].at = "cas" => rd'[t].idx = active
  BY DEF WindowInv, IndexInv
<1>3. \A t \in Streams : Holds(t)' <=> Holds(t)
  BY DEF Holds
<1>4. \A t \in Streams :
        Holds(t) => /\ rd'[t].idx = rd[t].idx
                    /\ rd'[t].todo = rd[t].todo
                    /\ rd'[t].at \in {"clean", "clear"} => rd[t].todo = {}
  BY DEF WindowInv, IndexInv, Holds
<1> QED
  BY <1>1, <1>2, <1>3, <1>4, FrameStep

(* An event is put: it is new, and if it goes into a table that a stream   *)
(* holds, it raced the switch.                                             *)
LEMMA InsertStep == ASSUME OneByOne, TypeOK, WindowInv, PutInsert
                    PROVE  WindowInv'
<1> DEFINE i == putter.idx
           u == putter.user
           n == count + 1
<1>1. i \in 0..1 /\ u \in Users /\ n \in Nat \ {0} /\ active \in 0..1
      /\ table \in [0..1 -> [Users -> Nat]]
  BY SMTT(30) DEF TypeOK, WindowTypeOK, Putters, PutInsert
<1>2. PutEvents' = PutEvents \cup {n} /\ n \notin PutEvents /\ n # 0 /\ 0 \notin PutEvents
  BY <1>1 DEF PutInsert, PutEvents, TypeOK, WindowTypeOK
<1>3. /\ table'[i][u] = n
      /\ \A j \in 0..1, v \in Users : (j # i \/ v # u) => table'[j][v] = table[j][v]
  BY <1>1 DEF PutInsert
<1>4. UNCHANGED <<active, rd, taken, again>>
  BY DEF PutInsert
<1>5. /\ raced \subseteq raced' /\ replaced \subseteq replaced'
      /\ table[i][u] # 0 => table[i][u] \in replaced'
      /\ i # active => n \in raced'
  BY DEF PutInsert
<1>6. \A s \in Streams : Holds(s)' <=> Holds(s)
  BY <1>4 DEF Holds
<1> HIDE DEF i, u, n
<1>7. IndexInv'
  BY <1>4, <1>6 DEF WindowInv, IndexInv
<1>8. EntryInv'
  BY <1>1, <1>2, <1>3 DEF WindowInv, EntryInv
<1>9. CopyInv'
  <2>1. taken' \subseteq PutEvents'
    BY <1>2, <1>4 DEF WindowInv, CopyInv
  <2>2. ASSUME NEW j \in 0..1, NEW v \in Users, table'[j][v] \in taken'
        PROVE  \E s \in Streams : Holds(s)' /\ rd'[s].idx = j /\ v \notin rd'[s].todo
    <3>1. n \notin taken
      BY <1>2 DEF WindowInv, CopyInv
    <3>2. table'[j][v] = table[j][v]
      BY <1>3, <1>4, <2>2, <3>1
    <3> QED
      BY <1>4, <1>6, <2>2, <3>2 DEF WindowInv, CopyInv
  <2>3. ASSUME NEW s \in Streams, NEW v \in Users,
               Holds(s)', v \notin rd'[s].todo, table'[rd'[s].idx][v] # 0
        PROVE  table'[rd'[s].idx][v] \in taken' \cup raced'
    <3>1. rd[s].idx = Other(active) /\ rd[s].idx # active /\ rd[s].idx \in 0..1
      BY <1>1, <1>6, <2>3, OtherIndex DEF WindowInv, IndexInv
    <3>2. CASE rd[s].idx = i /\ v = u
      BY <1>3, <1>4, <1>5, <3>1, <3>2
    <3>3. CASE ~(rd[s].idx = i /\ v = u)
      BY <1>3, <1>4, <1>5, <1>6, <2>3, <3>1, <3>3 DEF WindowInv, CopyInv
    <3> QED
      BY <3>2, <3>3
  <2> QED
    BY <2>1, <2>2, <2>3 DEF CopyInv
<1>10. LostOnlyIfRaced'
  <2> SUFFICES ASSUME NEW e \in PutEvents'
               PROVE  e \in taken' \cup replaced' \cup raced' \cup InTables'
    BY DEF LostOnlyIfRaced
  <2>1. CASE e = n
    BY <1>1, <1>3, <2>1 DEF InTables
  <2>2. CASE e \in InTables /\ e # n /\ e # 0
    <3>1. PICK j \in 0..1, v \in Users : e = table[j][v]
      BY <2>2 DEF InTables
    <3>2. CASE j = i /\ v = u
      BY <1>5, <2>2, <3>1, <3>2
    <3>3. CASE j # i \/ v # u
      BY <1>3, <3>1, <3>3 DEF InTables
    <3> QED
      BY <3>2, <3>3
  <2>3. CASE e # n /\ e \notin InTables
    <3>1. e \in PutEvents
      BY <1>2, <2>3
    <3> QED
      BY <1>4, <1>5, <2>3, <3>1 DEF WindowInv, LostOnlyIfRaced
  <2>4. e # 0
    BY <1>2
  <2> QED
    BY <2>1, <2>2, <2>3, <2>4
<1>11. NoDoubleReport'
  BY <1>4 DEF WindowInv, NoDoubleReport
<1> QED
  BY <1>7, <1>8, <1>9, <1>10, <1>11 DEF WindowInv

(* The others are not in freeze, and stay out of it.                       *)
LEMMA OthersOut ==
  ASSUME Solo, NEW s \in Streams, InFreeze(s), \A t \in Streams \ {s} : rd'[t] = rd[t]
  PROVE  \A t \in Streams \ {s} : ~Holds(t) /\ ~Holds(t)' /\ rd'[t].at \notin {"cas", "clean", "clear"}
  BY DEF Solo, InFreeze, Holds

(* A switch: with one freeze at a time nobody holds a table before it.     *)
LEMMA SwitchStep ==
  ASSUME OneByOne, Solo, TypeOK, WindowInv, NEW s \in Streams, Switched(s)
  PROVE  WindowInv'
<1>1. UNCHANGED <<table, taken, again, replaced, raced>> /\ PutEvents' = PutEvents
  BY DEF Switched, history, PutEvents
<1>2. /\ ~Holds(s) /\ Holds(s)'
      /\ \A t \in Streams \ {s} :
           ~Holds(t) /\ ~Holds(t)' /\ rd'[t].at \notin {"cas", "clean", "clear"}
  <2>1. rd'[s].at = "iterate" /\ \A t \in Streams \ {s} : rd'[t] = rd[t]
    BY DEF Switched, TypeOK, WindowTypeOK, Readers
  <2>2. InFreeze(s)
    BY DEF Switched, InFreeze
  <2> QED
    BY <2>1, <2>2, OthersOut, ZenonT(60) DEF Holds, Switched
<1>3. /\ rd'[s].idx = active /\ active \in 0..1 /\ active' = Other(active)
      /\ rd'[s].todo = Users /\ rd'[s].at = "iterate"
  BY DEF Switched, TypeOK, WindowTypeOK, Readers
<1>4. IndexInv'
  BY <1>2, <1>3, OtherIndex DEF IndexInv
<1>5. EntryInv' /\ NoDoubleReport' /\ LostOnlyIfRaced'
  BY <1>1 DEF WindowInv, EntryInv, NoDoubleReport, LostOnlyIfRaced, InTables
<1>6. CopyInv'
  <2>1. \A i \in 0..1, u \in Users : table[i][u] \notin taken
    BY <1>2 DEF WindowInv, CopyInv
  <2>2. \A u \in Users, t \in Streams : Holds(t)' => u \in rd'[t].todo
    BY <1>2, <1>3
  <2>3. taken' \subseteq PutEvents'
    BY <1>1 DEF WindowInv, CopyInv
  <2> QED
    BY <1>1, <2>1, <2>2, <2>3 DEF CopyInv
<1> QED
  BY <1>4, <1>5, <1>6 DEF WindowInv

(* An entry is copied: it was not copied before, and it is nobody else's.  *)
LEMMA IterateStep ==
  ASSUME OneByOne, Solo, TypeOK, WindowInv,
         NEW s \in Streams, NEW u \in Users, Iterate(s, u)
  PROVE  WindowInv'
<1> DEFINE i == rd[s].idx
           e == table[i][u]
<1>1. UNCHANGED <<active, table, replaced, raced>> /\ PutEvents' = PutEvents
  BY DEF Iterate, tableVars, PutEvents
<1>2. \A t \in Streams \ {s} :
        ~Holds(t) /\ ~Holds(t)' /\ rd'[t].at \notin {"cas", "clean", "clear"}
  <2>1. InFreeze(s) /\ \A t \in Streams \ {s} : rd'[t] = rd[t]
    BY DEF Iterate, InFreeze, TypeOK, WindowTypeOK
  <2> QED
    BY <2>1, OthersOut
<1>3. /\ rd'[s].at = "iterate" /\ rd'[s].idx = i /\ rd'[s].todo = rd[s].todo \ {u}
      /\ rd[s].at = "iterate" /\ u \in rd[s].todo /\ i \in 0..1
  BY DEF Iterate, TypeOK, WindowTypeOK, Readers
<1>4. Holds(s) /\ Holds(s)'
  BY <1>3 DEF Holds
<1>5. 0 \notin PutEvents
  BY DEF PutEvents, TypeOK, WindowTypeOK
<1>6. e \notin taken
  BY <1>2, <1>3 DEF WindowInv, CopyInv
<1>7. again' = again /\ taken \subseteq taken'
      /\ (e # 0 => taken' = taken \cup {e}) /\ (e = 0 => taken' = taken)
  BY <1>6 DEF Iterate
<1> HIDE DEF e, i
<1>8. IndexInv'
  BY <1>1, <1>2, <1>3, <1>4 DEF WindowInv, IndexInv, i
<1>9. EntryInv' /\ NoDoubleReport' /\ LostOnlyIfRaced'
  <2>1. EntryInv' /\ NoDoubleReport'
    <3>1. table' = table /\ PutEvents' = PutEvents
      BY <1>1
    <3>2. EntryInv' = EntryInv
      BY <3>1 DEF EntryInv
    <3> QED
      BY <1>7, <3>2 DEF WindowInv, NoDoubleReport
  <2>2. LostOnlyIfRaced'
    BY <1>1, <1>7 DEF WindowInv, LostOnlyIfRaced, InTables
  <2> QED
    BY <2>1, <2>2
<1>10. CopyInv'
  <2>1. taken' \subseteq PutEvents'
    <3>1. e # 0 => e \in PutEvents
      BY <1>3 DEF WindowInv, EntryInv, e
    <3>2. taken \subseteq PutEvents
      BY DEF WindowInv, CopyInv
    <3> QED
      BY <1>1, <1>7, <3>1, <3>2
  <2>2. ASSUME NEW j \in 0..1, NEW v \in Users, table'[j][v] \in taken'
        PROVE  \E t \in Streams : Holds(t)' /\ rd'[t].idx = j /\ v \notin rd'[t].todo
    <3>1. CASE table[j][v] \in taken
      BY <1>1, <1>2, <1>3, <1>4, <3>1 DEF WindowInv, CopyInv, i
    <3>2. CASE table[j][v] \notin taken
      <4>1. table[j][v] = e /\ e # 0
        BY <1>1, <1>7, <2>2, <3>2
      <4>2. j = i /\ v = u
        BY <1>3, <4>1 DEF WindowInv, EntryInv, e, i
      <4> QED
        BY <1>3, <1>4, <4>2
    <3> QED
      BY <3>1, <3>2
  <2>3. ASSUME NEW v \in Users, v \notin rd'[s].todo, table'[rd'[s].idx][v] # 0
        PROVE  table'[rd'[s].idx][v] \in taken' \cup raced'
    <3>1. CASE v = u
      BY <1>1, <1>3, <1>7, <2>3, <3>1 DEF e
    <3>2. CASE v # u
      <4>1. v \notin rd[s].todo
        BY <1>3, <2>3, <3>2
      <4>2. table[i][v] \in taken \cup raced
        BY <1>1, <1>3, <1>4, <2>3, <4>1 DEF WindowInv, CopyInv, i
      <4> QED
        BY <1>1, <1>3, <1>7, <4>2
    <3> QED
      BY <3>1, <3>2
  <2> QED
    BY <1>2, <2>1, <2>2, <2>3 DEF CopyInv
<1> QED
  BY <1>8, <1>9, <1>10 DEF WindowInv

(* A table is cleared: all of it was copied or raced the switch.           *)
LEMMA ClearStep ==
  ASSUME OneByOne, Solo, TypeOK, WindowInv, NEW s \in Streams, Clear(s)
  PROVE  WindowInv'
<1> DEFINE i == rd[s].idx
<1>1. UNCHANGED <<active, taken, again, replaced, raced>> /\ PutEvents' = PutEvents
  BY DEF Clear, history, PutEvents
<1>2. \A t \in Streams \ {s} :
        ~Holds(t) /\ ~Holds(t)' /\ rd'[t].at \notin {"cas", "clean", "clear"}
  <2>1. InFreeze(s) /\ \A t \in Streams \ {s} : rd'[t] = rd[t]
    BY DEF Clear, InFreeze, TypeOK, WindowTypeOK
  <2> QED
    BY <2>1, OthersOut
<1>3. rd[s].at = "clear" /\ rd'[s].at = "frozen" /\ i \in 0..1
  BY DEF Clear, TypeOK, WindowTypeOK, Readers
<1>4. Holds(s) /\ ~Holds(s)' /\ rd[s].todo = {}
  BY <1>3 DEF Holds, WindowInv, IndexInv
<1>5. \A j \in 0..1, v \in Users :
        table'[j][v] = IF j = i THEN 0 ELSE table[j][v]
  BY <1>3 DEF Clear, TypeOK, WindowTypeOK, Empty
<1>6. 0 \notin PutEvents
  BY DEF PutEvents, TypeOK, WindowTypeOK
<1>7. \A v \in Users : table[i][v] # 0 => table[i][v] \in taken \cup raced
  BY <1>4 DEF WindowInv, CopyInv
<1>8. \A j \in 0..1, v \in Users : table[j][v] \in taken => j = i
  BY <1>2 DEF WindowInv, CopyInv
<1> HIDE DEF i
<1>9. IndexInv'
  BY <1>2, <1>3, <1>4 DEF IndexInv
<1>10. EntryInv'
  BY <1>1, <1>5 DEF WindowInv, EntryInv
<1>11. CopyInv'
  <2>1. 0 \notin taken /\ taken' \subseteq PutEvents'
    BY <1>1, <1>6 DEF WindowInv, CopyInv
  <2>2. \A j \in 0..1, v \in Users : table'[j][v] \notin taken'
    BY <1>1, <1>5, <1>8, <2>1
  <2> QED
    BY <1>2, <1>4, <2>1, <2>2 DEF CopyInv
<1>12. LostOnlyIfRaced'
  <2> SUFFICES ASSUME NEW e \in PutEvents'
               PROVE  e \in taken' \cup replaced' \cup raced' \cup InTables'
    BY DEF LostOnlyIfRaced
  <2>1. CASE e \in InTables
    <3>1. PICK j \in 0..1, v \in Users : e = table[j][v]
      BY <2>1 DEF InTables
    <3>2. e # 0
      BY <1>1, <1>6
    <3>3. CASE j = i
      BY <1>1, <1>7, <3>1, <3>2, <3>3
    <3>4. CASE j # i
      BY <1>5, <3>1, <3>4 DEF InTables
    <3> QED
      BY <3>3, <3>4
  <2>2. CASE e \notin InTables
    BY <1>1, <2>2 DEF WindowInv, LostOnlyIfRaced
  <2> QED
    BY <2>1, <2>2
<1>13. NoDoubleReport'
  BY <1>1 DEF WindowInv, NoDoubleReport
<1> QED
  BY <1>9, <1>10, <1>11, <1>12, <1>13 DEF WindowInv

LEMMA WindowInvStep ==
  ASSUME OneByOne, Solo, TypeOK, WindowInv, [Next]_vars
  PROVE  WindowInv'
<1>1. CASE AddStep \/ (PutStep /\ PutLoad) \/ (PutStep /\ PutCount) \/ UNCHANGED vars
  <2>1. UNCHANGED <<active, table, rd, taken, again, replaced, raced>>
    BY <1>1 DEF AddStep, AddActiveUser, PutLoad, PutCount, vars, history
  <2>2. PutEvents' = PutEvents
    <3>1. CASE AddStep
      BY <3>1 DEF AddStep, AddActiveUser, PutEvents
    <3>2. CASE PutStep /\ PutLoad
      BY <3>2 DEF PutLoad, PutEvents
    <3>3. CASE PutStep /\ PutCount
      BY <3>3 DEF PutCount, PutEvents
    <3>4. CASE UNCHANGED vars
      BY <3>4 DEF vars, PutEvents
    <3> QED
      BY <1>1, <3>1, <3>2, <3>3, <3>4
  <2> QED
    BY <2>1, <2>2, FrameStep DEF Holds, WindowInv, IndexInv
<1>2. CASE PutStep /\ PutInsert
  BY <1>2, InsertStep, ZenonT(60)
<1>3. ASSUME NEW s \in Streams, OnRequest(s) \/ (FreezeStep(s) /\ NotSwitched(s))
             \/ ReplyStep(s) \/ RequestsEnd(s) \/ Receive(s) \/ Drop(s)
      PROVE  WindowInv'
  <2>1. UNCHANGED <<active, table, count, putter, taken, again, replaced, raced>>
    BY <1>3 DEF OnRequest, FreezeLoad, NotSwitched, ReplyStep, SendNone,
       SendNoneFails, SendBatch, SendBatchFails, RequestsEnd, Receive, Drop,
       tableVars, history
  <2>2. /\ \A t \in Streams \ {s} : rd'[t] = rd[t]
        /\ rd' = rd \/ ~(rd[s].at \in {"iterate", "clean", "clear"}
                         \/ rd'[s].at \in {"iterate", "clean", "clear"})
        /\ rd' # rd /\ rd'[s].at = "cas" => rd'[s].idx = active
    <3>1. CASE OnRequest(s)
      BY <3>1 DEF OnRequest, FreezeLoad, TypeOK, WindowTypeOK, Readers
    <3>2. CASE FreezeStep(s) /\ NotSwitched(s)
      BY <3>2 DEF NotSwitched, TypeOK, WindowTypeOK, Readers
    <3>3. CASE SendNone(s)
      BY <3>3 DEF SendNone, TypeOK, WindowTypeOK, Readers
    <3>7. CASE SendNoneFails(s)
      BY <3>7 DEF SendNoneFails, TypeOK, WindowTypeOK, Readers
    <3>4. CASE SendBatch(s) \/ SendBatchFails(s)
      BY <3>4 DEF SendBatch, SendBatchFails, TypeOK, WindowTypeOK, Readers
    <3>5. CASE RequestsEnd(s)
      BY <3>5 DEF RequestsEnd, TypeOK, WindowTypeOK, Readers
    <3>6. CASE Receive(s) \/ Drop(s)
      BY <3>6 DEF Receive, Drop
    <3> QED
      BY <1>3, <3>1, <3>2, <3>3, <3>4, <3>5, <3>6, <3>7, Zenon DEF ReplyStep
  <2>3. rd'[s].at = "cas" => rd'[s].idx = active
    BY <2>2 DEF WindowInv, IndexInv
  <2>4. Holds(s)' <=> Holds(s)
    BY <2>2 DEF Holds
  <2>5. Holds(s) => rd' = rd
    BY <2>2 DEF Holds
  <2> QED
    BY <2>1, <2>2, <2>3, <2>4, <2>5, ReaderFrame, ZenonT(60) DEF WindowInv, IndexInv
<1>4. ASSUME NEW s \in Streams, Iterated(s) \/ CleanLoad(s)
      PROVE  WindowInv'
  <2>1. UNCHANGED <<active, table, count, putter, taken, again, replaced, raced>>
    BY <1>4 DEF Iterated, CleanLoad, tableVars, history
  <2>2. /\ \A t \in Streams \ {s} : rd'[t] = rd[t]
        /\ rd[s].at \in {"iterate", "clean"} /\ rd'[s].at \in {"clean", "clear"}
        /\ rd'[s].todo = rd[s].todo
        /\ rd'[s].idx = rd[s].idx \/ rd'[s].idx = Other(active)
        /\ rd[s].at = "iterate" => rd[s].todo = {}
    BY <1>4 DEF Iterated, CleanLoad, TypeOK, WindowTypeOK, Readers
  <2>3. Holds(s) /\ Holds(s)' /\ rd'[s].at # "cas"
    BY <2>2 DEF Holds
  <2>4. rd'[s].idx = rd[s].idx /\ rd[s].todo = {}
    BY <2>2, <2>3 DEF WindowInv, IndexInv
  <2> QED
    BY <2>1, <2>2, <2>3, <2>4, ReaderFrame, Zenon
<1> QED
  BY <1>1, <1>2, <1>3, <1>4, SwitchStep, IterateStep, ClearStep
     DEF Next, PutStep, Putting, FreezeStep, Freezing

(* A freeze that begins during another one is counted in met.              *)
LEMMA SoloStep ==
  ASSUME OneByOne, OneByOne', Solo, TypeOK, [Next]_vars
  PROVE  Solo'
<1>1. CASE UNCHANGED rd
  BY <1>1 DEF Solo, InFreeze
<1>2. ASSUME NEW s \in Streams, \A t \in Streams \ {s} : rd'[t] = rd[t],
             InFreeze(s)' => InFreeze(s)
      PROVE  Solo'
  BY <1>2 DEF Solo, InFreeze
<1>3. ASSUME NEW s \in Streams, OnRequest(s)
      PROVE  Solo'
  <2>1. \A t \in Streams \ {s} : rd'[t] = rd[t]
    BY <1>3 DEF OnRequest, FreezeLoad, TypeOK, WindowTypeOK
  <2>2. \A t \in Streams : ~InFreeze(t)
    BY <1>3 DEF OnRequest, FreezeLoad, OneByOne
  <2> QED
    BY <2>1, <2>2 DEF Solo, InFreeze
<1>4. ASSUME NEW s \in Streams, FreezeStep(s)
      PROVE  Solo'
  <2>1. InFreeze(s) /\ \A t \in Streams \ {s} : rd'[t] = rd[t]
    BY <1>4, Zenon DEF FreezeStep, Freezing, Switched, NotSwitched, Iterate, Iterated,
       CleanLoad, Clear, InFreeze, TypeOK, WindowTypeOK
  <2> QED
    BY <1>2, <2>1
<1>5. ASSUME NEW s \in Streams, ReplyStep(s) \/ RequestsEnd(s)
      PROVE  Solo'
  <2>1. /\ \A t \in Streams \ {s} : rd'[t] = rd[t]
        /\ rd'[s].at \in {"out", "send", "gone"}
    BY <1>5, SMTT(60) DEF ReplyStep, SendNone, SendNoneFails, SendBatch, SendBatchFails,
       RequestsEnd, TypeOK, WindowTypeOK, Readers
  <2> QED
    BY <1>2, <2>1 DEF InFreeze
<1>6. CASE AddStep \/ PutStep \/ UNCHANGED vars \/ \E s \in Streams : Receive(s) \/ Drop(s)
  BY <1>1, <1>6 DEF AddStep, AddActiveUser, PutStep, Putting, PutLoad, PutInsert,
     PutCount, vars, Receive, Drop
<1> QED
  BY <1>3, <1>4, <1>5, <1>6 DEF Next

(* Overlaps are counted and never forgotten.                               *)
LEMMA MetStep == ASSUME TypeOK, [Next]_vars, OneByOne'
                 PROVE  OneByOne
<1>1. met \in Nat
  BY DEF TypeOK, WindowTypeOK
<1>2. ASSUME NEW s \in Streams, OnRequest(s)
      PROVE  met' >= met
  BY <1>1, <1>2 DEF OnRequest, FreezeLoad
<1>3. ASSUME NEW s \in Streams, FreezeStep(s)
      PROVE  met' = met
  BY <1>3, ZenonT(30) DEF FreezeStep, Freezing, Switched, NotSwitched, Iterate, Iterated,
     CleanLoad, Clear, history
<1>4. ASSUME NEW s \in Streams, ReplyStep(s) \/ RequestsEnd(s) \/ Receive(s) \/ Drop(s)
      PROVE  met' = met
  BY <1>4, ZenonT(60) DEF ReplyStep, SendNone, SendNoneFails, SendBatch, SendBatchFails,
     RequestsEnd, Receive, Drop, history
<1>5. CASE AddStep \/ PutStep \/ UNCHANGED vars
  BY <1>5 DEF AddStep, AddActiveUser, PutStep, Putting, PutLoad, PutInsert,
     PutCount, vars, history, OneByOne
<1>6. met' >= met \/ OneByOne
  BY <1>1, <1>2, <1>3, <1>4, <1>5 DEF Next
<1> QED
  BY <1>1, <1>6 DEF OneByOne

SafeInv == OneByOne => Solo /\ WindowInv

(* The invariant of the window: while no freeze begins during another, one *)
(* call at most is inside a freeze, and tables and copies agree            *)
(* (active_users.rs:42-71).                                                *)
THEOREM WindowInvariant == Spec => []SafeInv
<1>1. Init => SafeInv
  <2>1. Init => Solo
    BY DEF Init, WindowInit, Solo, InFreeze
  <2> QED
    BY <2>1, WindowInvInit, ZenonT(60) DEF SafeInv
<1>2. TypeOK /\ SafeInv /\ [Next]_vars => SafeInv'
  BY MetStep, SoloStep, WindowInvStep DEF SafeInv
<1> QED
  BY <1>1, <1>2, TypeCorrect, PTL DEF Spec

(* While freezes do not overlap, no event is in the copies of two of them, *)
(* however puts, freezes and replies interleave (active_users.rs:42-66).   *)
THEOREM NothingReportedTwice == Spec => []NoDoubleReport
<1>1. SafeInv => NoDoubleReport
  BY DEF SafeInv, WindowInv, NoDoubleReport
<1> QED
  BY <1>1, WindowInvariant, PTL

(* While freezes do not overlap, an event is lost only if its put loaded   *)
(* the index before a switch and stored the event after it                 *)
(* (active_users.rs:68-71).                                                *)
THEOREM OnlyRacedAreLost == Spec => []LostOnlyIfRaced
<1>1. SafeInv => LostOnlyIfRaced
  BY DEF SafeInv, WindowInv, LostOnlyIfRaced
<1> QED
  BY <1>1, WindowInvariant, PTL

----------------------------------------------------------------------------
(* Replies.  The sum of the entries after a batch, of a reply that is not  *)
(* complete yet.                                                           *)
After(sum, b) ==
  IF sum + Len(b.users) = b.count THEN 0 ELSE sum + Len(b.users)

(* The batches q take the sum from one number to another.                  *)
Sums(q, from, to) ==
  \E f \in [0..Len(q) -> Nat] :
    /\ f[0] = from /\ f[Len(q)] = to
    /\ \A i \in 1..Len(q) : f[i] = After(f[i - 1], q[i])

LEMMA AfterType ==
  ASSUME NEW sum \in Nat, NEW b \in Batches
  PROVE  After(sum, b) \in Nat
BY DEF After, Batches

LEMMA SumsEmpty ==
  ASSUME NEW n \in Nat
  PROVE  /\ Sums(<<>>, n, n)
         /\ \A m : Sums(<<>>, n, m) => n = m
<1> DEFINE f == [i \in 0..0 |-> n]
<1>1. Sums(<<>>, n, n)
  <2>1. f \in [0..Len(<<>>) -> Nat] /\ f[0] = n /\ f[Len(<<>>)] = n
    OBVIOUS
  <2>2. \A i \in 1..Len(<<>>) : f[i] = After(f[i - 1], <<>>[i])
    OBVIOUS
  <2> HIDE DEF f
  <2> QED BY <2>1, <2>2 DEF Sums
<1>2. Len(<<>>) = 0
  OBVIOUS
<1> QED BY <1>1, <1>2 DEF Sums

LEMMA SumsAppend ==
  ASSUME NEW q \in Seq(Batches), NEW b \in Batches, NEW from \in Nat, NEW to \in Nat,
         Sums(q, from, to)
  PROVE  Sums(Append(q, b), from, After(to, b))
<1> DEFINE n == Len(q)
           p == Append(q, b)
<1>1. PICK f \in [0..Len(q) -> Nat] :
         /\ f[0] = from /\ f[Len(q)] = to
         /\ \A i \in 1..Len(q) : f[i] = After(f[i - 1], q[i])
  BY DEF Sums
<1>2. n \in Nat /\ Len(p) = n + 1 /\ p[n + 1] = b /\ \A i \in 1..n : p[i] = q[i]
  OBVIOUS
<1> DEFINE new == After(to, b)
           g == [i \in 0..(n + 1) |-> IF i = n + 1 THEN new ELSE f[i]]
<1>3. new \in Nat
  BY AfterType
<1> HIDE DEF new, p
<1>4. g \in [0..Len(p) -> Nat] /\ g[0] = from /\ g[Len(p)] = new
  BY <1>1, <1>2, <1>3
<1>5. ASSUME NEW i \in 1..Len(p)
      PROVE  g[i] = After(g[i - 1], p[i])
  <2>1. CASE i = n + 1
    <3>1. g[i] = new /\ g[i - 1] = to /\ p[i] = b
      BY <1>1, <1>2, <2>1
    <3> QED BY <3>1 DEF new
  <2>2. CASE i \in 1..n
    <3>1. g[i] = f[i] /\ g[i - 1] = f[i - 1] /\ p[i] = q[i]
      BY <1>1, <1>2, <2>2
    <3>2. f[i] = After(f[i - 1], q[i])
      BY <1>1, <2>2
    <3> QED BY <3>1, <3>2
  <2> QED BY <1>2, <2>1, <2>2
<1> HIDE DEF g
<1> QED BY <1>4, <1>5, ZenonT(60) DEF Sums, new, p

LEMMA SumsTail ==
  ASSUME NEW q \in Seq(Batches), q # <<>>, NEW from \in Nat, NEW to \in Nat,
         Sums(q, from, to)
  PROVE  Sums(Tail(q), After(from, Head(q)), to)
<1> DEFINE n == Len(q)
           p == Tail(q)
<1>1. PICK f \in [0..Len(q) -> Nat] :
         /\ f[0] = from /\ f[Len(q)] = to
         /\ \A i \in 1..Len(q) : f[i] = After(f[i - 1], q[i])
  BY DEF Sums
<1>2. /\ n \in Nat /\ n > 0 /\ Len(p) = n - 1 /\ Head(q) = q[1]
      /\ \A i \in 1..(n - 1) : p[i] = q[i + 1]
  OBVIOUS
<1> DEFINE g == [i \in 0..(n - 1) |-> f[i + 1]]
<1> HIDE DEF p
<1>3. f[1] = After(from, Head(q))
  <2>1. 1 \in 1..Len(q) /\ 1 - 1 = 0
    BY <1>2
  <2> QED BY <1>1, <1>2, <2>1
<1>4. g \in [0..Len(p) -> Nat] /\ g[0] = f[1] /\ g[Len(p)] = to
  BY <1>1, <1>2
<1>5. ASSUME NEW i \in 1..Len(p)
      PROVE  g[i] = After(g[i - 1], p[i])
  <2> DEFINE j == i + 1
  <2>1. j \in 1..Len(q) /\ j - 1 = i /\ g[i] = f[j] /\ g[i - 1] = f[i] /\ p[i] = q[j]
    BY <1>1, <1>2
  <2>2. f[j] = After(f[j - 1], q[j])
    BY <1>1, <2>1
  <2> QED BY <2>1, <2>2
<1> HIDE DEF g
<1> QED BY <1>3, <1>4, <1>5, ZenonT(60) DEF Sums, p

(* A batch and what is left make up what there was.                        *)
LEMMA ChunkAndRest ==
  ASSUME NEW d \in Seq(Nat)
  PROVE  /\ Chunk(d) \in Seq(Nat) /\ Rest(d) \in Seq(Nat)
         /\ Len(Chunk(d)) + Len(Rest(d)) = Len(d)
         /\ Len(Chunk(d)) \in Nat /\ Len(Rest(d)) \in Nat
         /\ Entries(d) \subseteq Entries(Chunk(d)) \cup Entries(Rest(d))
<1>1. CASE Len(d) <= ChunkSize
  <2>1. Chunk(d) = d /\ Rest(d) = <<>>
    BY <1>1 DEF Chunk, Rest
  <2> QED BY <2>1
<1>2. CASE ~(Len(d) <= ChunkSize)
  <2> DEFINE c == SubSeq(d, 1, ChunkSize)
             r == SubSeq(d, ChunkSize + 1, Len(d))
  <2>0. ChunkSize \in Nat /\ ChunkSize > 0 /\ ChunkSize < Len(d) /\ Len(d) \in Nat
    BY <1>2, ReportAssumption
  <2>1. /\ c \in Seq(Nat) /\ Len(c) = ChunkSize
        /\ \A i \in 1..ChunkSize : c[i] = d[i]
    BY <2>0
  <2>2. /\ r \in Seq(Nat) /\ Len(r) = Len(d) - ChunkSize
        /\ \A i \in 1..(Len(d) - ChunkSize) : r[i] = d[ChunkSize + i]
    BY <2>0
  <2>3. Chunk(d) = c /\ Rest(d) = r
    BY <1>2, Zenon DEF Chunk, Rest
  <2> HIDE DEF c, r
  <2>4. ASSUME NEW i \in 1..Len(d)
        PROVE  d[i] \in Entries(c) \cup Entries(r)
    <3>1. CASE i <= ChunkSize
      <4>1. i \in 1..Len(c) /\ c[i] = d[i]
        BY <2>0, <2>1, <3>1
      <4> QED BY <4>1 DEF Entries
    <3>2. CASE i > ChunkSize
      <4> DEFINE j == i - ChunkSize
      <4>1. j \in 1..Len(r) /\ ChunkSize + j = i
        BY <2>0, <2>2, <3>2
      <4>2. r[j] = d[ChunkSize + j]
        BY <2>2, <4>1
      <4> HIDE DEF j
      <4> QED BY <4>1, <4>2 DEF Entries
    <3> QED BY <2>0, <3>1, <3>2
  <2>5. Entries(d) \subseteq Entries(c) \cup Entries(r)
    BY <2>4, ZenonT(60) DEF Entries
  <2>6. Len(c) + Len(r) = Len(d) /\ Len(c) \in Nat /\ Len(r) \in Nat
    BY <2>0, <2>1, <2>2
  <2> QED BY <2>1, <2>2, <2>3, <2>5, <2>6, Zenon
<1> QED BY <1>1, <1>2

LEMMA EntriesAppend ==
  ASSUME NEW S, NEW q \in Seq(S), NEW x \in S
  PROVE  Entries(Append(q, x)) = Entries(q) \cup {x}
BY DEF Entries

LEMMA EntriesTail ==
  ASSUME NEW S, NEW q \in Seq(S), q # <<>>
  PROVE  Entries(q) = Entries(Tail(q)) \cup {Head(q)}
<1> DEFINE n == Len(q)
           p == Tail(q)
<1>1. /\ n \in Nat /\ n > 0 /\ Len(p) = n - 1 /\ Head(q) = q[1]
      /\ \A i \in 1..(n - 1) : p[i] = q[i + 1]
  OBVIOUS
<1> HIDE DEF p
<1>2. ASSUME NEW i \in 1..n PROVE q[i] \in Entries(p) \cup {Head(q)}
  <2>1. CASE i = 1
    BY <1>1, <2>1
  <2>2. CASE i # 1
    <3> DEFINE j == i - 1
    <3>1. j \in 1..Len(p) /\ j \in 1..(n - 1) /\ j + 1 = i
      BY <1>1, <2>2
    <3>2. p[j] = q[i]
      BY <1>1, <3>1
    <3> HIDE DEF j
    <3> QED BY <3>1, <3>2 DEF Entries
  <2> QED BY <2>1, <2>2
<1>3. ASSUME NEW i \in 1..Len(p) PROVE p[i] \in Entries(q)
  <2>1. i + 1 \in 1..n /\ p[i] = q[i + 1]
    BY <1>1
  <2> QED BY <2>1 DEF Entries
<1>4. Head(q) \in Entries(q)
  <2>1. 1 \in 1..n
    BY <1>1
  <2> QED BY <1>1, <2>1 DEF Entries
<1>5. Entries(q) \subseteq Entries(p) \cup {Head(q)}
  BY <1>2 DEF Entries
<1>6. Entries(p) \subseteq Entries(q)
  BY <1>3 DEF Entries
<1> QED BY <1>4, <1>5, <1>6 DEF p

----------------------------------------------------------------------------
(* How much of the reply that a stream is sending is in the channel or     *)
(* beyond.                                                                 *)
Sent(s) == IF rd[s].at = "send" THEN total[s] - Len(rd[s].data) ELSE 0

(* Of one stream: the batches in the channel, after those that the control *)
(* plane has read, end where the reply that is being sent has got to.      *)
StreamInv(s) ==
  /\ s \notin load.calls => rd[s].at = "gone" /\ ~open[s]
  /\ rd[s].at = "send" => rd[s].data # <<>> /\ Len(rd[s].data) <= total[s]
  /\ open[s] => Sums(chan[s], got[s].sum, Sent(s))

ReplyInv == (\A s \in Streams : StreamInv(s)) /\ FrozenReachesCp

LEMMA StreamFrame ==
  ASSUME NEW s, StreamInv(s), UNCHANGED <<rd[s], open[s], chan[s], total[s], got[s], load>>
  PROVE  StreamInv(s)'
BY DEF StreamInv, Sent

(* What a step takes from one place it leaves in another.                  *)
LEMMA FlightFrame ==
  ASSUME FrozenReachesCp, NEW s \in Streams, NEW new, load' = load,
         \A t \in Streams \ {s} : InFlight(t)' = InFlight(t),
         (\A t \in load.calls : open'[t]) => \A t \in load.calls : open[t],
         taken' \subseteq taken \cup new,
         InFlight(s) \cup delivered \cup new \subseteq InFlight(s)' \cup delivered'
  PROVE  FrozenReachesCp'
<1> SUFFICES ASSUME \A t \in load.calls : open'[t], NEW e \in taken'
             PROVE  e \in delivered' \cup UNION {InFlight(t)' : t \in Streams}
  BY DEF FrozenReachesCp
<1>1. CASE e \in new
  BY <1>1
<1>2. CASE e \in taken
  <2>1. e \in delivered \cup UNION {InFlight(t) : t \in Streams}
    BY <1>2 DEF FrozenReachesCp
  <2>2. CASE e \in delivered
    BY <2>2
  <2>3. ASSUME NEW t \in Streams, e \in InFlight(t)
        PROVE  e \in delivered' \cup UNION {InFlight(r)' : r \in Streams}
    <3>1. CASE t = s
      BY <2>3, <3>1
    <3>2. CASE t # s
      BY <2>3, <3>2
    <3> QED BY <3>1, <3>2
  <2> QED BY <2>1, <2>2, <2>3
<1> QED BY <1>1, <1>2

LEMMA ReplyInvInit == Init => ReplyInv
<1> SUFFICES ASSUME Init PROVE ReplyInv
  OBVIOUS
<1>1. ASSUME NEW s \in Streams PROVE StreamInv(s)
  <2>1. Sums(<<>>, 0, 0)
    BY SumsEmpty, ZenonT(60)
  <2>2. chan[s] = <<>> /\ got[s].sum = 0 /\ Sent(s) = 0 /\ rd[s].at # "send"
    BY DEF Init, WindowInit, Sent
  <2>3. s \notin load.calls => rd[s].at = "gone" /\ ~open[s]
    BY ZenonT(60) DEF Init, WindowInit
  <2> QED BY <2>1, <2>2, <2>3 DEF StreamInv
<1>2. FrozenReachesCp
  BY ZenonT(60) DEF Init, WindowInit, FrozenReachesCp
<1> QED BY <1>1, <1>2 DEF ReplyInv

(* A step of a stream that neither sends nor receives, nor forgets what    *)
(* was copied.                                                             *)
LEMMA QuietStep ==
  ASSUME TypeOK, ReplyInv, NEW s \in Streams, NEW new,
         UNCHANGED <<open, chan, total, got, delivered, load>>,
         \A t \in Streams \ {s} : rd'[t] = rd[t],
         rd[s].at \notin {"send", "gone"}, rd'[s].at # "send",
         Entries(rd[s].data) \cup new \subseteq Entries(rd'[s].data),
         taken' \subseteq taken \cup new
  PROVE  ReplyInv'
<1>1. StreamInv(s)'
  BY DEF ReplyInv, StreamInv, Sent
<1>2. \A t \in Streams \ {s} : StreamInv(t)'
  BY StreamFrame, ZenonT(30) DEF ReplyInv
<1>3. FrozenReachesCp'
  <2>1. \A t \in Streams \ {s} : InFlight(t)' = InFlight(t)
    BY DEF InFlight
  <2>2. InFlight(s) \cup delivered \cup new \subseteq InFlight(s)' \cup delivered'
    BY DEF InFlight
  <2> QED BY <2>1, <2>2, FlightFrame DEF ReplyInv
<1> QED BY <1>1, <1>2, <1>3, ZenonT(60) DEF ReplyInv

LEMMA StillStep ==
  ASSUME ReplyInv, UNCHANGED <<rd, open, chan, total, got, delivered, load, taken>>
  PROVE  ReplyInv'
<1>1. \A t \in Streams : StreamInv(t)'
  BY StreamFrame DEF ReplyInv
<1>2. FrozenReachesCp'
  BY DEF ReplyInv, FrozenReachesCp, InFlight
<1> QED BY <1>1, <1>2 DEF ReplyInv

LEMMA FreezeReplies ==
  ASSUME TypeOK, ReplyInv, NEW s \in Streams, OnRequest(s) \/ FreezeStep(s) \/ RequestsEnd(s)
  PROVE  ReplyInv'
<1>0. rd \in [Streams -> Readers] /\ rd[s] \in Readers /\ rd[s].data \in Seq(Nat)
  BY DEF TypeOK, WindowTypeOK, Readers
<1>1. CASE OnRequest(s) \/ RequestsEnd(s)
  <2>1. /\ UNCHANGED <<open, chan, total, got, delivered, load, taken>>
        /\ \A t \in Streams \ {s} : rd'[t] = rd[t]
        /\ rd[s].at = "out" /\ rd'[s].at \in {"cas", "gone"} /\ rd'[s].data = rd[s].data
    <3>1. CASE OnRequest(s)
      <4>1. FreezeLoad(s) /\ UNCHANGED <<open, chan, total, got, delivered>>
        BY <3>1 DEF OnRequest
      <4>2. /\ rd[s].at = "out" /\ rd' = [rd EXCEPT ![s] = [rd[s] EXCEPT !.at = "cas", !.idx = active]]
            /\ UNCHANGED <<load, taken>>
        BY <4>1, Zenon DEF FreezeLoad
      <4> QED BY <1>0, <4>1, <4>2 DEF Readers
    <3>2. CASE RequestsEnd(s)
      BY <1>0, <3>2 DEF RequestsEnd, history, Readers
    <3> QED BY <1>1, <3>1, <3>2, Zenon
  <2> QED BY <2>1, QuietStep, Zenon
<1>2. ASSUME NEW u \in Users, Iterate(s, u), UNCHANGED <<open, chan, total, got, delivered>>
      PROVE  ReplyInv'
  <2> DEFINE e == table[rd[s].idx][u]
             d == rd[s].data
             new == IF e # 0 THEN {e} ELSE {}
  <2>1. e \in Nat
    <3>1. table \in [0..1 -> [Users -> Nat]] /\ rd \in [Streams -> Readers]
      BY DEF TypeOK, WindowTypeOK
    <3>2. rd[s].idx \in 0..1
      BY <3>1 DEF Readers
    <3> QED BY <3>1, <3>2
  <2>2. /\ UNCHANGED <<open, chan, total, got, delivered, load>>
        /\ \A t \in Streams \ {s} : rd'[t] = rd[t]
        /\ rd[s].at = "iterate" /\ rd'[s].at = "iterate"
        /\ rd'[s].data = IF e # 0 THEN Append(d, e) ELSE d
    <3> DEFINE r == [rd[s] EXCEPT !.todo = @ \ {u},
                                  !.data = IF e # 0 THEN Append(d, e) ELSE d]
    <3>1. rd' = [rd EXCEPT ![s] = r]
      BY <1>2, ZenonT(30) DEF Iterate
    <3>2. r.at = rd[s].at /\ r.data = IF e # 0 THEN Append(d, e) ELSE d
      BY <1>0 DEF Readers
    <3> HIDE DEF r
    <3>3. rd'[s] = r /\ \A t \in Streams \ {s} : rd'[t] = rd[t]
      BY <1>0, <3>1
    <3> QED BY <1>2, <3>2, <3>3, Zenon DEF Iterate
  <2>3. taken' \subseteq taken \cup new
    BY <1>2 DEF Iterate
  <2>4. Entries(d) \cup new \subseteq Entries(rd'[s].data)
    <3> HIDE DEF e, d
    <3>1. CASE e # 0
      <4>1. Entries(Append(d, e)) = Entries(d) \cup {e}
        BY <1>0, <2>1, EntriesAppend, SMTT(60) DEF d
      <4> QED BY <2>2, <3>1, <4>1
    <3>2. CASE e = 0
      BY <2>2, <3>2
    <3> QED BY <3>1, <3>2
  <2> HIDE DEF new
  <2> QED BY <2>2, <2>3, <2>4, QuietStep, Zenon
<1>3. ASSUME Switched(s) \/ NotSwitched(s) \/ Iterated(s) \/ CleanLoad(s) \/ Clear(s),
             UNCHANGED <<open, chan, total, got, delivered>>
      PROVE  ReplyInv'
  <2>1. /\ UNCHANGED <<open, chan, total, got, delivered, load, taken>>
        /\ \A t \in Streams \ {s} : rd'[t] = rd[t]
        /\ rd[s].at \in {"cas", "iterate", "clean", "clear"}
        /\ rd'[s].at \in {"iterate", "clean", "clear", "frozen"}
        /\ rd'[s].data = rd[s].data
    <3>1. CASE Switched(s)
      BY <1>0, <1>3, <3>1 DEF Switched, history
    <3>2. CASE NotSwitched(s)
      BY <1>0, <1>3, <3>2 DEF NotSwitched, history
    <3>3. CASE Iterated(s)
      BY <1>0, <1>3, <3>3 DEF Iterated, history
    <3>4. CASE CleanLoad(s)
      BY <1>0, <1>3, <3>4 DEF CleanLoad, history
    <3>5. CASE Clear(s)
      BY <1>0, <1>3, <3>5 DEF Clear, history
    <3> QED BY <1>3, <3>1, <3>2, <3>3, <3>4, <3>5, Zenon
  <2> QED BY <2>1, QuietStep
<1> QED BY <1>1, <1>2, <1>3, ZenonT(60) DEF FreezeStep, Freezing

(* A stream whose data and channel change.                                 *)
LEMMA SendFrame ==
  ASSUME ReplyInv, NEW s \in Streams, UNCHANGED <<open, load, taken>>,
         \A t \in Streams \ {s} : UNCHANGED <<rd[t], chan[t], total[t], got[t]>>,
         StreamInv(s)',
         InFlight(s) \cup delivered \subseteq InFlight(s)' \cup delivered'
  PROVE  ReplyInv'
<1>1. \A t \in Streams \ {s} : StreamInv(t)'
  BY StreamFrame, ZenonT(60) DEF ReplyInv
<1>2. FrozenReachesCp'
  <2>1. \A t \in Streams \ {s} : InFlight(t)' = InFlight(t)
    BY DEF InFlight
  <2>2. taken' \subseteq taken \cup {}
    BY ZenonT(60)
  <2> QED BY <2>1, <2>2, FlightFrame DEF ReplyInv
<1> QED BY <1>1, <1>2, Zenon DEF ReplyInv

LEMMA SendNoneReplies ==
  ASSUME TypeOK, ReplyInv, NEW s \in Streams, SendNone(s)
  PROVE  ReplyInv'
<1> DEFINE b == [count |-> 0, users |-> <<>>]
<1>1. /\ rd[s] \in Readers /\ rd[s].data = <<>> /\ chan[s] \in Seq(Batches)
      /\ rd \in [Streams -> Readers] /\ chan \in [Streams -> Seq(Batches)]
      /\ got[s].sum \in Nat /\ b \in Batches
  BY SMTT(60) DEF TypeOK, WindowTypeOK, SendNone, Batches
<1>2. /\ UNCHANGED <<open, load, taken, delivered, total, got>>
      /\ \A t \in Streams \ {s} : rd'[t] = rd[t] /\ chan'[t] = chan[t]
      /\ rd[s].at = "frozen" /\ rd'[s].at = "out" /\ rd'[s].data = <<>>
      /\ chan'[s] = Append(chan[s], b)
  BY <1>1 DEF SendNone, history
<1>3. StreamInv(s)'
  <2>1. After(0, b) = 0
    BY SMTT(60) DEF After
  <2>2. ASSUME open[s] PROVE Sums(chan'[s], got[s].sum, 0)
    <3>1. Sums(chan[s], got[s].sum, 0)
      BY <1>2, <2>2, ZenonT(60) DEF ReplyInv, StreamInv, Sent
    <3> HIDE DEF b
    <3>2. Sums(Append(chan[s], b), got[s].sum, After(0, b))
      BY <1>1, <3>1, SumsAppend, ZenonT(60)
    <3> QED BY <1>2, <2>1, <3>2, ZenonT(60)
  <2>3. s \in load.calls
    BY <1>2 DEF ReplyInv, StreamInv
  <2> QED BY <1>2, <2>2, <2>3 DEF StreamInv, Sent
<1>4. InFlight(s) \subseteq InFlight(s)'
  <2> HIDE DEF b
  <2>1. Entries(Append(chan[s], b)) = Entries(chan[s]) \cup {b}
    BY <1>1, EntriesAppend, SMTT(60)
  <2> QED BY <1>1, <1>2, <2>1 DEF InFlight
<1> QED BY <1>2, <1>3, <1>4, SendFrame

LEMMA SendBatchReplies ==
  ASSUME TypeOK, ReplyInv, NEW s \in Streams, SendBatch(s)
  PROVE  ReplyInv'
<1> DEFINE d == rd[s].data
           c == Chunk(d)
           r == Rest(d)
           n == PackageCount(s)
           b == [count |-> n, users |-> c]
<1>1. /\ rd[s] \in Readers /\ d \in Seq(Nat) /\ d # <<>> /\ chan[s] \in Seq(Batches)
      /\ rd \in [Streams -> Readers] /\ chan \in [Streams -> Seq(Batches)]
      /\ total \in [Streams -> Nat] /\ got[s].sum \in Nat
  BY ZenonT(60) DEF TypeOK, WindowTypeOK, SendBatch, Readers
<1>2. /\ c \in Seq(Nat) /\ r \in Seq(Nat) /\ Len(c) + Len(r) = Len(d)
      /\ Len(c) \in Nat /\ Len(r) \in Nat /\ Len(d) \in Nat
      /\ Entries(d) \subseteq Entries(c) \cup Entries(r)
  <2>1. d \in Seq(Nat) /\ Len(d) \in Nat
    BY <1>1, SMTT(60)
  <2> HIDE DEF d
  <2> QED BY <2>1, ChunkAndRest
<1>3. n \in Nat /\ b \in Batches
  <2>1. n \in Nat
    BY <1>1, SMTT(60) DEF PackageCount
  <2> QED BY <1>2, <2>1 DEF Batches
<1>4. /\ UNCHANGED <<open, load, taken, delivered, got>> /\ open[s]
      /\ rd[s].at \in {"frozen", "send"}
      /\ chan'[s] = Append(chan[s], b)
      /\ total'[s] = (IF r = <<>> THEN 0 ELSE n)
      /\ rd'[s].data = r /\ rd'[s].at = (IF r = <<>> THEN "out" ELSE "send")
      /\ \A t \in Streams \ {s} : rd'[t] = rd[t] /\ chan'[t] = chan[t] /\ total'[t] = total[t]
  <2> DEFINE new == [rd[s] EXCEPT !.data = r, !.at = IF r = <<>> THEN "out" ELSE "send"]
  <2>1. rd' = [rd EXCEPT ![s] = new]
    BY Zenon DEF SendBatch
  <2>2. new.data = r /\ new.at = (IF r = <<>> THEN "out" ELSE "send")
    BY <1>1 DEF Readers
  <2> HIDE DEF new
  <2>3. rd'[s] = new /\ \A t \in Streams \ {s} : rd'[t] = rd[t]
    BY <1>1, <2>1
  <2>4. /\ chan' = [chan EXCEPT ![s] = Append(@, b)]
        /\ total' = [total EXCEPT ![s] = IF r = <<>> THEN 0 ELSE n]
        /\ UNCHANGED <<open, load, taken, delivered, got>> /\ open[s]
        /\ rd[s].at \in {"frozen", "send"}
    BY DEF SendBatch, history, HasRoom
  <2> HIDE DEF b, c, r, d, n
  <2> QED BY <1>1, <2>2, <2>3, <2>4
<1>5. b.count = n /\ b.users = c
  <2> HIDE DEF n, c
  <2> QED BY ZenonT(60)
<1>6. Len(d) > 0 /\ (r = <<>> => Len(r) = 0) /\ (r # <<>> => Len(r) > 0)
  BY <1>1, <1>2, SMTT(60)
<1>7. /\ rd[s].at = "frozen" => n = Len(d) /\ Sent(s) = 0
      /\ rd[s].at = "send" => n = total[s] /\ Len(d) <= total[s] /\ Sent(s) = n - Len(d)
      /\ n - Len(d) \in Nat /\ Sent(s) = n - Len(d)
  <2>1. rd[s].at = "send" => Len(d) <= total[s]
    BY ZenonT(60) DEF ReplyInv, StreamInv
  <2>2. total[s] \in Nat /\ Len(d) \in Nat
    BY <1>1, <1>2, ZenonT(60)
  <2>3. CASE rd[s].at = "frozen"
    <3>1. n = Len(d) /\ Sent(s) = 0
      BY <2>3 DEF PackageCount, Sent
    <3> HIDE DEF n, d
    <3> QED BY <2>2, <2>3, <3>1
  <2>4. CASE rd[s].at = "send"
    <3>1. n = total[s] /\ Sent(s) = n - Len(d)
      BY <2>4 DEF PackageCount, Sent
    <3> HIDE DEF n, d
    <3> QED BY <2>1, <2>2, <2>4, <3>1
  <2> QED BY <1>4, <2>3, <2>4, ZenonT(60)
<1> HIDE DEF n, d, c, r, b
<1>8. After(Sent(s), b) = IF r = <<>> THEN 0 ELSE n - Len(r)
  <2>1. After(Sent(s), b) = IF n - Len(d) + Len(c) = n THEN 0 ELSE n - Len(d) + Len(c)
    BY <1>5, <1>7 DEF After
  <2>2. n - Len(d) + Len(c) = n - Len(r)
    BY <1>2, <1>3, SMTT(60)
  <2>3. n - Len(r) = n <=> r = <<>>
    BY <1>2, <1>3, <1>6
  <2> QED BY <2>1, <2>2, <2>3
<1>9. StreamInv(s)'
  <2>1. Sums(chan[s], got[s].sum, Sent(s)) /\ s \in load.calls
    BY <1>4, ZenonT(60) DEF ReplyInv, StreamInv
  <2>2. Sums(chan'[s], got[s].sum, IF r = <<>> THEN 0 ELSE n - Len(r))
    <3>1. Sums(Append(chan[s], b), got[s].sum, After(Sent(s), b))
      BY <1>1, <1>3, <1>7, <2>1, SumsAppend
    <3> QED BY <1>4, <1>8, <3>1, ZenonT(60)
  <2>3. r # <<>> => Len(r) <= n
    BY <1>2, <1>3, <1>6, <1>7
  <2>4. Sent(s)' = IF r = <<>> THEN 0 ELSE n - Len(r)
    BY <1>4 DEF Sent
  <2> QED BY <1>4, <2>1, <2>2, <2>3, <2>4, ZenonT(60) DEF StreamInv
<1>10. InFlight(s) \subseteq InFlight(s)'
  <2>1. Entries(Append(chan[s], b)) = Entries(chan[s]) \cup {b}
    BY <1>1, <1>3, EntriesAppend
  <2>2. /\ InFlight(s) = Entries(d) \cup UNION {Entries(x.users) : x \in Entries(chan[s])}
        /\ InFlight(s)' = Entries(r) \cup UNION {Entries(x.users) : x \in Entries(chan[s]) \cup {b}}
    BY <1>4, <2>1 DEF InFlight, d
  <2>3. Entries(c) \subseteq UNION {Entries(x.users) : x \in Entries(chan[s]) \cup {b}}
    BY <1>5
  <2> QED BY <1>2, <2>2, <2>3, ZenonT(60)
<1> QED BY <1>4, <1>9, <1>10, SendFrame

LEMMA FailReplies ==
  ASSUME TypeOK, ReplyInv, NEW s \in Streams, SendNoneFails(s) \/ SendBatchFails(s)
  PROVE  ReplyInv'
<1>1. rd \in [Streams -> Readers] /\ rd[s] \in Readers /\ total \in [Streams -> Nat]
  BY DEF TypeOK, WindowTypeOK
<1>2. CASE SendNoneFails(s)
  <2>1. /\ UNCHANGED <<open, chan, total, got, delivered, load, taken>>
        /\ \A t \in Streams \ {s} : rd'[t] = rd[t]
        /\ rd[s].at = "frozen" /\ rd'[s].at = "gone" /\ rd'[s].data = rd[s].data
    BY <1>1, <1>2 DEF SendNoneFails, history, Readers
  <2> QED BY <2>1, QuietStep, Zenon
<1>3. CASE SendBatchFails(s)
  <2>1. /\ UNCHANGED <<open, chan, got, delivered, load, taken>> /\ ~open[s]
        /\ \A t \in Streams \ {s} : rd'[t] = rd[t] /\ total'[t] = total[t]
        /\ rd[s].at \in {"frozen", "send"} /\ rd'[s].at = "out"
    BY <1>1, <1>3 DEF SendBatchFails, history, Readers
  <2>2. s \in load.calls
    BY <2>1, ZenonT(30) DEF ReplyInv, StreamInv
  <2>3. StreamInv(s)'
    BY <2>1, <2>2 DEF StreamInv
  <2>4. \A t \in Streams \ {s} : StreamInv(t)'
    BY <2>1, StreamFrame, ZenonT(60) DEF ReplyInv
  <2>5. FrozenReachesCp'
    BY <2>1, <2>2, ZenonT(60) DEF FrozenReachesCp
  <2> QED BY <2>3, <2>4, <2>5 DEF ReplyInv
<1> QED BY <1>2, <1>3

LEMMA ReceiveReplies ==
  ASSUME TypeOK, ReplyInv, NEW s \in Streams, Receive(s)
  PROVE  ReplyInv'
<1> DEFINE q == chan[s]
           b == Head(q)
           g == got[s]
           sum == g.sum + Len(b.users)
<1>1. /\ q \in Seq(Batches) /\ q # <<>> /\ b \in Batches /\ g.sum \in Nat
      /\ chan \in [Streams -> Seq(Batches)] /\ got \in [Streams -> [count : Nat, sum : Nat]]
  BY SMTT(60) DEF TypeOK, Receive
<1>2. /\ UNCHANGED <<open, load, taken, rd, total>>
      /\ chan'[s] = Tail(q) /\ got'[s].sum = After(g.sum, b)
      /\ \A t \in Streams \ {s} : chan'[t] = chan[t] /\ got'[t] = got[t]
      /\ delivered' = delivered \cup Entries(b.users)
  BY <1>1 DEF Receive, history, Entries, After
<1>3. Sent(s) = Sent(s)' /\ (open[s] => Sent(s) \in Nat)
  <2>1. rd[s].at = "send" => Len(rd[s].data) <= total[s] /\ Len(rd[s].data) \in Nat
    <3>1. rd[s].data \in Seq(Nat)
      BY ZenonT(60) DEF TypeOK, WindowTypeOK, Readers
    <3>2. rd[s].at = "send" => Len(rd[s].data) <= total[s]
      BY DEF ReplyInv, StreamInv
    <3> QED BY <3>1, <3>2
  <2>2. total[s] \in Nat
    BY DEF TypeOK
  <2>3. UNCHANGED <<rd, total>>
    BY <1>2, Zenon
  <2>4. Sent(s) = Sent(s)'
    BY <2>3 DEF Sent
  <2>5. Sent(s) \in Nat
    BY <2>1, <2>2 DEF Sent
  <2> QED BY <2>4, <2>5
<1> HIDE DEF b, q, g
<1>4. StreamInv(s)'
  <2>1. ASSUME open[s] PROVE Sums(chan'[s], got'[s].sum, Sent(s))
    <3>1. Sums(q, g.sum, Sent(s))
      BY <2>1 DEF ReplyInv, StreamInv, q, g
    <3>2. Sums(Tail(q), After(g.sum, Head(q)), Sent(s))
      BY <1>1, <1>3, <2>1, <3>1, SumsTail
    <3> QED BY <1>2, <3>2, ZenonT(30) DEF b
  <2> QED BY <1>2, <1>3, <2>1, Zenon DEF ReplyInv, StreamInv
<1>5. InFlight(s) \cup delivered \subseteq InFlight(s)' \cup delivered'
  <2>1. Entries(q) = Entries(Tail(q)) \cup {b}
    BY <1>1, EntriesTail DEF b
  <2>2. /\ InFlight(s) = Entries(rd[s].data) \cup
               UNION {Entries(x.users) : x \in Entries(Tail(q)) \cup {b}}
        /\ InFlight(s)' = Entries(rd[s].data) \cup
               UNION {Entries(x.users) : x \in Entries(Tail(q))}
    BY <1>2, <2>1 DEF InFlight, q
  <2> QED BY <1>2, <2>2
<1> QED BY <1>2, <1>4, <1>5, SendFrame, ZenonT(60)

LEMMA DropReplies ==
  ASSUME TypeOK, ReplyInv, NEW s \in Streams, Drop(s)
  PROVE  ReplyInv'
<1>1. /\ UNCHANGED <<load, taken, rd, total, delivered>> /\ open[s] /\ ~open'[s]
      /\ \A t \in Streams \ {s} : open'[t] = open[t] /\ chan'[t] = chan[t] /\ got'[t] = got[t]
  BY DEF Drop, history, TypeOK
<1>2. s \in load.calls
  BY <1>1, Zenon DEF ReplyInv, StreamInv
<1>3. StreamInv(s)'
  BY <1>1, <1>2, Zenon DEF ReplyInv, StreamInv
<1>4. \A t \in Streams \ {s} : StreamInv(t)'
  BY <1>1, StreamFrame, Zenon DEF ReplyInv
<1>5. FrozenReachesCp'
  BY <1>1, <1>2 DEF FrozenReachesCp
<1> QED BY <1>3, <1>4, <1>5, ZenonT(60) DEF ReplyInv

LEMMA ReplyInvStep == TypeOK /\ ReplyInv /\ [Next]_vars => ReplyInv'
<1> SUFFICES ASSUME TypeOK, ReplyInv, [Next]_vars PROVE ReplyInv'
  OBVIOUS
<1>1. CASE AddStep \/ PutStep \/ UNCHANGED vars
  <2>1. UNCHANGED <<rd, open, chan, total, got, delivered, load, taken>>
    BY <1>1 DEF AddStep, PutStep, AddActiveUser, Putting, PutLoad, PutInsert, PutCount,
       history, vars
  <2> QED BY <2>1, StillStep, ZenonT(60)
<1>2. ASSUME NEW s \in Streams, ReplyStep(s) \/ Receive(s) \/ Drop(s)
      PROVE  ReplyInv'
  BY <1>2, SendNoneReplies, SendBatchReplies, FailReplies, ReceiveReplies, DropReplies
     DEF ReplyStep
<1>3. ASSUME NEW s \in Streams, OnRequest(s) \/ RequestsEnd(s) \/ FreezeStep(s)
      PROVE  ReplyInv'
  BY <1>3, FreezeReplies
<1> QED BY <1>1, <1>2, <1>3 DEF Next

(* A reply is complete, and says so: however the events are cut into       *)
(* batches and whichever calls are given up, the batches of a reply add up *)
(* to the count in their headers, and as long as no call is given up all   *)
(* that was frozen is delivered or on its way (cp_target.rs:61-84).        *)
THEOREM RepliesAlwaysComplete == Spec => []RepliesComplete
<1>1. TypeOK /\ ReplyInv => RepliesComplete
  <2> SUFFICES ASSUME TypeOK, ReplyInv, NEW s \in Streams,
                      open[s], rd[s].at = "out", chan[s] = <<>>
               PROVE  got[s].sum = 0
    BY DEF RepliesComplete, RepliesAddUp, ReplyInv
  <2>1. Sums(<<>>, got[s].sum, 0) /\ got[s].sum \in Nat
    BY Zenon DEF ReplyInv, StreamInv, Sent, TypeOK
  <2> QED BY <2>1, SumsEmpty, ZenonT(60)
<1> QED BY <1>1, ReplyInvInit, ReplyInvStep, TypeCorrect, PTL DEF Spec
==============================================================================
