-------------------------- MODULE ActiveUsersReport --------------------------
(***************************************************************************)
(* The service that reports active users to the control plane              *)
(* (cp/cp_target.rs).  Each call is a stream: for every request on it the  *)
(* window is frozen, and what the freeze returns is sent in batches over a *)
(* bounded channel.  The control plane may give up the call at any time;   *)
(* it then may still cause one more item on the request stream.            *)
(***************************************************************************)
EXTENDS ActivityWindow

CONSTANTS
  ChunkSize,    \* DEFAULT_CHUNK_SIZE, of a batch
  Capacity,     \* and of the channel
  MayDrop       \* may the control plane give up a call?

ASSUME ReportAssumption ==
  /\ ChunkSize \in Nat \ {0}
  /\ Capacity \in Nat \ {0}
  /\ MayDrop \in BOOLEAN

VARIABLES
  open,       \* has the control plane not given up the call?
  chan,       \* the channel of each call: a sequence of batches
  total,      \* header.package_count of the reply that is being sent
  got,        \* what the control plane has read of an unfinished reply
  delivered   \* events the control plane has read (history variable)

vars == <<buf, putter, active, table, count, size, rd,
          taken, again, replaced, raced, met, load,
          open, chan, total, got, delivered>>

(* A batch says how many entries the whole reply has.                      *)
Batches == [count : Nat, users : Seq(Nat)]

TypeOK ==
  /\ WindowTypeOK
  /\ open \in [Streams -> BOOLEAN]
  /\ chan \in [Streams -> Seq(Batches)]
  /\ \A s \in Streams : Len(chan[s]) <= Capacity
  /\ total \in [Streams -> Nat]
  /\ got \in [Streams -> [count : Nat, sum : Nat]]
  /\ delivered \subseteq Nat

Init ==
  /\ WindowInit
  /\ open = [s \in Streams |-> s \in load.calls]
  /\ chan = [s \in Streams |-> <<>>]
  /\ total = [s \in Streams |-> 0]
  /\ got = [s \in Streams |-> [count |-> 0, sum |-> 0]]
  /\ delivered = {}

----------------------------------------------------------------------------
(* The task of a call.                                                     *)

(* stream_request.next() is Some: freeze.                                  *)
OnRequest(s) ==
  /\ FreezeLoad(s)
  /\ UNCHANGED <<open, chan, total, got, delivered>>

RequestsEnd(s) ==
  /\ rd[s].at = "out"
  /\ rd' = [rd EXCEPT ![s].at = "gone"]
  /\ UNCHANGED <<tableVars, history, open, chan, total, got, delivered>>

FreezeStep(s) ==
  /\ Freezing(s)
  /\ UNCHANGED <<open, chan, total, got, delivered>>

(* A send waits for room in the channel.                                   *)
HasRoom(s) == open[s] /\ Len(chan[s]) < Capacity

(* Nobody is active: a header without users.                               *)
SendNone(s) ==
  /\ rd[s].at = "frozen"
  /\ rd[s].data = <<>>
  /\ HasRoom(s)
  /\ chan' = [chan EXCEPT ![s] = Append(@, [count |-> 0, users |-> <<>>])]
  /\ rd' = [rd EXCEPT ![s].at = "out"]
  /\ UNCHANGED <<tableVars, history, open, total, got, delivered>>

(* Its failure ends the task.                                              *)
SendNoneFails(s) ==
  /\ rd[s].at = "frozen"
  /\ rd[s].data = <<>>
  /\ ~open[s]
  /\ rd' = [rd EXCEPT ![s].at = "gone"]
  /\ UNCHANGED <<tableVars, history, open, chan, total, got, delivered>>

(* Mutant: the count is that of the entries that are left.                 *)
PackageCountLeft(s) == Len(rd[s].data)

(* How many entries the reply has: the length of what was frozen, taken    *)
(* when the first batch is sent.                                           *)
PackageCount(s) == IF rd[s].at = "frozen" THEN Len(rd[s].data) ELSE total[s]

(* What is left after a batch, and the batch.                              *)
Rest(data) ==
  IF Len(data) <= ChunkSize THEN <<>>
                            ELSE SubSeq(data, ChunkSize + 1, Len(data))
Chunk(data) ==
  IF Len(data) <= ChunkSize THEN data ELSE SubSeq(data, 1, ChunkSize)

SendBatch(s) ==
  /\ rd[s].at \in {"frozen", "send"}
  /\ rd[s].data # <<>>
  /\ HasRoom(s)
  /\ chan' = [chan EXCEPT ![s] =
                Append(@, [count |-> PackageCount(s),
                           users |-> Chunk(rd[s].data)])]
  /\ total' = [total EXCEPT ![s] =
                 IF Rest(rd[s].data) = <<>> THEN 0 ELSE PackageCount(s)]
  /\ rd' = [rd EXCEPT ![s].data = Rest(@),
                      ![s].at = IF Rest(rd[s].data) = <<>> THEN "out" ELSE "send"]
  /\ UNCHANGED <<tableVars, history, open, got, delivered>>

(* Its failure only leaves the loop over the batches: the task goes on to  *)
(* the next request.                                                       *)
SendBatchFails(s) ==
  /\ rd[s].at \in {"frozen", "send"}
  /\ rd[s].data # <<>>
  /\ ~open[s]
  /\ rd' = [rd EXCEPT ![s].at = "out", ![s].data = <<>>]
  /\ total' = [total EXCEPT ![s] = 0]
  /\ UNCHANGED <<tableVars, history, open, chan, got, delivered>>

----------------------------------------------------------------------------
(* The control plane.                                                      *)

(* It reads a batch: the first of a reply or the next one.                 *)
Receive(s) ==
  LET b == Head(chan[s])
      n == Len(b.users)
      sum == got[s].sum + n
  IN
  /\ chan[s] # <<>>
  /\ chan' = [chan EXCEPT ![s] = Tail(@)]
  /\ got' = [got EXCEPT ![s] =
               IF sum = b.count THEN [count |-> 0, sum |-> 0]
                                ELSE [count |-> b.count, sum |-> sum]]
  /\ delivered' = delivered \cup {b.users[i] : i \in 1..n}
  /\ UNCHANGED <<tableVars, history, rd, open, total>>

(* It gives up the call.                                                   *)
Drop(s) ==
  /\ MayDrop
  /\ open[s]
  /\ open' = [open EXCEPT ![s] = FALSE]
  /\ chan' = [chan EXCEPT ![s] = <<>>]
  /\ got' = [got EXCEPT ![s] = [count |-> 0, sum |-> 0]]
  /\ UNCHANGED <<tableVars, history, rd, total, delivered>>

----------------------------------------------------------------------------
PutStep ==
  /\ Putting
  /\ UNCHANGED <<open, chan, total, got, delivered>>

AddStep ==
  /\ \E u \in Users : AddActiveUser(u)
  /\ UNCHANGED <<open, chan, total, got, delivered>>

ReplyStep(s) ==
  SendNone(s) \/ SendNoneFails(s) \/ SendBatch(s) \/ SendBatchFails(s)

Next ==
  \/ AddStep
  \/ PutStep
  \/ \E s \in Streams :
       \/ OnRequest(s) \/ RequestsEnd(s) \/ FreezeStep(s) \/ ReplyStep(s)
       \/ Receive(s) \/ Drop(s)

Spec == Init /\ [][Next]_vars

(* Tasks that can run are polled; the control plane keeps asking and       *)
(* reading on a call it has not given up.                                  *)
Fairness ==
  /\ WF_vars(PutStep)
  /\ \A s \in Streams :
       /\ WF_vars(FreezeStep(s) \/ ReplyStep(s))
       /\ WF_vars(OnRequest(s))
       /\ WF_vars(Receive(s))

FairSpec == Spec /\ Fairness

----------------------------------------------------------------------------
(* Everything frozen is on its way to the control plane or there.          *)
Entries(q) == {q[i] : i \in 1..Len(q)}

InFlight(s) ==
  Entries(rd[s].data) \cup UNION {Entries(b.users) : b \in Entries(chan[s])}

(* As long as no call is given up, all that was frozen is delivered or on  *)
(* its way, whatever the batch size leaves over (cp_target.rs:61-84).      *)
FrozenReachesCp ==
  (\A s \in load.calls : open[s]) =>
    taken \subseteq delivered \cup UNION {InFlight(s) : s \in Streams}

(* When a reply has been sent and read, the batches add up to the number   *)
(* its header announced.                                                   *)
RepliesAddUp ==
  \A s \in Streams :
    open[s] /\ rd[s].at = "out" /\ chan[s] = <<>> => got[s].sum = 0

(* So a reply is complete, and says so.                                    *)
RepliesComplete == FrozenReachesCp /\ RepliesAddUp

(* An event that was put, did not race a switch and was not overwritten is *)
(* delivered, if the control plane neither ends nor gives up the call.     *)
EventsAreDelivered ==
  \A e \in 1..MaxAdds :
    e \in PutEvents ~> \/ ~OneByOne \/ e \in delivered \cup replaced \cup raced
                       \/ \E s \in load.calls : rd[s].at = "gone" \/ ~open[s]
==============================================================================
