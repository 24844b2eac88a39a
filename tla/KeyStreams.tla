------------------------------ MODULE KeyStreams ------------------------------
(***************************************************************************)
(* How tenant keys get from POST /tenant to the control plane: the queue   *)
(* of backend_discovery.rs and the request streams that take keys from it. *)
(*                                                                         *)
(* Each subscription has a request stream of its own (send_stream), but    *)
(* all of them share one receiver, behind a mutex that a stream holds      *)
(* while it waits for a key.  The stream of a subscription that has ended  *)
(* is dropped by the HTTP/2 connection, some time later: until then it     *)
(* stands in the way of its successor, and a key it takes is lost.         *)
(*                                                                         *)
(* The queue is a set: order and repetition of keys do not matter to a     *)
(* subscription.  Which node a subscription is made at is in Discovery.    *)
(***************************************************************************)
CONSTANTS
  Tenants,  \* tenant keys (namespace and cluster name)
  None      \* "nothing here"

VARIABLES
  recv,        \* the discovery task
  registered,  \* keys of BackendDiscovery.tenants
  queue,       \* the channel of tenant_key_tx and tenant_key_rx
  subs,        \* keys sent on the current subscription
  streams      \* the request streams

keyVars == <<recv, registered, queue, subs, streams>>

(* first: not subscribed yet; up: from the request to the end of the       *)
(* events; retry: the subscription failed; done: it ended without error.   *)
RecvSteps == {"first", "up", "retry", "done", "panicked"}

(* The stream of the current subscription and that of the last one.  The   *)
(* bound of this model: a subscription fails only when the stream of the   *)
(* one before is gone, so there are never two old ones.                    *)
StreamNames == {"cur", "old"}

(* idle: not polled; waits: in lock().await; holds: in recv().await.       *)
StreamSteps == {"gone", "idle", "waits", "holds"}

KeyTypeOK ==
  /\ recv \in RecvSteps
  /\ registered \subseteq Tenants
  /\ queue \subseteq Tenants
  /\ subs \subseteq Tenants
  /\ streams \in [StreamNames -> StreamSteps]

KeyInit ==
  /\ recv = "first"
  /\ registered = {}
  /\ queue = {}
  /\ subs = {}
  /\ streams = [s \in StreamNames |-> "gone"]

----------------------------------------------------------------------------
(* POST /tenant: subscribe_for.                                            *)
AddTenant(t) ==
  /\ queue' = queue \cup {t}
  /\ UNCHANGED <<recv, registered, subs, streams>>

(* send_subscribe: the request goes out with a new stream.  A retry has    *)
(* put the keys of all tenants in the table on the queue again.            *)
Subscribe ==
  /\ recv \in {"first", "retry"}
  /\ recv' = "up"
  /\ queue' = IF recv = "retry" THEN queue \cup registered ELSE queue
  /\ streams' = [streams EXCEPT !["cur"] = "idle"]
  /\ UNCHANGED <<registered, subs>>

(* What became the last subscription's stream is the old one.              *)
Outdated == [cur |-> "gone", old |-> streams["cur"]]

(* The subscription is over: with an error (the request or the stream      *)
(* fails, or an event has no payload), or because the server ends it or    *)
(* the process is told to stop.                                            *)
SubscriptionOver(how) ==
  /\ recv = "up"
  /\ streams["old"] = "gone"
  /\ recv' = how
  /\ subs' = {}
  /\ streams' = Outdated
  /\ UNCHANGED <<registered, queue>>

(* A stream is polled and asks for the receiver.                           *)
PollStream(s) ==
  /\ streams[s] = "idle"
  /\ streams' = [streams EXCEPT ![s] =
                  IF \E o \in StreamNames : streams[o] = "holds"
                    THEN "waits" ELSE "holds"]
  /\ UNCHANGED <<recv, registered, queue, subs>>

(* Stream s lets go of the receiver, which the other may be waiting for.   *)
Released(s, to) ==
  [o \in StreamNames |->
     IF o = s THEN to ELSE IF streams[o] = "waits" THEN "holds" ELSE streams[o]]

(* Mutant: the guard lives on across the yield, and the stream's next      *)
(* lock().await waits for itself.                                          *)
TakeKeyLocked(s, t) ==
  /\ streams[s] = "holds"
  /\ t \in queue
  /\ queue' = queue \ {t}
  /\ subs' = IF s = "cur" THEN subs \cup {t} ELSE subs
  /\ streams' = [streams EXCEPT ![s] = "waits"]
  /\ UNCHANGED <<recv, registered>>

(* It receives a key, unlocks and yields the request.                      *)
TakeKey(s, t) ==
  /\ streams[s] = "holds"
  /\ t \in queue
  /\ queue' = queue \ {t}
  /\ subs' = IF s = "cur" THEN subs \cup {t} ELSE subs
  /\ streams' = Released(s, "idle")
  /\ UNCHANGED <<recv, registered>>

(* External: the connection drops the stream of an ended subscription.     *)
DropOld ==
  /\ streams["old"] # "gone"
  /\ streams' = Released("old", "gone")
  /\ UNCHANGED <<recv, registered, queue, subs>>

StreamStep(s) == PollStream(s) \/ \E t \in Tenants : TakeKey(s, t)

KeyStep ==
  \/ Subscribe
  \/ DropOld
  \/ \E how \in {"retry", "done"} : SubscriptionOver(how)
  \/ \E s \in StreamNames : StreamStep(s)
  \/ \E t \in Tenants : AddTenant(t)

----------------------------------------------------------------------------
(* Once the stream of the last subscription is gone, a key on the queue is *)
(* sent on the current one, however the two took turns at the receiver     *)
(* before, or the subscription ends.                                       *)
KeysAreSent ==
  \A t \in Tenants :
    (recv = "up" /\ streams["old"] = "gone" /\ t \in queue)
      ~> (t \notin queue \/ recv # "up")
==============================================================================
