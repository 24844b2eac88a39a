------------------------------ MODULE Discovery ------------------------------
(***************************************************************************)
(* The discovery task (discover_with_retry in backend_discovery.rs) with   *)
(* the resolver it depends on.  The task waits for the first refresh, and  *)
(* then subscribes at one control-plane node after the other, until a      *)
(* subscription ends without an error.  What goes over a subscription is   *)
(* in KeyStreams (to the node) and BackendSync (from it).                  *)
(***************************************************************************)
EXTENDS CpResolver, FiniteSets

CONSTANTS
  Workers,  \* worker threads of the runtime
  NoNode    \* "no control-plane node"

ASSUME DiscoveryAssumption ==
  /\ IsFiniteSet(Cps)
  /\ Workers \in Nat \ {0}
  /\ NoNode \notin Cps

VARIABLES
  disc,       \* where the task is
  curr,       \* the node it is subscribed at, or tried last
  unread,     \* the entries get_cp_backend has still to look at
  avail,      \* the ones it found available, while it runs
  pickIndex,  \* CpResolver.pick_index
  bad         \* nodes that failed and got no new channel since (history)

discVars == <<disc, curr, unread, avail, pickIndex, bad>>
cpVars == <<members, resolver, fetched, todo, opened, cp, started, shutdown,
            disc, curr, unread, avail, pickIndex, bad>>

(* wait: blocked until the first refresh; collect, pick: in                *)
(* get_cp_backend; subscribe: the request is out; stream: receives events; *)
(* failed: the subscription ended with an error.                           *)
DiscSteps == {"wait", "collect", "pick", "subscribe", "stream", "failed",
              "panicked", "done"}

DiscTypeOK ==
  /\ ResolverTypeOK
  /\ disc \in DiscSteps
  /\ curr \in Cps \cup {NoNode}
  /\ unread \subseteq Cps
  /\ avail \subseteq Cps
  /\ pickIndex \in 0..Cardinality(Cps)
  /\ bad \subseteq Cps

DiscInit ==
  /\ ResolverInit
  /\ disc = "wait"
  /\ curr = NoNode
  /\ unread = {}
  /\ avail = {}
  /\ pickIndex = 0
  /\ bad = {}

----------------------------------------------------------------------------
(* wait_for_backends_ready: a blocking wait on a condition variable.       *)
BackendsReady ==
  /\ disc = "wait"
  /\ started
  /\ disc' = "collect"
  /\ unread' = Cps
  /\ UNCHANGED <<resolverVars, curr, avail, pickIndex, bad>>

(* get_cp_backend: the entries are read one after the other, in any order  *)
(* and with awaits in between, and the available ones are collected.       *)
Collect(n) ==
  /\ disc = "collect"
  /\ n \in unread
  /\ unread' = unread \ {n}
  /\ avail' = IF cp[n].status = "Available" THEN avail \cup {n} ELSE avail
  /\ UNCHANGED <<resolverVars, disc, curr, pickIndex, bad>>

Collected ==
  /\ disc = "collect"
  /\ unread = {}
  /\ disc' = "pick"
  /\ UNCHANGED <<resolverVars, curr, unread, avail, pickIndex, bad>>

(* Mutant: off by one at the end of the list.                              *)
NextIndexOff(p, len) == IF p + 1 > len THEN 0 ELSE p + 1

(* The index moves on, ...                                                 *)
NextIndex(p, len) == IF p + 1 >= len THEN 0 ELSE p + 1

(* ... the counter is set back when the index is, ...                      *)
StoredIndex(p, len) == NextIndex(p, len)

(* ... the entry at the index is taken, and the collected list is gone.    *)
(* The table is a hash map: any entry can be at any index.                 *)
Pick(n) ==
  /\ disc = "pick"
  /\ n \in avail
  /\ NextIndex(pickIndex, Cardinality(avail)) < Cardinality(avail)
  /\ pickIndex' = StoredIndex(pickIndex, Cardinality(avail))
  /\ curr' = n
  /\ avail' = {}
  /\ disc' = "subscribe"
  /\ UNCHANGED <<resolverVars, unread, bad>>

(* available_arc.get(index).unwrap() on an index that is not there.        *)
PickPanics ==
  /\ disc = "pick"
  /\ NextIndex(pickIndex, Cardinality(avail)) >= Cardinality(avail)
  /\ pickIndex' = StoredIndex(pickIndex, Cardinality(avail))
  /\ disc' = "panicked"
  /\ UNCHANGED <<resolverVars, curr, unread, avail, bad>>

(* send_subscribe: the response arrives, the stream is open.               *)
SubscribeOk ==
  /\ disc = "subscribe"
  /\ disc' = "stream"
  /\ UNCHANGED <<resolverVars, curr, unread, avail, pickIndex, bad>>

(* The request or the stream fails, or an event has no payload.            *)
SubscriptionFails ==
  /\ disc \in {"subscribe", "stream"}
  /\ disc' = "failed"
  /\ bad' = bad \cup {curr}
  /\ UNCHANGED <<resolverVars, curr, unread, avail, pickIndex>>

(* Mutant: the node is not marked.                                         *)
MarkedNot == cp

(* mark_backend_unavailable, if the node is still in the table.            *)
Marked == IF Listed(curr) THEN [cp EXCEPT ![curr].status = "Unavailable"] ELSE cp

Retry ==
  /\ disc = "failed"
  /\ cp' = Marked
  /\ disc' = "collect"
  /\ unread' = Cps
  /\ UNCHANGED <<members, resolver, fetched, todo, opened, started, shutdown,
                 curr, avail, pickIndex, bad>>

(* The server ends the stream, or the process is told to stop: the task is *)
(* over.                                                                   *)
StreamEnds ==
  /\ disc = "stream"
  /\ disc' = "done"
  /\ UNCHANGED <<resolverVars, curr, unread, avail, pickIndex, bad>>

----------------------------------------------------------------------------
(* The blocking wait keeps one worker thread busy: with a single one, the  *)
(* resolver's task cannot run.                                             *)
WorkerFree == disc # "wait" \/ Workers > 1

(* A step of the resolver.  A node it takes a new channel to is no longer  *)
(* a bad one.                                                              *)
ResolverStep ==
  /\ WorkerFree
  /\ ResolverWorks \/ FetchFails \/ ResolverStops
  /\ bad' = {n \in bad : ~(cp'[n].status = "Available" /\ cp'[n] # cp[n])}
  /\ UNCHANGED <<disc, curr, unread, avail, pickIndex>>

DiscoveryStep ==
  \/ BackendsReady \/ Collected \/ PickPanics \/ Retry
  \/ \E n \in Cps : Collect(n) \/ Pick(n)

Answer == SubscribeOk \/ SubscriptionFails

DiscNext ==
  \/ World /\ UNCHANGED discVars
  \/ ResolverStep
  \/ DiscoveryStep
  \/ Answer
  \/ StreamEnds

DiscSpec == DiscInit /\ [][DiscNext]_cpVars

(* The runtime polls both tasks and the ticker ticks; a control-plane node *)
(* that is asked for a subscription answers or is found to be gone, and    *)
(* one that is tried again and again while it runs is reached some time.   *)
DiscFairness ==
  /\ WF_cpVars(WorkerFree /\ ResolverWorks /\ ResolverStep)
  /\ WF_cpVars(DiscoveryStep)
  /\ WF_cpVars(disc = "subscribe" /\ Answer)
  /\ \A n \in Cps : SF_cpVars(Connected(n) /\ ResolverStep)

DiscFairSpec == DiscSpec /\ DiscFairness

----------------------------------------------------------------------------
(* get_cp_backend only panics when no node is available: the index it      *)
(* computes is in range whatever the size of the table was the last time   *)
(* it was computed.                                                        *)
IndexInRange == disc = "panicked" => avail = {}

(* A node whose subscription failed is not chosen again before a refresh   *)
(* has put a new channel in its entry, also when the failure comes in the  *)
(* middle of a refresh.                                                    *)
FailedNotPicked == avail \cap bad = {}

(* If in the end some control-plane node runs, the process is not told to  *)
(* stop and no request for the member list fails (which ends the           *)
(* refreshing task), the discovery task gets past its wait.                *)
DiscoveryStarts ==
  <>[](~shutdown /\ resolver # "dead" /\ \E n \in Cps : Up(n)) => <>(disc # "wait")
==============================================================================
