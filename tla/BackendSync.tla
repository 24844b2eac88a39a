----------------------------- MODULE BackendSync -----------------------------
(***************************************************************************)
(* How a change in the database cluster reaches the sessions: the receive  *)
(* loop of backend_discovery.rs, the router's change notification          *)
(* (router/sync_router.rs), the table of connection pools and the routing  *)
(* of a new session (backend_mgr.rs).                                      *)
(*                                                                         *)
(* Three tasks meet here.  The discovery task updates the instance list of *)
(* a tenant and publishes the instance on a watch channel, which keeps     *)
(* only the latest value.  The notification task takes values from the     *)
(* channel and opens or closes pools.  A session's task picks an instance  *)
(* from the list and then looks for its pool.                              *)
(*                                                                         *)
(* A list is a set here: the balancer picks at random, so its order does   *)
(* not matter.  The location of an instance never changes and is left out. *)
(***************************************************************************)
EXTENDS KeyStreams, Naturals

CONSTANTS
  Addrs,      \* addresses of backend instances
  Statuses,   \* the service statuses the control plane reports
  Sessions,   \* client sessions
  Registers   \* does anything call unsubscribed_tenants?

AllStatuses == {"UnKnowStatus", "NotReady", "Ready", "Offline"}

(* BackendInstance: equality and hash include the status.                  *)
Instances == [tenant : Tenants, addr : Addrs, status : Statuses]

ASSUME SyncAssumption ==
  /\ Statuses \subseteq AllStatuses
  /\ Registers \in BOOLEAN
  /\ None \notin Instances \cup Tenants \cup Statuses

VARIABLES
  list,    \* the instance list of each tenant in `registered'
  watch,   \* the watch channel: its value, and whether it is unseen
  taken,   \* the value the notification task is working on
  pools,   \* keys of BackendMgr.be_conn_pool
  sess,    \* the state of each session
  latest   \* what the control plane last said of each instance since the
           \* tenant was last registered (history variable)

routeVars == <<list, watch, taken, pools, sess, latest>>
syncVars == <<recv, registered, queue, subs, streams, list, watch, taken, pools, sess, latest>>

(* A session is out, has selected an instance, or was given its pool.      *)
SessStates ==
  [at : {"out"}, tenant : {None}, inst : {None}]
    \cup [at : {"selected", "routed"}, tenant : Tenants, inst : Instances]

Out == [at |-> "out", tenant |-> None, inst |-> None]

SyncTypeOK ==
  /\ KeyTypeOK
  /\ list \in [Tenants -> SUBSET Instances]
  /\ watch \in [value : Instances \cup {None}, unseen : BOOLEAN]
  /\ taken \in Instances \cup {None}
  /\ pools \subseteq Instances
  /\ sess \in [Sessions -> SessStates]
  /\ latest \in [Tenants -> [Addrs -> Statuses \cup {None}]]

SyncInit ==
  /\ KeyInit
  /\ list = [t \in Tenants |-> {}]
  /\ watch = [value |-> None, unseen |-> FALSE]
  /\ taken = None
  /\ pools = {}
  /\ sess = [s \in Sessions |-> Out]
  /\ latest = [t \in Tenants |-> [a \in Addrs |-> None]]

----------------------------------------------------------------------------
(* The discovery task.                                                     *)

(* unsubscribed_tenants: the tenant gets a new, empty list.  The function  *)
(* is public and nothing in the repository calls it: with Registers =      *)
(* FALSE the model is the program as it stands.                            *)
RegisterTenant(t) ==
  /\ Registers
  /\ registered' = registered \cup {t}
  /\ list' = [list EXCEPT ![t] = {}]
  /\ latest' = [latest EXCEPT ![t] = [a \in Addrs |-> None]]
  /\ UNCHANGED <<recv, queue, subs, streams, watch, taken, pools, sess>>

(* The entries of the address go, the new one is added.                    *)
Updated(old, inst) == {e \in old : e.addr # inst.addr} \cup {inst}

(* recv_stream, ChangeEvent: the list is updated and the instance          *)
(* published, in one go while the list is locked.  A value nobody has seen *)
(* yet is overwritten.  Events only come when something is subscribed.     *)
ChangeEvent(t, a, st) ==
  LET inst == [tenant |-> t, addr |-> a, status |-> st] IN
  /\ recv = "up" /\ subs # {}
  /\ t \in registered
  /\ list' = [list EXCEPT ![t] = Updated(@, inst)]
  /\ watch' = [value |-> inst, unseen |-> TRUE]
  /\ latest' = [latest EXCEPT ![t][a] = st]
  /\ UNCHANGED <<recv, registered, queue, subs, streams, taken, pools, sess>>

(* tenants.get(..).unwrap() on a tenant that is not in the table: the task *)
(* panics, and what the event said is lost.                                *)
UnknownTenantPanics(t, a, st) ==
  /\ recv = "up" /\ subs # {}
  /\ streams["old"] = "gone"
  /\ t \notin registered
  /\ recv' = "panicked"
  /\ subs' = {}
  /\ streams' = Outdated
  /\ latest' = [latest EXCEPT ![t][a] = st]
  /\ UNCHANGED <<registered, queue, list, watch, taken, pools, sess>>

----------------------------------------------------------------------------
(* The notification task: status_change_notify with init_backend_pool.     *)

(* changed().await, borrow_and_update.                                     *)
TakeChange ==
  /\ taken = None
  /\ watch.unseen
  /\ taken' = watch.value
  /\ watch' = [watch EXCEPT !.unseen = FALSE]
  /\ UNCHANGED <<keyVars, list, pools, sess, latest>>

(* Mutant: the channel is marked as seen after the pool is set up.         *)
InitBackendPoolMarks ==
  /\ taken # None
  /\ pools' = CASE taken.status = "Ready"   -> pools \cup {taken}
                [] taken.status = "Offline" -> pools \ {taken}
                [] OTHER -> pools
  /\ taken' = None
  /\ watch' = [watch EXCEPT !.unseen = FALSE]
  /\ UNCHANGED <<keyVars, list, sess, latest>>

(* init_backend_pool: a Ready instance gets a new pool, the pool under the *)
(* key of an Offline instance is closed and removed, anything else is      *)
(* ignored.  A second Ready replaces the pool under the key; the old one   *)
(* lives on in the sessions that have it, and its key is the same.         *)
InitBackendPool ==
  /\ taken # None
  /\ pools' = CASE taken.status = "Ready"   -> pools \cup {taken}
                [] taken.status = "Offline" -> pools \ {taken}
                [] OTHER -> pools
  /\ taken' = None
  /\ UNCHANGED <<keyVars, list, watch, sess, latest>>

----------------------------------------------------------------------------
(* A session: connect_to_backend.                                          *)

(* SyncRouter::selector: any entry of the tenant's list.  With --balance   *)
(* p2c and two entries or more the arm is unreachable!(): the session's    *)
(* task ends without a backend, as it does when nothing is found.          *)
Selector(s, t) ==
  /\ sess[s].at = "out"
  /\ t \in registered
  /\ \E inst \in list[t] :
       sess' = [sess EXCEPT ![s] =
                 [at |-> "selected", tenant |-> t, inst |-> inst]]
  /\ UNCHANGED <<keyVars, list, watch, taken, pools, latest>>

(* Mutant: the pool is looked up by its address.                           *)
FoundByAddr(inst) == \E k \in pools : k.tenant = inst.tenant /\ k.addr = inst.addr

(* be_conn_pool.get(&backend_addr).                                        *)
Found(inst) == inst \in pools

ConnectToBackend(s) ==
  /\ sess[s].at = "selected"
  /\ Found(sess[s].inst)
  /\ sess' = [sess EXCEPT ![s].at = "routed"]
  /\ UNCHANGED <<keyVars, list, watch, taken, pools, latest>>

(* "no backend_addr found": the session ends.                              *)
NotConnected(s) ==
  /\ sess[s].at = "selected"
  /\ ~Found(sess[s].inst)
  /\ sess' = [sess EXCEPT ![s] = Out]
  /\ UNCHANGED <<keyVars, list, watch, taken, pools, latest>>

(* A routed session ends.                                                  *)
SessionEnds(s) ==
  /\ sess[s].at = "routed"
  /\ sess' = [sess EXCEPT ![s] = Out]
  /\ UNCHANGED <<keyVars, list, watch, taken, pools, latest>>

(* BackendMgr::tenant_status: the status in the key of some pool of the    *)
(* tenant.                                                                 *)
TenantStatus(t) ==
  IF \E k \in pools : k.tenant = t
    THEN {k.status : k \in {p \in pools : p.tenant = t}}
    ELSE {"UnKnowStatus"}

----------------------------------------------------------------------------
SessionStep(s) == ConnectToBackend(s) \/ NotConnected(s)

SyncNext ==
  \/ KeyStep /\ UNCHANGED routeVars
  \/ \E t \in Tenants : RegisterTenant(t)
  \/ \E t \in Tenants, a \in Addrs, st \in Statuses :
       ChangeEvent(t, a, st) \/ UnknownTenantPanics(t, a, st)
  \/ TakeChange
  \/ InitBackendPool
  \/ \E s \in Sessions :
       (\E t \in Tenants : Selector(s, t)) \/ SessionStep(s) \/ SessionEnds(s)

SyncSpec == SyncInit /\ [][SyncNext]_syncVars

(* The runtime keeps polling the notification task and the sessions, the   *)
(* connection polls the request stream it carries and takes what it        *)
(* yields.                                                                 *)
SyncFairness ==
  /\ WF_syncVars(StreamStep("cur") /\ UNCHANGED routeVars)
  /\ WF_syncVars(TakeChange)
  /\ WF_syncVars(InitBackendPool)
  /\ \A s \in Sessions : WF_syncVars(SessionStep(s))

FairSyncSpec == SyncSpec /\ SyncFairness

----------------------------------------------------------------------------
(* Properties.                                                             *)

(* Each tenant's list says of each address what the control plane said     *)
(* last, and lists nothing else.  A comment on the router                  *)
(* (router/mod.rs:126-128) promises that it maintains the list of          *)
(* backends and updates it "when their topology changes".                  *)
ListFollowsTopology ==
  \A t \in Tenants :
    list[t] = {i \in Instances :
                 /\ i.tenant = t
                 /\ latest[t][i.addr] = i.status}

(* The list is right as long as the discovery task has not met a tenant    *)
(* that is not in its table: events for the same address replace each      *)
(* other (backend_discovery.rs:198-199).                                   *)
ListIsLatest == recv # "panicked" => ListFollowsTopology

(* A session is only given the pool of an instance of its own tenant that  *)
(* was Ready in the list when the router chose it, although the choice and *)
(* the look-up are separate steps and pools of instances that went away    *)
(* are never removed (the key of an Offline instance is not the key its    *)
(* pool was stored under).                                                 *)
RoutedToReady ==
  \A s \in Sessions :
    sess[s].at = "routed" =>
      sess[s].inst.tenant = sess[s].tenant /\ sess[s].inst.status = "Ready"

(* The notification task never loses the last word: what the channel holds *)
(* is seen to, or has been overwritten.                                    *)
LastChangeApplied ==
  \A i \in Instances :
    (watch.value = i /\ i.status = "Ready") ~> (i \in pools \/ watch.value # i)
==============================================================================
