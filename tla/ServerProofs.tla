----------------------------- MODULE ServerProofs -----------------------------
(***************************************************************************)
(* Proofs about the ways to a server.  BackendSync, for any sets of        *)
(* tenants, addresses, statuses and sessions: the lists are the latest,    *)
(* and a session is only routed to an instance that was Ready.  The static *)
(* proxy, for any clients, handshakes and commands: it takes commands only *)
(* from clients whose login was accepted.  Discovery with the resolver,    *)
(* for any number of control-plane nodes and generations, with every       *)
(* failure the model has: no stale channel, no failed node picked.         *)
(***************************************************************************)
EXTENDS BackendSync, StaticProxy, Discovery, FiniteSetTheorems, TLAPS

----------------------------------------------------------------------------
(* The discovery of a tenant's servers at the control plane.               *)

(* The resolver's part of the inductive invariant: a node that is up has a *)
(* generation, the member list is not ahead of the nodes, what is in the   *)
(* table or still to be connected to is in the member list, and a channel  *)
(* that is not in the table yet is as new as the member list.              *)
ResolverInv ==
  /\ \A n \in Cps : Up(n) => members[n].gen > 0
  /\ \A n \in Cps : fetched[n] <= members[n].gen
  /\ \A n \in todo : fetched[n] # 0
  /\ \A n \in Cps : opened[n] # 0 =>
       resolver = "update" /\ n \in todo /\ opened[n] >= fetched[n]
  /\ \A n \in Cps : Listed(n) => fetched[n] # 0
  /\ ChannelIsFresh

(* A task that has picked a node knows which.                              *)
DiscTypeInv ==
  /\ DiscTypeOK
  /\ disc \in {"subscribe", "stream", "failed"} => curr \in Cps

(* The discovery task's part: a bad node is not available in the table,    *)
(* but for the one whose failure is being handled, and nothing is          *)
(* collected while a subscription is up.                                   *)
DiscInv ==
  /\ disc \in {"wait", "subscribe", "stream", "failed"} => avail = {}
  /\ \A n \in bad : cp[n].status = "Available" => disc = "failed" /\ n = curr
  /\ FailedNotPicked
  /\ IndexInRange

----------------------------------------------------------------------------
LEMMA DiscTypeInit == DiscInit => DiscTypeInv
<1> SUFFICES ASSUME DiscInit
             PROVE  DiscTypeInv
  OBVIOUS
<1>1. 0 \in 0..Cardinality(Cps)
  BY DiscoveryAssumption, FS_CardinalityType
<1>2. ResolverTypeOK
  <2>1. 0 \in Generations
    BY CpAssumption DEF Generations
  <2>2. Absent \in Entries
    BY <2>1 DEF Absent, Entries
  <2> QED
    BY <2>1, <2>2, ZenonT(60) DEF DiscInit, ResolverInit, ResolverTypeOK
<1> QED
  BY <1>1, <1>2 DEF DiscInit, DiscTypeInv, DiscTypeOK, DiscSteps

(* What a step of the refreshing task preserves.                           *)
LEMMA ResolverTypeStep ==
  ASSUME ResolverTypeOK,
         ResolverWorks \/ FetchFails \/ ResolverStops \/ World
  PROVE  ResolverTypeOK'
<1> USE CpAssumption DEF ResolverTypeOK, Generations, Entries, Absent
<1>1. CASE FetchMembers
  <2>1. fetched' \in [Cps -> Generations]
    BY <1>1 DEF FetchMembers, Up
  <2>2. cp' \in [Cps -> Entries]
    BY <1>1, <2>1 DEF FetchMembers, DropUnlisted
  <2> QED
    BY <1>1, <2>1, <2>2 DEF FetchMembers
<1>2. CASE Refreshed
  BY <1>2 DEF Refreshed, Listed
<1>3. ASSUME NEW n \in Cps, Connected(n)
      PROVE  ResolverTypeOK'
  BY <1>3 DEF Connected
<1>8. ASSUME NEW n \in Cps, Merge(n)
      PROVE  ResolverTypeOK'
  <2>1. Merged(cp[n], fetched[n], opened[n]) \in Entries
    BY DEF Merged
  <2> QED
    BY <1>8, <2>1 DEF Merge
<1>4. ASSUME NEW n \in Cps, ConnectFailed(n)
      PROVE  ResolverTypeOK'
  BY <1>4 DEF ConnectFailed
<1>5. CASE FetchFails \/ ResolverStops \/ ShutDown
  BY <1>5, Zenon DEF FetchFails, ResolverStops, ShutDown
<1>6. ASSUME NEW n \in Cps, MemberLeaves(n)
      PROVE  ResolverTypeOK'
  BY <1>6, ZenonT(60) DEF MemberLeaves, Up
<1>7. ASSUME NEW n \in Cps, MemberStarts(n)
      PROVE  ResolverTypeOK'
  <2>1. [up |-> TRUE, gen |-> members[n].gen + 1]
          \in [up : BOOLEAN, gen : Generations]
    BY <1>7 DEF MemberStarts
  <2> QED
    BY <1>7, <2>1 DEF MemberStarts
<1> QED
  BY <1>1, <1>2, <1>3, <1>4, <1>5, <1>6, <1>7, <1>8 DEF ResolverWorks, World

(* The index stays within the number of nodes.                             *)
LEMMA IndexBound ==
  ASSUME NEW p \in 0..Cardinality(Cps), avail \subseteq Cps
  PROVE  /\ Cardinality(avail) \in Nat
         /\ Cardinality(Cps) \in Nat
         /\ NextIndex(p, Cardinality(avail)) \in 0..Cardinality(Cps)
         /\ avail # {} =>
              NextIndex(p, Cardinality(avail)) < Cardinality(avail)
<1>1. IsFiniteSet(avail) /\ Cardinality(avail) <= Cardinality(Cps)
  BY DiscoveryAssumption, FS_Subset
<1>2. Cardinality(avail) \in Nat /\ Cardinality(Cps) \in Nat
  BY <1>1, DiscoveryAssumption, FS_CardinalityType
<1>3. avail # {} => Cardinality(avail) # 0
  BY <1>1, FS_EmptySet
<1> QED
  BY <1>1, <1>2, <1>3 DEF NextIndex

LEMMA DiscTypeStep == DiscTypeInv /\ [DiscNext]_cpVars => DiscTypeInv'
<1> SUFFICES ASSUME DiscTypeInv, [DiscNext]_cpVars
             PROVE  DiscTypeInv'
  OBVIOUS
<1>1. CASE World /\ UNCHANGED discVars
  BY <1>1, ResolverTypeStep DEF DiscTypeInv, DiscTypeOK, discVars
<1>2. CASE ResolverStep
  <2>1. ResolverTypeOK'
    BY <1>2, ResolverTypeStep DEF ResolverStep, DiscTypeInv, DiscTypeOK
  <2> QED
    BY <1>2, <2>1 DEF ResolverStep, DiscTypeInv, DiscTypeOK
<1>3. CASE BackendsReady \/ Collected \/ SubscribeOk \/ SubscriptionFails
           \/ StreamEnds \/ (\E n \in Cps : Collect(n))
  <2>1. ResolverTypeOK' /\ curr' = curr /\ pickIndex' = pickIndex
    BY <1>3 DEF BackendsReady, Collect, Collected, SubscribeOk,
       SubscriptionFails, StreamEnds, resolverVars, DiscTypeInv, DiscTypeOK,
       ResolverTypeOK
  <2>2. /\ disc' \in DiscSteps
        /\ disc' \in {"subscribe", "stream", "failed"} => curr \in Cps
    BY <1>3 DEF BackendsReady, Collect, Collected, SubscribeOk,
       SubscriptionFails, StreamEnds, DiscTypeInv, DiscTypeOK, DiscSteps
  <2>3. avail' \subseteq Cps /\ unread' \subseteq Cps
    BY <1>3 DEF BackendsReady, Collect, Collected, SubscribeOk,
       SubscriptionFails, StreamEnds, DiscTypeInv, DiscTypeOK
  <2>4. bad' \subseteq Cps
    BY <1>3 DEF BackendsReady, Collect, Collected, SubscribeOk,
       SubscriptionFails, StreamEnds, DiscTypeInv, DiscTypeOK
  <2> QED
    BY <2>1, <2>2, <2>3, <2>4, ZenonT(60) DEF DiscTypeInv, DiscTypeOK
<1>4. ASSUME NEW n \in Cps, Pick(n)
      PROVE  DiscTypeInv'
  <2>1. pickIndex' \in 0..Cardinality(Cps)
    BY <1>4, IndexBound DEF Pick, StoredIndex, DiscTypeInv, DiscTypeOK
  <2> QED
    BY <1>4, <2>1 DEF Pick, resolverVars, DiscTypeInv, DiscTypeOK, ResolverTypeOK,
       DiscSteps
<1>5. CASE PickPanics
  <2>1. pickIndex' \in 0..Cardinality(Cps)
    BY <1>5, IndexBound DEF PickPanics, StoredIndex, DiscTypeInv, DiscTypeOK
  <2> QED
    BY <1>5, <2>1 DEF PickPanics, resolverVars, DiscTypeInv, DiscTypeOK, ResolverTypeOK,
       DiscSteps
<1>6. CASE Retry
  <2>1. curr \in Cps
    BY <1>6 DEF Retry, DiscTypeInv
  <2>2. [cp[curr] EXCEPT !.status = "Unavailable"] \in Entries
    BY <2>1 DEF DiscTypeInv, DiscTypeOK, ResolverTypeOK, Entries
  <2>3. cp' \in [Cps -> Entries]
    BY <1>6, <2>1, <2>2 DEF Retry, Marked, DiscTypeInv, DiscTypeOK, ResolverTypeOK
  <2> QED
    BY <1>6, <2>3 DEF Retry, DiscTypeInv, DiscTypeOK, ResolverTypeOK, DiscSteps
<1>7. CASE UNCHANGED cpVars
  BY <1>7 DEF cpVars, DiscTypeInv, DiscTypeOK, ResolverTypeOK
<1> QED
  BY <1>1, <1>2, <1>3, <1>4, <1>5, <1>6, <1>7 DEF DiscNext, DiscoveryStep, Answer

(* The types of the resolver and of the discovery task.                    *)
THEOREM DiscTypeInvariant == DiscSpec => []DiscTypeInv
  BY DiscTypeInit, DiscTypeStep, PTL DEF DiscSpec

(* Every variable keeps its type; in particular the index stays within the *)
(* number of nodes.                                                        *)
THEOREM DiscTypeCorrect == DiscSpec => []DiscTypeOK
  BY DiscTypeInvariant, PTL DEF DiscTypeInv

----------------------------------------------------------------------------
LEMMA ResolverInvInit == DiscInit => ResolverInv
  BY CpAssumption DEF DiscInit, ResolverInit, ResolverInv, Up, Listed, Absent,
     ChannelIsFresh

(* The table only changes as the refreshing task and Retry change it.      *)
LEMMA ResolverInvStep == DiscTypeInv /\ ResolverInv /\ [DiscNext]_cpVars => ResolverInv'
<1> SUFFICES ASSUME DiscTypeInv, ResolverInv, [DiscNext]_cpVars
             PROVE  ResolverInv'
  OBVIOUS
<1> USE CpAssumption DEF ResolverInv, ChannelIsFresh, Up, Listed
<1>0. ResolverTypeOK
  BY ZenonT(60) DEF DiscTypeInv, DiscTypeOK
<1>1. CASE FetchMembers
  <2>1. \A n \in Cps : fetched'[n] = IF members[n].up THEN members[n].gen ELSE 0
    BY <1>1 DEF FetchMembers
  <2>2. \A n \in Cps : cp'[n] = IF fetched'[n] = 0 THEN Absent ELSE cp[n]
    BY <1>1, <2>1 DEF FetchMembers, DropUnlisted
  <2>3. \A n \in Cps : members[n].gen \in Nat
    BY <1>0, SMTT(60) DEF ResolverTypeOK, Generations
  <2> QED
    BY <1>1, <2>1, <2>2, <2>3 DEF FetchMembers, Absent
<1>2. ASSUME NEW n \in Cps, Connected(n)
      PROVE  ResolverInv'
  <2>1. /\ opened'[n] = members[n].gen
        /\ \A m \in Cps : m # n => opened'[m] = opened[m]
    BY <1>2, <1>0 DEF Connected, ResolverTypeOK
  <2> QED
    BY <1>2, <2>1 DEF Connected
<1>8. ASSUME NEW n \in Cps, Merge(n)
      PROVE  ResolverInv'
  <2>1. /\ cp'[n] = Merged(cp[n], fetched[n], opened[n])
        /\ \A m \in Cps : m # n => cp'[m] = cp[m]
    BY <1>8, <1>0 DEF Merge, ResolverTypeOK
  <2>2. opened'[n] = 0 /\ \A m \in Cps : m # n => opened'[m] = opened[m]
    BY <1>8, <1>0 DEF Merge, ResolverTypeOK
  <2>3. cp'[n].chan >= cp'[n].gen
    BY <1>8, <2>1 DEF Merge, Merged
  <2>4. fetched[n] # 0
    BY <1>8 DEF Merge
  <2> QED
    BY <1>8, <2>1, <2>2, <2>3, <2>4 DEF Merge
<1>3. ASSUME NEW n \in Cps, ConnectFailed(n)
      PROVE  ResolverInv'
  <2>1. cp'[n] = Absent /\ \A m \in Cps : m # n => cp'[m] = cp[m]
    BY <1>3, <1>0 DEF ConnectFailed, ResolverTypeOK
  <2> QED
    BY <1>3, <2>1 DEF ConnectFailed, Absent, NoneOpened
<1>4. ASSUME NEW n \in Cps, MemberLeaves(n)
      PROVE  ResolverInv'
  <2>1. /\ members'[n].up = FALSE /\ members'[n].gen = members[n].gen
        /\ \A m \in Cps : m # n => members'[m] = members[m]
    BY <1>4, <1>0 DEF MemberLeaves, ResolverTypeOK
  <2> QED
    BY <1>4, <2>1 DEF MemberLeaves
<1>5. ASSUME NEW n \in Cps, MemberStarts(n)
      PROVE  ResolverInv'
  <2>1. /\ members'[n].gen = members[n].gen + 1
        /\ \A m \in Cps : m # n => members'[m] = members[m]
    BY <1>5, <1>0 DEF MemberStarts, ResolverTypeOK
  <2>2. members[n].gen \in Nat /\ fetched[n] \in Nat
    BY <1>0, SMTT(60) DEF ResolverTypeOK, Generations
  <2>3. fetched[n] <= members'[n].gen /\ members'[n].gen > 0
    BY <2>1, <2>2
  <2>4. UNCHANGED <<resolver, fetched, todo, opened, cp>>
    BY <1>5, ZenonT(60) DEF MemberStarts
  <2> QED
    BY <2>1, <2>3, <2>4
<1>6. CASE Retry
  <2>1. \A m \in Cps :
          /\ cp'[m].chan = cp[m].chan /\ cp'[m].gen = cp[m].gen
          /\ cp'[m].status # "none" => cp[m].status # "none"
    BY <1>6, <1>0 DEF Retry, Marked, ResolverTypeOK, Entries
  <2>2. UNCHANGED <<members, resolver, fetched, todo, opened>>
    BY <1>6 DEF Retry
  <2>3. \A m \in Cps : cp'[m].chan >= cp'[m].gen
    BY <2>1
  <2> QED
    BY <2>1, <2>2, <2>3
<1>7. CASE UNCHANGED <<members, resolver, fetched, todo, opened, cp>>
  BY <1>7
<1>9. CASE FetchFails \/ ResolverStops \/ Refreshed
  BY <1>9 DEF FetchFails, ResolverStops, Refreshed
<1> QED
  BY <1>1, <1>2, <1>3, <1>4, <1>5, <1>6, <1>7, <1>8, <1>9, Zenon
     DEF DiscNext, World, ResolverStep, ResolverWorks, ShutDown, DiscoveryStep,
     Answer, BackendsReady, Collect, Collected, Pick, PickPanics, SubscribeOk,
     SubscriptionFails, StreamEnds, resolverVars, cpVars

(* The invariant of the table of nodes: between the steps of a refresh the *)
(* entries, the last list and the generations agree.                       *)
THEOREM ResolverInvariant == DiscSpec => []ResolverInv
  BY ResolverInvInit, ResolverInvStep, DiscTypeInvariant, PTL DEF DiscSpec

(* The table of control-plane nodes never pairs a generation with the      *)
(* channel of an older process.                                            *)
THEOREM ChannelsAreFresh == DiscSpec => []ChannelIsFresh
  BY ResolverInvariant, PTL DEF ResolverInv

(* Between two refreshes it lists nodes of the last member list only.      *)
THEOREM TableFollowsList == DiscSpec => []TableIsListed
<1>1. ResolverInv => TableIsListed
  BY DEF ResolverInv, TableIsListed
<1> QED
  BY <1>1, ResolverInvariant, PTL

----------------------------------------------------------------------------
LEMMA DiscInvInit == DiscInit => DiscInv
  BY ZenonT(60) DEF DiscInit, DiscInv, FailedNotPicked, IndexInRange

LEMMA DiscInvStep == DiscTypeInv /\ DiscInv /\ [DiscNext]_cpVars => DiscInv'
<1> SUFFICES ASSUME DiscTypeInv, DiscInv, [DiscNext]_cpVars
             PROVE  DiscInv'
  OBVIOUS
<1> USE DEF DiscInv, FailedNotPicked, IndexInRange
<1>1. CASE World /\ UNCHANGED discVars
  <2>1. UNCHANGED cp
    BY <1>1 DEF World, MemberLeaves, MemberStarts, ShutDown
  <2> QED
    BY <1>1, <2>1 DEF discVars
<1>2. CASE ResolverStep
  <2>1. \A n \in bad' : n \in bad /\ (cp'[n].status = "Available" => cp'[n] = cp[n])
    BY <1>2 DEF ResolverStep
  <2> QED
    BY <1>2, <2>1 DEF ResolverStep
<1>3. CASE BackendsReady
  BY <1>3 DEF BackendsReady, resolverVars
<1>4. ASSUME NEW n \in Cps, Collect(n)
      PROVE  DiscInv'
  BY <1>4 DEF Collect, resolverVars
<1>5. ASSUME NEW n \in Cps, Pick(n)
      PROVE  DiscInv'
  BY <1>5 DEF Pick, resolverVars
<1>6. CASE PickPanics
  <2>1. avail = {}
    BY <1>6, IndexBound DEF PickPanics, DiscTypeInv, DiscTypeOK
  <2> QED
    BY <1>6, <2>1 DEF PickPanics, resolverVars
<1>7. CASE SubscribeOk \/ StreamEnds
  BY <1>7, ZenonT(60) DEF SubscribeOk, StreamEnds, resolverVars
<1>8. CASE Collected
  BY <1>8 DEF Collected, resolverVars
<1>9. CASE SubscriptionFails
  BY <1>9 DEF SubscriptionFails, resolverVars
<1>10. CASE Retry
  <2>1. /\ cp'[curr].status # "Available"
        /\ \A n \in Cps : n # curr => cp'[n] = cp[n]
    BY <1>10 DEF Retry, Marked, Listed, DiscTypeInv, DiscTypeOK, ResolverTypeOK, Entries
  <2>2. bad \subseteq Cps
    BY DEF DiscTypeInv, DiscTypeOK
  <2> QED
    BY <1>10, <2>1, <2>2 DEF Retry
<1>11. CASE UNCHANGED cpVars
  BY <1>11 DEF cpVars
<1> QED
  BY <1>1, <1>2, <1>3, <1>4, <1>5, <1>6, <1>7, <1>8, <1>9, <1>10, <1>11, ZenonT(60)
     DEF DiscNext, DiscoveryStep, Answer

(* The invariant of the discovery task: a bad node is available only while *)
(* its failure is being handled.                                           *)
THEOREM DiscInvariant == DiscSpec => []DiscInv
  BY DiscInvInit, DiscInvStep, DiscTypeInvariant, PTL DEF DiscSpec

(* get_cp_backend panics only when no node is available: for a table of    *)
(* any size and whatever size it had before, the index is in range.        *)
THEOREM IndexIsInRange == DiscSpec => []IndexInRange
  BY DiscInvariant, PTL DEF DiscInv

(* A node that failed is not picked again before a refresh has opened a    *)
(* new channel to it, wherever in a refresh the failure falls.             *)
THEOREM FailedAreNotPicked == DiscSpec => []FailedNotPicked
  BY DiscInvariant, PTL DEF DiscInv

----------------------------------------------------------------------------
(* The backends of a tenant.                                               *)

(* What RoutedToReady needs besides itself: pools are only stored under    *)
(* the keys of Ready instances, and a session's choice comes from the list *)
(* of its tenant, whose entries all belong to that tenant.                 *)
RouteInv ==
  /\ \A k \in pools : k.status = "Ready"
  /\ \A t \in Tenants : \A i \in list[t] : i.tenant = t
  /\ \A s \in Sessions :
       sess[s].at # "out" => sess[s].inst.tenant = sess[s].tenant
  /\ RoutedToReady

(* A session state with an instance is one of the second kind.             *)
LEMMA SessShape ==
  ASSUME NEW x \in SessStates
  PROVE  /\ x.at = "out" => x = Out
         /\ x.at # "out" => /\ x \in [at : {"selected", "routed"},
                                      tenant : Tenants, inst : Instances]
                            /\ x.tenant \in Tenants
                            /\ x.inst \in Instances
  BY ZenonT(60) DEF SessStates, Out

LEMMA SyncTypeInit == SyncInit => SyncTypeOK
  BY DEF SyncInit, SyncTypeOK, SessStates, Out, KeyInit, KeyTypeOK, RecvSteps,
     StreamSteps

(* The keys and the streams keep their types.                              *)
LEMMA KeyTypeStep ==
  ASSUME KeyTypeOK, KeyStep
  PROVE  KeyTypeOK'
<1>1. CASE Subscribe
  BY <1>1 DEF Subscribe, KeyTypeOK, RecvSteps, StreamNames, StreamSteps
<1>2. CASE DropOld
  <2>1. Released("old", "gone") \in [StreamNames -> StreamSteps]
    BY ZenonT(60) DEF Released, KeyTypeOK, StreamSteps
  <2> QED
    BY <1>2, <2>1 DEF DropOld, KeyTypeOK
<1>3. ASSUME NEW how \in {"retry", "done"}, SubscriptionOver(how)
      PROVE  KeyTypeOK'
  BY <1>3 DEF SubscriptionOver, Outdated, KeyTypeOK, RecvSteps, StreamNames,
     StreamSteps
<1>4. ASSUME NEW s \in StreamNames, PollStream(s)
      PROVE  KeyTypeOK'
  BY <1>4 DEF PollStream, KeyTypeOK, StreamSteps
<1>5. ASSUME NEW s \in StreamNames, NEW t \in Tenants, TakeKey(s, t)
      PROVE  KeyTypeOK'
  <2>1. Released(s, "idle") \in [StreamNames -> StreamSteps]
    BY ZenonT(60) DEF Released, KeyTypeOK, StreamSteps
  <2> QED
    BY <1>5, <2>1 DEF TakeKey, KeyTypeOK
<1>6. ASSUME NEW t \in Tenants, AddTenant(t)
      PROVE  KeyTypeOK'
  BY <1>6 DEF AddTenant, KeyTypeOK
<1> QED
  BY <1>1, <1>2, <1>3, <1>4, <1>5, <1>6 DEF KeyStep, StreamStep

LEMMA SyncTypeStep == SyncTypeOK /\ [SyncNext]_syncVars => SyncTypeOK'
<1> SUFFICES ASSUME SyncTypeOK, [SyncNext]_syncVars
             PROVE  SyncTypeOK'
  OBVIOUS
<1>0. CASE KeyStep /\ UNCHANGED routeVars
  <2>1. KeyTypeOK'
    BY <1>0, KeyTypeStep DEF SyncTypeOK
  <2> QED
    BY <1>0, <2>1 DEF routeVars, SyncTypeOK
<1>1. ASSUME NEW t \in Tenants, RegisterTenant(t)
      PROVE  SyncTypeOK'
  BY <1>1 DEF RegisterTenant, SyncTypeOK, KeyTypeOK
<1>2. ASSUME NEW t \in Tenants, NEW a \in Addrs, NEW st \in Statuses,
             UnknownTenantPanics(t, a, st)
      PROVE  SyncTypeOK'
  <2>1. KeyTypeOK'
    BY <1>2 DEF UnknownTenantPanics, Outdated, SyncTypeOK, KeyTypeOK, RecvSteps,
       StreamNames, StreamSteps
  <2>2. latest' \in [Tenants -> [Addrs -> Statuses \cup {None}]]
    BY <1>2 DEF UnknownTenantPanics, SyncTypeOK
  <2> QED
    BY <1>2, <2>1, <2>2 DEF UnknownTenantPanics, SyncTypeOK
<1>3. ASSUME NEW t \in Tenants, NEW a \in Addrs, NEW st \in Statuses,
             ChangeEvent(t, a, st)
      PROVE  SyncTypeOK'
  <2> DEFINE inst == [tenant |-> t, addr |-> a, status |-> st]
  <2>1. inst \in Instances
    BY DEF Instances
  <2>2. Updated(list[t], inst) \in SUBSET Instances
    BY <2>1, ZenonT(60) DEF Updated, SyncTypeOK
  <2>3. list' \in [Tenants -> SUBSET Instances]
    BY <1>3, <2>2 DEF ChangeEvent, SyncTypeOK
  <2>4. watch' \in [value : Instances \cup {None}, unseen : BOOLEAN]
    BY <1>3, <2>1, ZenonT(60) DEF ChangeEvent
  <2>5. latest' \in [Tenants -> [Addrs -> Statuses \cup {None}]]
    BY <1>3 DEF ChangeEvent, SyncTypeOK
  <2> QED
    BY <1>3, <2>3, <2>4, <2>5, ZenonT(60) DEF ChangeEvent, SyncTypeOK, KeyTypeOK
<1>4. CASE TakeChange
  BY <1>4, ZenonT(60) DEF TakeChange, SyncTypeOK, KeyTypeOK, keyVars
<1>5. CASE InitBackendPool
  BY <1>5 DEF InitBackendPool, SyncTypeOK, KeyTypeOK, keyVars
<1>6. ASSUME NEW s \in Sessions, NEW t \in Tenants, Selector(s, t)
      PROVE  SyncTypeOK'
  <2>1. PICK inst \in list[t] :
          sess' = [sess EXCEPT ![s] =
                    [at |-> "selected", tenant |-> t, inst |-> inst]]
    BY <1>6, ZenonT(60) DEF Selector
  <2>2. [at |-> "selected", tenant |-> t, inst |-> inst] \in SessStates
    BY <2>1 DEF SessStates, SyncTypeOK
  <2> QED
    BY <1>6, <2>1, <2>2 DEF Selector, SyncTypeOK, KeyTypeOK, keyVars
<1>7. ASSUME NEW s \in Sessions, ConnectToBackend(s)
      PROVE  SyncTypeOK'
  <2>1. sess[s] \in [at : {"selected", "routed"}, tenant : Tenants,
                     inst : Instances]
    BY <1>7, SessShape DEF ConnectToBackend, SyncTypeOK
  <2>2. [sess[s] EXCEPT !.at = "routed"] \in SessStates
    BY <2>1 DEF SessStates
  <2>3. sess' = [sess EXCEPT ![s] = [sess[s] EXCEPT !.at = "routed"]]
    BY <1>7, ZenonT(60) DEF ConnectToBackend
  <2> QED
    BY <1>7, <2>2, <2>3 DEF ConnectToBackend, SyncTypeOK, KeyTypeOK, keyVars
<1>8. ASSUME NEW s \in Sessions, NotConnected(s) \/ SessionEnds(s)
      PROVE  SyncTypeOK'
  <2>1. /\ sess' = [sess EXCEPT ![s] = Out]
        /\ UNCHANGED <<keyVars, list, watch, taken, pools, latest>>
    BY <1>8, ZenonT(60) DEF NotConnected, SessionEnds
  <2>2. Out \in SessStates
    BY ZenonT(60) DEF SessStates, Out
  <2>3. sess' \in [Sessions -> SessStates]
    BY <2>1, <2>2, ZenonT(60) DEF SyncTypeOK
  <2> QED
    BY <2>1, <2>3, ZenonT(60) DEF SyncTypeOK, KeyTypeOK, keyVars
<1>9. CASE UNCHANGED syncVars
  BY <1>9 DEF syncVars, SyncTypeOK, KeyTypeOK
<1> QED
  BY <1>0, <1>1, <1>2, <1>3, <1>4, <1>5, <1>6, <1>7, <1>8, <1>9
     DEF SyncNext, SessionStep

(* Every variable keeps its type.                                          *)
THEOREM SyncTypeCorrect == SyncSpec => []SyncTypeOK
  BY SyncTypeInit, SyncTypeStep, PTL DEF SyncSpec

(* Whatever events arrive and whenever tenants are registered, as long as  *)
(* the discovery task has not panicked a tenant's list holds what the      *)
(* control plane last said of each address, and nothing else.              *)
THEOREM ListsAreLatest == SyncSpec => []ListIsLatest
<1>1. SyncInit => ListIsLatest
  <2> SUFFICES ASSUME SyncInit, NEW t \in Tenants
               PROVE  list[t] = {i \in Instances :
                                   i.tenant = t /\ latest[t][i.addr] = i.status}
    BY ZenonT(60) DEF ListIsLatest, ListFollowsTopology
  <2>1. list[t] = {}
    BY DEF SyncInit
  <2>2. ASSUME NEW i \in Instances
        PROVE  latest[t][i.addr] # i.status
    <3>1. i.addr \in Addrs /\ i.status \in Statuses
      BY DEF Instances
    <3>2. latest[t][i.addr] = None
      BY <3>1, ZenonT(60) DEF SyncInit
    <3> QED
      BY <3>1, <3>2, SyncAssumption
  <2> QED
    BY <2>1, <2>2
<1>2. SyncTypeOK /\ ListIsLatest /\ [SyncNext]_syncVars => ListIsLatest'
  <2> SUFFICES ASSUME SyncTypeOK, ListIsLatest, [SyncNext]_syncVars
               PROVE  ListIsLatest'
    OBVIOUS
  <2>0. recv = "panicked" => recv' = "panicked"
    BY ZenonT(60) DEF SyncNext, syncVars, keyVars, KeyStep, Subscribe, DropOld,
       SubscriptionOver, StreamStep, PollStream, TakeKey, AddTenant,
       RegisterTenant, ChangeEvent, UnknownTenantPanics, TakeChange,
       InitBackendPool, Selector, SessionStep, ConnectToBackend, NotConnected,
       SessionEnds
  <2> SUFFICES ASSUME recv' # "panicked", ListFollowsTopology
               PROVE  ListFollowsTopology'
    BY <2>0 DEF ListIsLatest
  <2>1. ASSUME NEW t \in Tenants, RegisterTenant(t)
        PROVE  ListFollowsTopology'
    <3>1. \A u \in Tenants : u # t => list'[u] = list[u] /\ latest'[u] = latest[u]
      BY <2>1 DEF RegisterTenant, SyncTypeOK
    <3>2. /\ list'[t] = {}
          /\ \A i \in Instances : latest'[t][i.addr] # i.status
      BY <2>1, SyncAssumption, ZenonT(60) DEF RegisterTenant, SyncTypeOK, Instances
    <3> QED
      BY <3>1, <3>2 DEF ListFollowsTopology
  <2>2. ASSUME NEW t \in Tenants, NEW a \in Addrs, NEW st \in Statuses,
               ChangeEvent(t, a, st)
        PROVE  ListFollowsTopology'
    <3> DEFINE inst == [tenant |-> t, addr |-> a, status |-> st]
    <3>1. \A u \in Tenants : u # t => list'[u] = list[u] /\ latest'[u] = latest[u]
      BY <2>2, ZenonT(60) DEF ChangeEvent, SyncTypeOK
    <3>2. list'[t] = {e \in list[t] : e.addr # a} \cup {inst}
      BY <2>2, ZenonT(60) DEF ChangeEvent, SyncTypeOK, Updated
    <3>3. latest'[t] = [latest[t] EXCEPT ![a] = st]
      BY <2>2 DEF ChangeEvent, SyncTypeOK
    <3>4. latest[t] \in [Addrs -> Statuses \cup {None}]
      BY ZenonT(60) DEF SyncTypeOK
    <3>5. ASSUME NEW i \in Instances
          PROVE  i \in list'[t] <=> i.tenant = t /\ latest'[t][i.addr] = i.status
      <4>1. /\ i.tenant \in Tenants /\ i.addr \in Addrs /\ i.status \in Statuses
            /\ i = inst <=> i.tenant = t /\ i.addr = a /\ i.status = st
        BY DEF Instances
      <4>2. i \in list[t] <=> i.tenant = t /\ latest[t][i.addr] = i.status
        BY SMTT(60) DEF ListFollowsTopology
      <4>3. CASE i.addr = a
        BY <4>1, <4>3, <3>2, <3>3, <3>4, ZenonT(60)
      <4>4. CASE i.addr # a
        BY <4>1, <4>2, <4>4, <3>2, <3>3, <3>4, ZenonT(60)
      <4> QED
        BY <4>3, <4>4
    <3>6. list'[t] \subseteq Instances
      BY SyncTypeStep, ZenonT(60) DEF SyncTypeOK
    <3>7. list'[t] = {i \in Instances : i.tenant = t /\ latest'[t][i.addr] = i.status}
      BY <3>5, <3>6
    <3> QED
      BY <3>1, <3>7 DEF ListFollowsTopology
  <2>3. CASE UNCHANGED <<list, latest>>
    BY <2>3 DEF ListFollowsTopology
  <2> QED
    BY <2>1, <2>2, <2>3 DEF SyncNext, routeVars, syncVars, UnknownTenantPanics, TakeChange,
       InitBackendPool, Selector, SessionStep, ConnectToBackend, NotConnected,
       SessionEnds
<1> QED
  BY <1>1, <1>2, SyncTypeCorrect, PTL DEF SyncSpec

(* A session is only ever given the pool of an instance of its own tenant  *)
(* that was Ready when the router chose it, for any number of sessions,    *)
(* tenants and instances, and although pools are never removed.            *)
THEOREM RoutedOnlyToReady == SyncSpec => []RoutedToReady
<1>1. SyncInit => RouteInv
  BY DEF SyncInit, RouteInv, RoutedToReady, Out
<1>2. SyncTypeOK /\ RouteInv /\ [SyncNext]_syncVars => RouteInv'
  <2> SUFFICES ASSUME SyncTypeOK, RouteInv, [SyncNext]_syncVars
               PROVE  RouteInv'
    BY ZenonT(60)
  <2>1. ASSUME NEW t \in Tenants, RegisterTenant(t)
        PROVE  RouteInv'
    BY <2>1, ZenonT(60) DEF RegisterTenant, RouteInv, RoutedToReady, SyncTypeOK
  <2>2. ASSUME NEW t \in Tenants, NEW a \in Addrs, NEW st \in Statuses,
               ChangeEvent(t, a, st)
        PROVE  RouteInv'
    <3> DEFINE inst == [tenant |-> t, addr |-> a, status |-> st]
    <3>1. \A u \in Tenants : u # t => list'[u] = list[u]
      BY <2>2, ZenonT(60) DEF ChangeEvent, SyncTypeOK
    <3>2. list'[t] = {e \in list[t] : e.addr # a} \cup {inst}
      BY <2>2, ZenonT(60) DEF ChangeEvent, SyncTypeOK, Updated
    <3>3. inst.tenant = t
      BY ZenonT(60)
    <3>4. \A i \in list'[t] : i.tenant = t
      BY <3>2, <3>3, ZenonT(60) DEF RouteInv
    <3>5. \A u \in Tenants : \A i \in list'[u] : i.tenant = u
      BY <3>1, <3>4, ZenonT(60) DEF RouteInv
    <3> QED
      BY <2>2, <3>5, ZenonT(60) DEF ChangeEvent, RouteInv, RoutedToReady
  <2>3. CASE InitBackendPool
    <3>1. \A k \in pools' : k.status = "Ready"
      BY <2>3, ZenonT(60) DEF InitBackendPool, RouteInv
    <3> QED
      BY <2>3, <3>1 DEF InitBackendPool, RouteInv, RoutedToReady
  <2>4. ASSUME NEW s \in Sessions, NEW t \in Tenants, Selector(s, t)
        PROVE  RouteInv'
    <3>1. PICK inst \in list[t] :
            sess' = [sess EXCEPT ![s] =
                      [at |-> "selected", tenant |-> t, inst |-> inst]]
      BY <2>4, Zenon DEF Selector
    <3>2. inst.tenant = t
      BY ZenonT(60) DEF RouteInv
    <3>3. \A r \in Sessions :
            /\ sess'[r].at # "out" => sess'[r].inst.tenant = sess'[r].tenant
            /\ sess'[r].at = "routed" =>
                 /\ sess'[r].inst.tenant = sess'[r].tenant
                 /\ sess'[r].inst.status = "Ready"
      BY <3>1, <3>2 DEF RouteInv, RoutedToReady, SyncTypeOK
    <3> QED
      BY <2>4, <3>3 DEF Selector, RouteInv, RoutedToReady
  <2>5. ASSUME NEW s \in Sessions, ConnectToBackend(s)
        PROVE  RouteInv'
    <3>1. /\ sess'[s].inst = sess[s].inst
          /\ sess'[s].tenant = sess[s].tenant
          /\ \A r \in Sessions : r # s => sess'[r] = sess[r]
      BY <2>5, SessShape DEF ConnectToBackend, SyncTypeOK
    <3>2. /\ sess[s].inst.status = "Ready"
          /\ sess[s].inst.tenant = sess[s].tenant
      BY <2>5, ZenonT(60) DEF ConnectToBackend, Found, RouteInv
    <3> QED
      BY <2>5, <3>1, <3>2 DEF ConnectToBackend, RouteInv, RoutedToReady
  <2>6. ASSUME NEW s \in Sessions, NotConnected(s) \/ SessionEnds(s)
        PROVE  RouteInv'
    <3>1. sess' = [sess EXCEPT ![s] = Out] /\ UNCHANGED <<list, pools>>
      BY <2>6, ZenonT(60) DEF NotConnected, SessionEnds
    <3>2. sess'[s].at = "out" /\ \A r \in Sessions : r # s => sess'[r] = sess[r]
      BY <3>1, ZenonT(60) DEF Out, SyncTypeOK
    <3> QED
      BY <3>1, <3>2, ZenonT(60) DEF RouteInv, RoutedToReady
  <2>7. CASE UNCHANGED <<list, pools, sess>>
    BY <2>7 DEF RouteInv, RoutedToReady
  <2> QED
    BY <2>1, <2>2, <2>3, <2>4, <2>5, <2>6, <2>7, ZenonT(60) DEF SyncNext,
       routeVars, syncVars, UnknownTenantPanics, TakeChange, SessionStep
<1>3. RouteInv => RoutedToReady
  BY DEF RouteInv
<1> QED
  BY <1>1, <1>2, <1>3, SyncTypeCorrect, PTL DEF SyncSpec

----------------------------------------------------------------------------
(* The static proxy.                                                       *)

(* What was written is a sequence, of whatever packets.                    *)
Streams == \E S : got \in Seq(S) /\ out \in Seq(S)

(* LoginFirst, with what the steps need: nobody has a verdict before the   *)
(* login is decided, and a session is where it can be.                     *)
LoginInv ==
  /\ Streams
  /\ LoginFirst
  /\ at \in {"idle", "greeted", "tls", "switch"} => verdict = "none"
  /\ verdict \in {"none", "yes", "no"}
  /\ at \in {"idle", "greeted", "tls", "switch", "command", "over", "failed",
             "panicked"}

(* end_packet keeps the streams sequences; with flush_all the packet is    *)
(* the last one the client has.                                            *)
LEMMA FlushedStreams ==
  ASSUME Streams, NEW p, Flushed(p)
  PROVE  Streams' /\ got'[Len(got')] = p
<1>1. PICK S : got \in Seq(S) /\ out \in Seq(S)
  BY DEF Streams
<1> DEFINE T == S \cup {p}
           w == got \o out
<1>2. got \in Seq(T) /\ out \in Seq(T) /\ p \in T
  BY <1>1
<1>3. w \in Seq(T)
  BY <1>2
<1>4. got' = Append(w, p) /\ out' = <<>>
  BY DEF Flushed
<1> HIDE DEF w, T
<1>5. got' \in Seq(T) /\ out' \in Seq(T)
  BY <1>2, <1>3, <1>4
<1>6. got'[Len(got')] = p
  BY <1>2, <1>3, <1>4
<1> QED BY <1>5, <1>6 DEF Streams

LEMMA WrittenStreams ==
  ASSUME Streams, NEW p, Written(p)
  PROVE  Streams'
<1>1. PICK S : got \in Seq(S) /\ out \in Seq(S)
  BY DEF Streams
<1> DEFINE T == S \cup {p}
<1>2. got \in Seq(T) /\ out \in Seq(T) /\ p \in T
  BY <1>1
<1> HIDE DEF T
<1>3. CASE buffered
  BY <1>2, <1>3 DEF Written, Streams
<1>4. CASE ~buffered
  BY <1>2, <1>4, SMTT(60) DEF Written, Streams
<1> QED BY <1>3, <1>4

(* The login's outcome: accepted, refused with an ERR packet, or an error. *)
LEMMA AuthKeeps ==
  ASSUME LoginInv, NEW h, NEW num, verdict = "none", Auth(h, num)
  PROVE  LoginInv'
<1>1. CASE Fails /\ UNCHANGED verdict
  BY <1>1, ZenonT(60) DEF LoginInv, LoginFirst, Fails, Streams
<1>2. CASE /\ verdict' = "no" /\ at' = "failed"
           /\ Flushed(Pkt("err", 0, num + 1, <<>>))
  <2>1. Streams' /\ got'[Len(got')] = Pkt("err", 0, num + 1, <<>>)
    BY <1>2, FlushedStreams, ZenonT(60) DEF LoginInv
  <2>2. got'[Len(got')].kind = "err"
    BY <2>1, SMTT(60) DEF Pkt
  <2> QED BY <1>2, <2>1, <2>2 DEF LoginInv, LoginFirst
<1>3. ASSUME verdict' = "yes",
             NEW p, at' = "command", Flushed(p)
      PROVE  LoginInv'
  <2>1. Streams'
    BY <1>3, FlushedStreams, ZenonT(60) DEF LoginInv
  <2> QED BY <1>3, <2>1 DEF LoginInv, LoginFirst
<1>4. CASE verdict' = "yes" /\ Fails
  BY <1>4 DEF LoginInv, LoginFirst, Fails, Streams
<1> QED BY <1>1, <1>2, <1>3, <1>4, ZenonT(60) DEF Auth

(* A handshake with a user does not get past the login.                    *)
LEMMA RespondKeeps ==
  ASSUME LoginInv, NEW h, NEW num, verdict = "none", h.user, Respond(h, num)
  PROVE  LoginInv'
<1>1. CASE Fails /\ UNCHANGED verdict
  BY <1>1, ZenonT(60) DEF LoginInv, LoginFirst, Fails, Streams
<1>2. CASE /\ at' = "switch" /\ Flushed(Pkt("switch", 0, num + 1, <<>>))
           /\ UNCHANGED verdict
  <2>1. Streams'
    BY <1>2, FlushedStreams DEF LoginInv
  <2> QED BY <1>2, <2>1 DEF LoginInv, LoginFirst
<1>3. CASE Auth(h, num)
  BY <1>3, AuthKeeps
<1> QED BY <1>1, <1>2, <1>3, ZenonT(60) DEF Respond

(* Every step keeps the invariant.                                         *)
LEMMA LoginStep ==
  ASSUME LoginInv, [Next]_vars
  PROVE  LoginInv'
<1> DEFINE Same == UNCHANGED <<at, out, got, verdict>>
<1>0. ASSUME Same PROVE LoginInv'
  BY <1>0 DEF LoginInv, LoginFirst, Streams
<1>1. CASE UNCHANGED vars
  BY <1>0, <1>1, ZenonT(60) DEF vars
<1>2. CASE Arrive \/ ExitSent
  BY <1>0, <1>2 DEF Arrive, ExitSent
<1>3. ASSUME NEW h \in Handshakes, SendHandshake(h) PROVE LoginInv'
  BY <1>0, <1>3, ZenonT(60) DEF SendHandshake, Client
<1>4. CASE SendAuth \/ HangUp
  BY <1>0, <1>4, ZenonT(60) DEF SendAuth, HangUp, Client
<1>5. ASSUME NEW head \in Heads, SendCommand(head) PROVE LoginInv'
  BY <1>0, <1>5, ZenonT(60) DEF SendCommand, Client
<1>6. CASE Receive
  <2>1. Streams'
    BY <1>6, FlushedStreams DEF Receive, LoginInv
  <2> QED BY <1>6, <2>1, ZenonT(60) DEF Receive, LoginInv, LoginFirst
<1>7. CASE Read
  BY <1>0, <1>7, ZenonT(60) DEF Read
<1>8. CASE PollRead
  <2>1. at' \in {at, "panicked"} /\ UNCHANGED <<out, got, verdict>> /\ at \in Reading
    BY <1>8 DEF PollRead
  <2> QED BY <2>1 DEF LoginInv, LoginFirst, Streams, Reading
<1>9. CASE OnHandshake
  <2> DEFINE h == NextData(inn)[1][1].of
             r == ClientHandshakeResponse(h, FALSE)
  <2>1. at = "greeted" /\ verdict = "none"
    BY <1>9, ZenonT(60) DEF OnHandshake, LoginInv
  <2>2. CASE Fails /\ UNCHANGED verdict
    BY <2>1, <2>2, ZenonT(60) DEF LoginInv, LoginFirst, Fails, Streams
  <2>3. CASE at' = "tls" /\ UNCHANGED <<out, got, verdict>>
    BY <2>1, <2>3 DEF LoginInv, LoginFirst, Streams
  <2>4. CASE ~r.ssl /\ Respond(r, NextNum(inn))
    <3>1. r.user
      BY <2>4, Zenon DEF ClientHandshakeResponse, Early
    <3> HIDE DEF r
    <3> QED BY <2>1, <2>4, <3>1, RespondKeeps
  <2> QED BY <1>9, <2>2, <2>3, <2>4, Zenon DEF OnHandshake
<1>10. CASE OnTlsHandshake
  <2> DEFINE h == NextData(inn)[1][1].of
             r == ClientHandshakeResponse(h, TRUE)
  <2>1. at = "tls" /\ verdict = "none"
    BY <1>10, ZenonT(60) DEF OnTlsHandshake, LoginInv
  <2>2. CASE Fails /\ UNCHANGED verdict
    BY <2>1, <2>2 DEF LoginInv, LoginFirst, Fails, Streams
  <2>3. CASE Respond(r, NextNum(inn))
    <3>1. r.user
      BY Zenon DEF ClientHandshakeResponse, Early
    <3> HIDE DEF r
    <3> QED BY <2>1, <2>3, <3>1, RespondKeeps, SMTT(30)
  <2> QED BY <1>10, <2>2, <2>3, ZenonT(60) DEF OnTlsHandshake
<1>11. CASE OnSwitched
  BY <1>11, AuthKeeps DEF OnSwitched, LoginInv
<1>12. CASE OnCmd
  <2>1. at = "command" /\ verdict' = verdict /\ verdict = "yes"
    BY <1>12, ZenonT(60) DEF OnCmd, LoginInv, LoginFirst
  <2>2. (Fails \/ UNCHANGED <<at, out, got>>) => LoginInv'
    BY <2>1, ZenonT(60) DEF LoginInv, LoginFirst, Fails, Streams
  <2>3. ASSUME NEW p, Written(p), UNCHANGED at PROVE LoginInv'
    <3>1. Streams'
      BY <2>3, WrittenStreams, ZenonT(60) DEF LoginInv
    <3> QED BY <2>1, <2>3, <3>1 DEF LoginInv, LoginFirst
  <2> QED BY <1>12, <2>2, <2>3, ZenonT(60) DEF OnCmd
<1>13. ASSUME EndSession PROVE LoginInv'
  <2>1. got' = <<>> /\ out' = <<>> /\ verdict' = "none" /\ at' \in {"over", "idle"}
    BY <1>13 DEF EndSession
  <2>2. Streams'
    <3>1. got' \in Seq({}) /\ out' \in Seq({})
      BY <2>1, SMTT(60)
    <3> QED BY <3>1 DEF Streams
  <2> QED BY <2>1, <2>2 DEF LoginInv, LoginFirst
<1>14. CASE OnQuit
  BY <1>13, <1>14 DEF OnQuit
<1>15. CASE Eof
  <2>1. CASE EndSession
    BY <1>13, <2>1, ZenonT(60)
  <2>2. CASE at \in Reading /\ Fails /\ UNCHANGED verdict
    BY <2>2, ZenonT(60) DEF LoginInv, LoginFirst, Fails, Streams, Reading
  <2> QED BY <1>15, <2>1, <2>2 DEF Eof
<1>16. CASE Exit
  BY <1>16 DEF Exit, LoginInv, LoginFirst, Streams
<1> QED
  BY <1>1, <1>2, <1>3, <1>4, <1>5, <1>6, <1>7, <1>8, <1>9, <1>10, <1>11,
     <1>12, <1>14, <1>15, <1>16, ZenonT(60) DEF Next, ServiceStep

(* The static proxy takes commands only from a client whose login the      *)
(* CmdHandler accepted, and a refused client has its ERR packet            *)
(* (respond_client_handshake_rsp, on_cmd).                                 *)
THEOREM LoginAlwaysFirst == Spec => []LoginFirst
<1>1. Init => LoginInv
  <2> SUFFICES ASSUME Init PROVE LoginInv
    OBVIOUS
  <2>1. got \in Seq({}) /\ out \in Seq({})
    BY DEF Init
  <2>2. Streams
    BY <2>1 DEF Streams
  <2> QED BY <2>2 DEF Init, LoginInv, LoginFirst
<1>2. LoginInv /\ [Next]_vars => LoginInv'
  BY LoginStep
<1>3. LoginInv => LoginFirst
  BY DEF LoginInv
<1> QED BY <1>1, <1>2, <1>3, PTL DEF Spec
==============================================================================
