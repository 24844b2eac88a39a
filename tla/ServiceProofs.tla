---------------------------- MODULE ServiceProofs ----------------------------
(***************************************************************************)
(* What holds of the process for every command line, every number of       *)
(* workers, backends, clients and profiler calls; and of its metrics, for  *)
(* every host, any sessions and any requests.                              *)
(***************************************************************************)
EXTENDS Service, Diagnostics, FiniteSetTheorems, TLAPS

(* The thread with pprof's guard is in the middle of its period: a thread  *)
(* that panics over the guard leaves a live one behind.                    *)
GuardHeld == guard # NoCall => prof[guard] = "sample"

ServiceInv == TypeOK /\ GuardHeld /\ StartedIsSampled /\ PortIsHeld

(* A step of a profiler thread keeps the profiler's part.                  *)
LEMMA ThreadKeeps ==
  ASSUME ProfTypeOK, GuardHeld, StartedIsSampled, NEW c \in Calls, ThreadStep(c)
  PROVE  ProfTypeOK' /\ GuardHeld' /\ StartedIsSampled'
<1> USE ProfAssumption
<1>1. CASE Check(c)
  BY <1>1 DEF Check, ProfTypeOK, ProfStates, GuardHeld, StartedIsSampled, Alive
<1>2. CASE Build(c)
  <2>1. ProfTypeOK' /\ GuardHeld'
    BY <1>2 DEF Build, ProfTypeOK, ProfStates, GuardHeld
  <2>2. CASE guard = NoCall
    <3>1. prof'[c] = "sample"
      BY <1>2, <2>2 DEF Build, ProfTypeOK
    <3> QED BY <2>1, <3>1 DEF StartedIsSampled, Alive
  <2>3. CASE guard # NoCall
    <3>1. guard \in Calls /\ prof'[guard] = "sample"
      BY <1>2, <2>3 DEF Build, ProfTypeOK, GuardHeld
    <3> QED BY <2>1, <3>1 DEF StartedIsSampled, Alive
  <2> QED BY <2>2, <2>3
<1>3. CASE Report(c)
  <2>1. ProfTypeOK' /\ GuardHeld'
    BY <1>3 DEF Report, ProfTypeOK, ProfStates, GuardHeld
  <2>2. prof'[c] = "check"
    BY <1>3 DEF Report, ProfTypeOK
  <2> QED BY <2>1, <2>2 DEF StartedIsSampled, Alive
<1>4. CASE ReportPanics(c)
  BY <1>4 DEF ReportPanics, ProfTypeOK, ProfStates, GuardHeld, StartedIsSampled
<1> QED BY <1>1, <1>2, <1>3, <1>4 DEF ThreadStep

(* So does a request, whether it is served or fails.                       *)
LEMMA RequestKeeps ==
  ASSUME ProfTypeOK, GuardHeld, StartedIsSampled, NEW c \in Calls,
         Start(c) \/ ProfSample(c) \/ ProfSampleFails(c) \/ Stop
  PROVE  ProfTypeOK' /\ GuardHeld' /\ StartedIsSampled'
<1> USE ProfAssumption
<1>1. CASE Start(c)
  <2>1. ProfTypeOK' /\ GuardHeld'
    BY <1>1 DEF Start, ProfTypeOK, ProfStates, GuardHeld
  <2>2. CASE starting
    <3>1. prof[c] = "idle" /\ prof' = [prof EXCEPT ![c] = "refused"]
      BY <1>1, <2>2 DEF Start
    <3>2. \A d \in Calls : d # c => prof'[d] = prof[d]
      BY <3>1 DEF ProfTypeOK
    <3>3. fsFailed' = fsFailed
      BY <1>1 DEF Start
    <3>4. SUFFICES ASSUME ~fsFailed, \A d \in Calls : prof'[d] # "spawning"
                   PROVE  \E d \in Calls : prof'[d] \in {"check", "build", "sample"}
      BY <2>1, <3>3 DEF StartedIsSampled, Alive
    <3>5. \A d \in Calls : prof[d] # "spawning"
      BY <3>1, <3>2, <3>4
    <3>6. PICK d \in Calls : prof[d] \in {"check", "build", "sample"}
      BY <2>2, <3>4, <3>5 DEF StartedIsSampled, Alive
    <3> QED BY <3>1, <3>2, <3>6
  <2>3. CASE ~starting
    <3>1. prof'[c] = "spawning"
      BY <1>1, <2>3 DEF Start, ProfTypeOK
    <3> QED BY <2>1, <3>1 DEF StartedIsSampled
  <2> QED BY <2>1, <2>2, <2>3
<1>2. CASE ProfSample(c)
  <2>1. ProfTypeOK' /\ GuardHeld'
    BY <1>2 DEF ProfSample, ProfTypeOK, ProfStates, GuardHeld
  <2>2. prof'[c] = "check"
    BY <1>2 DEF ProfSample, ProfTypeOK
  <2> QED BY <2>1, <2>2 DEF StartedIsSampled, Alive
<1>3. CASE ProfSampleFails(c)
  BY <1>3 DEF ProfSampleFails, ProfTypeOK, ProfStates, GuardHeld, StartedIsSampled
<1>4. CASE Stop
  BY <1>4, ZenonT(60) DEF Stop, ProfTypeOK, GuardHeld, StartedIsSampled
<1> QED BY <1>1, <1>2, <1>3, <1>4

(* The profiler's part depends on the profiler's variables only.           *)
LEMMA ProfUnchanged ==
  ASSUME ProfTypeOK, GuardHeld, StartedIsSampled, UNCHANGED profVars
  PROVE  ProfTypeOK' /\ GuardHeld' /\ StartedIsSampled'
BY DEF profVars, ProfTypeOK, GuardHeld, StartedIsSampled, Alive

(* The server part of the type invariant, and the port.                    *)
SrvTypeOK ==
  /\ conf \in Confs
  /\ main \in {"start", "failed", "select", "accept", "stopping", "exited"}
  /\ http \in [Servers -> {"off", "spawned", "serving", "panicked", "drained"}]
  /\ collector \in {"off", "spawned", "spinning", "stopped"}
  /\ discovery \in {"off", "spawned", "waiting", "past"}
  /\ ready \in 0..NumBackends
  /\ client \in [Clients -> {"out", "accepted", "routed", "refused"}]
  /\ signals \in 0..MaxSignals
  /\ raised \in BOOLEAN /\ pending \in BOOLEAN /\ shutdown \in BOOLEAN

LEMMA SrvUnchanged ==
  ASSUME SrvTypeOK, PortIsHeld, UNCHANGED srvVars
  PROVE  SrvTypeOK' /\ PortIsHeld'
BY DEF srvVars, SrvTypeOK, PortIsHeld

(* The list has an address, and no more than `backend' can name.           *)
LEMMA ListedBounds == Listed \in 1..NumBackends
BY CliAssumption DEF Listed, StaticBackendList

(* The start-up, and the tasks it spawns.                                  *)
LEMMA TaskKeeps ==
  ASSUME SrvTypeOK, PortIsHeld,
         \/ StartUp \/ StartUpPortTaken \/ StartFails \/ StartAutoCollect \/ CollectStops
         \/ Discover \/ ControlPlaneKnown
         \/ InitBackendPool
         \/ \E k \in Servers : Bind(k) \/ Drain(k)
  PROVE  SrvTypeOK' /\ PortIsHeld' /\ UNCHANGED profVars
<1> USE ServiceAssumption, CliAssumption
<1>1. CASE StartUp \/ StartUpPortTaken \/ StartFails
  BY <1>1, ZenonT(60) DEF StartUp, StartUpPortTaken, StartFails, SrvTypeOK, PortIsHeld
<1>2. CASE StartAutoCollect \/ CollectStops
  BY <1>2 DEF StartAutoCollect, CollectStops, SrvTypeOK, PortIsHeld
<1>3. CASE Discover \/ ControlPlaneKnown
  BY <1>3 DEF Discover, ControlPlaneKnown, SrvTypeOK, PortIsHeld
<1>4. CASE InitBackendPool
  BY <1>4, ListedBounds DEF InitBackendPool, SrvTypeOK, PortIsHeld
<1>5. ASSUME NEW k \in Servers, Bind(k)
      PROVE  SrvTypeOK' /\ PortIsHeld' /\ UNCHANGED profVars
  <2>1. SrvTypeOK' /\ UNCHANGED profVars
    BY <1>5 DEF Bind, SrvTypeOK
  <2>2. CASE \E j \in Servers : Serving(j)
    <3>1. PICK j \in Servers : Serving(j)
      BY <2>2
    <3>2. http'[j] = "serving"
      BY <1>5, <3>1 DEF Bind, Serving, SrvTypeOK
    <3> QED BY <2>1, <3>2 DEF PortIsHeld
  <2>3. CASE ~ \E j \in Servers : Serving(j)
    <3>1. http'[k] = "serving"
      BY <1>5, <2>3 DEF Bind, SrvTypeOK
    <3> QED BY <2>1, <3>1 DEF PortIsHeld
  <2> QED BY <2>2, <2>3
<1>6. ASSUME NEW k \in Servers, Drain(k)
      PROVE  SrvTypeOK' /\ PortIsHeld' /\ UNCHANGED profVars
  <2>1. SrvTypeOK' /\ UNCHANGED profVars
    BY <1>6 DEF Drain, SrvTypeOK
  <2>2. http'[k] = "drained"
    BY <1>6 DEF Drain, SrvTypeOK
  <2> QED BY <2>1, <2>2 DEF PortIsHeld
<1> QED BY <1>1, <1>2, <1>3, <1>4, <1>5, <1>6

(* The accept loop, its clients and the signals.                           *)
LEMMA LoopKeeps ==
  ASSUME SrvTypeOK, PortIsHeld,
         \/ NextTurn \/ Raise \/ Broadcast \/ ShutdownSignal
         \/ \E s \in Clients : Accept(s) \/ \E i \in Selector : ConnectToBackend(s, i)
  PROVE  SrvTypeOK' /\ PortIsHeld' /\ UNCHANGED profVars
<1> USE ServiceAssumption, CliAssumption
<1>1. CASE NextTurn \/ Broadcast \/ ShutdownSignal
  BY <1>1, ZenonT(60) DEF NextTurn, Broadcast, ShutdownSignal, SrvTypeOK, PortIsHeld
<1>2. CASE Raise
  BY <1>2 DEF Raise, SrvTypeOK, PortIsHeld
<1>3. CASE \E s \in Clients : Accept(s)
  BY <1>3, Zenon DEF Accept, SrvTypeOK, PortIsHeld
<1>4. CASE \E s \in Clients : \E i \in Selector : ConnectToBackend(s, i)
  BY <1>4 DEF ConnectToBackend, SrvTypeOK, PortIsHeld
<1> QED BY <1>1, <1>2, <1>3, <1>4

LEMMA ExitKeeps ==
  ASSUME ServiceInv, Exit
  PROVE  ServiceInv'
<1>1. ProfTypeOK' /\ GuardHeld' /\ StartedIsSampled'
  BY ZenonT(60) DEF ServiceInv, TypeOK, Exit, ProfTypeOK, ProfStates, GuardHeld, StartedIsSampled
<1>2. SrvTypeOK' /\ PortIsHeld'
  BY DEF ServiceInv, TypeOK, SrvTypeOK, Exit, PortIsHeld
<1> QED BY <1>1, <1>2 DEF ServiceInv, TypeOK, SrvTypeOK

LEMMA ServiceStep ==
  ASSUME ServiceInv, [Next]_vars
  PROVE  ServiceInv'
<1>1. ProfTypeOK /\ GuardHeld /\ StartedIsSampled /\ SrvTypeOK /\ PortIsHeld
  BY DEF ServiceInv, TypeOK, SrvTypeOK
<1>2. SUFFICES ProfTypeOK' /\ GuardHeld' /\ StartedIsSampled' /\ SrvTypeOK' /\ PortIsHeld'
  BY DEF ServiceInv, TypeOK, SrvTypeOK
<1>3. CASE \/ StartUp \/ StartUpPortTaken \/ StartFails \/ StartAutoCollect \/ CollectStops
           \/ Discover \/ ControlPlaneKnown
           \/ InitBackendPool
           \/ \E k \in Servers : Bind(k) \/ Drain(k)
  BY <1>1, <1>3, TaskKeeps, ProfUnchanged
<1>4. CASE \/ NextTurn \/ Raise \/ Broadcast \/ ShutdownSignal
           \/ \E s \in Clients : Accept(s) \/ \E i \in Selector : ConnectToBackend(s, i)
  BY <1>1, <1>4, LoopKeeps, ProfUnchanged
<1>5. CASE Exit
  BY <1>5, ExitKeeps DEF ServiceInv, TypeOK, SrvTypeOK
<1>6. CASE StopCpuProf
  BY <1>1, <1>6, SrvUnchanged, ProfAssumption, Zenon
  DEF StopCpuProf, Stop, ProfTypeOK, GuardHeld, StartedIsSampled
<1>7. ASSUME NEW c \in Calls, StartCpuProf(c) \/ Spawned(c)
      PROVE  ProfTypeOK' /\ GuardHeld' /\ StartedIsSampled' /\ SrvTypeOK' /\ PortIsHeld'
  BY <1>1, <1>7, SrvUnchanged, RequestKeeps DEF StartCpuProf, Spawned
<1>8. ASSUME NEW c \in Calls, Thread(c)
      PROVE  ProfTypeOK' /\ GuardHeld' /\ StartedIsSampled' /\ SrvTypeOK' /\ PortIsHeld'
  BY <1>1, <1>8, SrvUnchanged, ThreadKeeps DEF Thread
<1>9. CASE UNCHANGED vars
  BY <1>1, <1>9, SrvUnchanged, ProfUnchanged DEF vars
<1> QED BY <1>3, <1>4, <1>5, <1>6, <1>7, <1>8, <1>9 DEF Next

LEMMA ServiceInit == Init => ServiceInv
<1> SUFFICES ASSUME Init PROVE ServiceInv
  OBVIOUS
<1>1. ProfTypeOK /\ GuardHeld /\ StartedIsSampled
  BY ProfAssumption, ZenonT(60)
  DEF Init, ProfInit, ProfTypeOK, ProfStates, GuardHeld, StartedIsSampled
<1>2. ready \in 0..NumBackends /\ signals \in 0..MaxSignals
  BY ServiceAssumption, CliAssumption DEF Init
<1>3. PortIsHeld
  BY DEF Init, PortIsHeld
<1>4. SrvTypeOK
  BY <1>2, Zenon DEF Init, SrvTypeOK
<1> QED BY <1>1, <1>3, <1>4 DEF ServiceInv, TypeOK, SrvTypeOK

----------------------------------------------------------------------------
(* The invariant holds in every reachable state.                           *)
THEOREM ServiceInvariant == Spec => []ServiceInv
<1>1. ServiceInv /\ [Next]_vars => ServiceInv'
  BY ServiceStep
<1> QED BY ServiceInit, <1>1, PTL DEF Spec

(* A profiler that counts as started has a thread that samples, whatever   *)
(* the order of starts and stops (prof.rs:23-98).                          *)
THEOREM AlwaysSampled == Spec => []StartedIsSampled
<1>1. ServiceInv => StartedIsSampled
  BY DEF ServiceInv
<1> QED BY ServiceInvariant, <1>1, PTL

(* A server that lost the port lost it to the other one                    *)
(* (http_server.rs:97-99 under main.rs:91-125).                            *)
THEOREM PortAlwaysHeld == Spec => []PortIsHeld
<1>1. ServiceInv => PortIsHeld
  BY DEF ServiceInv
<1> QED BY ServiceInvariant, <1>1, PTL

----------------------------------------------------------------------------
(* The metrics.  A session has a timer exactly while its turn is with the  *)
(* backend, and what is timed is a byte that clients send.                 *)
MetricsInv ==
  /\ timer \in [Sessions -> Bytes \cup {NoTimer}]
  /\ turn \in [Sessions -> {"out", "idle", "forward", "ended"}]
  /\ sent \in [Bytes -> Nat] /\ samples \in [Bytes -> Nat]
  /\ enabled \in BOOLEAN
  /\ \A s \in Sessions : turn[s] = "forward" <=> timer[s] # NoTimer
  /\ TurnsAreTimed

(* Sessions whose turn is timed under b.                                   *)
Timed(b) == {s \in Sessions : timer[s] = b}

LEMMA TimedFinite ==
  ASSUME NEW b PROVE IsFiniteSet(Timed(b)) /\ Cardinality(Timed(b)) \in Nat
BY MetricsAssumption, FS_Subset, FS_CardinalityType DEF Timed

LEMMA BytesAreCodes == NoTimer \notin Bytes /\ Bytes \subseteq Nat
BY MetricsAssumption DEF NoTimer

(* A command goes to its backend: one more is sent, and one more is timed. *)
LEMMA WriteKeeps ==
  ASSUME MetricsInv, NEW s \in Sessions, NEW b \in Bytes, WriteToBackend(s, b)
  PROVE  MetricsInv'
<1>1. b \in SqlComLabels /\ sent[b] \in Nat
  BY DEF WriteToBackend, SqlComLabels, CommandCodes, MetricsInv
<1>2. /\ timer' = [timer EXCEPT ![s] = b]
      /\ turn' = [turn EXCEPT ![s] = "forward"]
      /\ sent' = [sent EXCEPT ![b] = sent[b] + 1]
      /\ samples' = samples /\ enabled' = enabled /\ turn[s] = "idle"
  BY <1>1 DEF WriteToBackend
<1>3. /\ timer' \in [Sessions -> Bytes \cup {NoTimer}]
      /\ turn' \in [Sessions -> {"out", "idle", "forward", "ended"}]
      /\ sent' \in [Bytes -> Nat] /\ samples' \in [Bytes -> Nat]
      /\ enabled' \in BOOLEAN
  BY <1>1, <1>2 DEF MetricsInv
<1>4. \A t \in Sessions : turn'[t] = "forward" <=> timer'[t] # NoTimer
  BY <1>2, BytesAreCodes DEF MetricsInv
<1>5. ASSUME enabled, NEW c \in Bytes
      PROVE  samples'[c] + Cardinality(Timed(c)') = sent'[c]
  <2>1. samples[c] + Cardinality(Timed(c)) = sent[c] /\ samples[c] \in Nat
    BY <1>5 DEF MetricsInv, TurnsAreTimed, Timed
  <2>2. timer[s] = NoTimer
    BY <1>2 DEF MetricsInv
  <2>3. CASE c = b
    <3>1. Timed(c)' = Timed(c) \cup {s} /\ s \notin Timed(c)
      BY <1>2, <2>2, <2>3, BytesAreCodes DEF Timed, MetricsInv
    <3>2. Cardinality(Timed(c)') = Cardinality(Timed(c)) + 1
      BY <3>1, TimedFinite, FS_AddElement, ZenonT(60)
    <3>3. sent'[c] = sent[c] + 1
      BY <1>2, <2>3 DEF MetricsInv
    <3> QED BY <1>2, <2>1, <3>2, <3>3, TimedFinite
  <2>4. CASE c # b
    <3>1. Timed(c)' = Timed(c)
      BY <1>2, <2>2, <2>4, BytesAreCodes DEF Timed, MetricsInv
    <3>2. sent'[c] = sent[c]
      BY <1>2, <2>4 DEF MetricsInv
    <3> QED BY <1>2, <2>1, <3>1, <3>2
  <2> QED BY <2>3, <2>4
<1>6. TurnsAreTimed'
  BY <1>2, <1>5 DEF TurnsAreTimed, Timed
<1> QED BY <1>3, <1>4, <1>6 DEF MetricsInv

(* The timer is dropped: one sample more, one timer less.                  *)
LEMMA DropKeeps ==
  ASSUME MetricsInv, NEW s \in Sessions, turn[s] = "forward", Dropped(s),
         NEW st \in {"idle", "ended"}, turn' = [turn EXCEPT ![s] = st],
         UNCHANGED <<sent, enabled>>
  PROVE  MetricsInv'
<1> DEFINE b == timer[s]
<1>1. b \in Bytes /\ samples[b] \in Nat
  BY DEF MetricsInv
<1>2. /\ timer' = [timer EXCEPT ![s] = NoTimer]
      /\ samples' = IF enabled THEN [samples EXCEPT ![b] = samples[b] + 1] ELSE samples
  BY DEF Dropped
<1> HIDE DEF b
<1>3. /\ timer' \in [Sessions -> Bytes \cup {NoTimer}]
      /\ turn' \in [Sessions -> {"out", "idle", "forward", "ended"}]
      /\ sent' \in [Bytes -> Nat] /\ samples' \in [Bytes -> Nat]
      /\ enabled' \in BOOLEAN
  BY <1>1, <1>2 DEF MetricsInv
<1>4. \A t \in Sessions : turn'[t] = "forward" <=> timer'[t] # NoTimer
  BY <1>2 DEF MetricsInv
<1>5. ASSUME enabled, NEW c \in Bytes
      PROVE  samples'[c] + Cardinality(Timed(c)') = sent'[c]
  <2>1. samples[c] + Cardinality(Timed(c)) = sent[c] /\ samples[c] \in Nat
    BY <1>5 DEF MetricsInv, TurnsAreTimed, Timed
  <2>2. CASE c = b
    <3>1. Timed(c)' = Timed(c) \ {s} /\ s \in Timed(c)
      BY <1>2, <2>2, BytesAreCodes DEF Timed, MetricsInv, b
    <3>2. Cardinality(Timed(c)') = Cardinality(Timed(c)) - 1
      BY <3>1, TimedFinite, FS_RemoveElement, ZenonT(60)
    <3>3. samples'[c] = samples[c] + 1
      BY <1>1, <1>2, <1>5, <2>2 DEF MetricsInv
    <3> QED BY <2>1, <3>2, <3>3, TimedFinite
  <2>3. CASE c # b
    <3>1. Timed(c)' = Timed(c)
      BY <1>2, <2>3, BytesAreCodes DEF Timed, MetricsInv, b
    <3>2. samples'[c] = samples[c]
      BY <1>1, <1>2, <2>3 DEF MetricsInv
    <3> QED BY <2>1, <3>1, <3>2
  <2> QED BY <2>2, <2>3
<1>6. TurnsAreTimed'
  BY <1>5, ZenonT(60) DEF TurnsAreTimed, Timed
<1> QED BY <1>3, <1>4, <1>6 DEF MetricsInv

LEMMA MetricsStep ==
  ASSUME MetricsInv, party \in Parties, [DiagNext]_diagVars
  PROVE  MetricsInv' /\ party' \in Parties
<1>0. ASSUME UNCHANGED <<turn, timer, sent, samples, enabled>>
      PROVE  MetricsInv'
  BY <1>0, ZenonT(60) DEF MetricsInv, TurnsAreTimed
<1>1. party' = party
  BY SMTT(30) DEF DiagNext, diagVars, Requests, Dumping, Analysing
<1>2. CASE Requests \/ (\E d \in Dumps : Dumping(d)) \/ (\E a \in Analyses : Analysing(a))
           \/ UNCHANGED diagVars
  BY <1>0, <1>1, <1>2, ZenonT(30) DEF Requests, Dumping, Analysing, diagVars, metVars
<1>3. CASE InitMetrics \/ NewRecorder \/ Spawn \/ Render \/ Use \/ Collect
  BY <1>0, <1>1, <1>3 DEF InitMetrics, NewRecorder, Spawn, Render, Use, Collect
<1>4. ASSUME NEW s \in Sessions, Connect(s) \/ Unsent(s) PROVE MetricsInv'
  <2>1. PICK st \in {"idle", "ended"} : turn' = [turn EXCEPT ![s] = st]
    BY <1>4 DEF Connect, Unsent
  <2>2. turn[s] # "forward" /\ UNCHANGED <<timer, sent, samples, enabled>>
    BY <1>4 DEF Connect, Unsent
  <2>3. TurnsAreTimed'
    BY <2>2 DEF MetricsInv, TurnsAreTimed
  <2> QED BY <2>1, <2>2, <2>3 DEF MetricsInv
<1>5. ASSUME NEW s \in Sessions, Forward(s) \/ ForwardFails(s) PROVE MetricsInv'
  <2>1. turn[s] = "forward" /\ Dropped(s) /\ UNCHANGED <<sent, enabled>>
    BY <1>5 DEF Forward, ForwardFails
  <2>2. \E st \in {"idle", "ended"} : turn' = [turn EXCEPT ![s] = st]
    BY <1>5 DEF Forward, ForwardFails
  <2> QED BY <2>1, <2>2, DropKeeps, ZenonT(60)
<1>6. party.sessions \subseteq Sessions
  BY PartiesAssumption
<1> QED BY <1>1, <1>2, <1>3, <1>4, <1>5, <1>6, WriteKeeps DEF DiagNext, MetNext

(* Every command that reached a backend is timed exactly once and under    *)
(* its own name, however its turn ends and however many sessions there are *)
(* (MetricsTimer under on_com).                                            *)
THEOREM AlwaysTimed == DiagSpec => []TurnsAreTimed
<1>1. DiagInit => MetricsInv /\ party \in Parties
  <2> SUFFICES ASSUME DiagInit PROVE MetricsInv /\ party \in Parties
    OBVIOUS
  <2>1. ASSUME NEW b \in Bytes PROVE Timed(b) = {}
    BY BytesAreCodes DEF DiagInit, MetInit, Timed
  <2>2. TurnsAreTimed
    BY <2>1, FS_EmptySet DEF DiagInit, MetInit, TurnsAreTimed, Timed
  <2> QED BY <2>2, MetricsAssumption DEF DiagInit, MetInit, MetricsInv
<1>2. MetricsInv /\ party \in Parties /\ [DiagNext]_diagVars
        => (MetricsInv /\ party \in Parties)'
  BY MetricsStep
<1>3. MetricsInv => TurnsAreTimed
  BY DEF MetricsInv
<1> QED BY <1>1, <1>2, <1>3, PTL DEF DiagSpec
==============================================================================
