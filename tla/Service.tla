------------------------------- MODULE Service -------------------------------
(***************************************************************************)
(* The proxy's process (cmd/src/main.rs): start-up, the accept loop, the   *)
(* REST and metrics servers, the CPU profiler behind them, the pools of    *)
(* the static router, and the shutdown.                                    *)
(*                                                                         *)
(* Tasks share `works' worker threads.  Two tasks keep theirs: the metrics *)
(* collector, whose select has a branch that is always ready, so that it   *)
(* never yields; and backend discovery, which waits on a condition         *)
(* variable until a control plane is known.  I/O and signals are seen by   *)
(* idle workers only: when every worker is kept, nothing else happens.     *)
(***************************************************************************)
EXTENDS CpuProfiler, CommandLine

CONSTANTS
  Clients,    \* clients that connect
  MaxSignals  \* signals sent to the process

ASSUME ServiceAssumption == MaxSignals \in Nat

VARIABLES
  conf,       \* the command line
  main,       \* main: start, failed, select, accept, stopping, exited
  http,       \* the two servers: off, spawned, serving, panicked, drained
  collector,  \* ProcessRecorder: off, spawned, spinning, stopped
  discovery,  \* discover_with_retry: off, spawned, waiting, past
  ready,      \* backends with a pool: the first `ready' of the list
  client,     \* out, accepted, routed, refused
  signals,    \* signals still to come
  raised,     \* has a signal arrived that the driver has not broadcast?
  pending,    \* has shutdown_signal() of this select seen one?
  shutdown    \* has Cancel been sent, or its sender been dropped?

srvVars == <<conf, main, http, collector, discovery, ready, client,
             signals, raised, pending, shutdown>>
vars == <<srvVars, profVars>>

Servers == {"metrics", "rest"}

TypeOK ==
  /\ ProfTypeOK
  /\ conf \in Confs
  /\ main \in {"start", "failed", "select", "accept", "stopping", "exited"}
  /\ http \in [Servers -> {"off", "spawned", "serving", "panicked", "drained"}]
  /\ collector \in {"off", "spawned", "spinning", "stopped"}
  /\ discovery \in {"off", "spawned", "waiting", "past"}
  /\ ready \in 0..NumBackends
  /\ client \in [Clients -> {"out", "accepted", "routed", "refused"}]
  /\ signals \in 0..MaxSignals
  /\ raised \in BOOLEAN /\ pending \in BOOLEAN /\ shutdown \in BOOLEAN

Init ==
  /\ ProfInit
  /\ conf \in Confs
  /\ main = "start"
  /\ http = [k \in Servers |-> "off"]
  /\ collector = "off" /\ discovery = "off"
  /\ ready = 0
  /\ client = [s \in Clients |-> "out"]
  /\ signals = MaxSignals
  /\ raised = FALSE /\ pending = FALSE /\ shutdown = FALSE

----------------------------------------------------------------------------
(* Workers.                                                                *)
One(b) == IF b THEN 1 ELSE 0

Kept == One(collector = "spinning") + One(discovery = "waiting")

Running == main \notin {"start", "failed", "exited"}

WorkerFree == Running /\ Kept < conf.works

(* new_backend_router: only the synchronised router starts discovery.      *)
Discovers == ~IsStatic(conf)

(* The static router's list.                                               *)
Listed == StaticBackendList(conf)

(* Are there workers beside those that may be kept?                        *)
Enough == conf.works > One(conf.metrics) + One(Discovers)

Serving(k) == http[k] = "serving"

----------------------------------------------------------------------------
(* main up to its loop: the arguments, new_backend_opts,                   *)
(* new_backend_router, start_metrics_and_rest, the                         *)
(* task of initialize_async, the listener.  A signal before that ends the  *)
(* process, as no handler is installed.                                    *)

(* Mutant: the REST server comes with the metrics only.                    *)
StartUpNested ==
  /\ main = "start" /\ Starts(conf)
  /\ main' = "select"
  /\ http' = [k \in Servers |-> IF conf.metrics /\ (k = "metrics" \/ conf.rest)
                                  THEN "spawned" ELSE "off"]
  /\ collector' = IF conf.metrics THEN "spawned" ELSE "off"
  /\ discovery' = IF Discovers THEN "spawned" ELSE "off"
  /\ UNCHANGED <<conf, ready, client, signals, raised, pending, shutdown, profVars>>

StartUp ==
  /\ main = "start" /\ Starts(conf)
  /\ main' = "select"
  /\ http' = [k \in Servers |-> IF conf[k] THEN "spawned" ELSE "off"]
  /\ collector' = IF conf.metrics THEN "spawned" ELSE "off"
  /\ discovery' = IF Discovers THEN "spawned" ELSE "off"
  /\ UNCHANGED <<conf, ready, client, signals, raised, pending, shutdown, profVars>>

(* The proxy's own port is taken: bind().unwrap() panics when the tasks    *)
(* are spawned already, and the runtime is dropped with them.              *)
StartUpPortTaken ==
  /\ main = "start" /\ Starts(conf)
  /\ main' = "stopping"
  /\ shutdown' = TRUE
  /\ http' = [k \in Servers |-> IF conf[k] THEN "spawned" ELSE "off"]
  /\ collector' = IF conf.metrics THEN "spawned" ELSE "off"
  /\ discovery' = IF Discovers THEN "spawned" ELSE "off"
  /\ UNCHANGED <<conf, ready, client, signals, raised, pending, profVars>>

(* main returns an error or panics over its arguments.                     *)
StartFails ==
  /\ main = "start" /\ ~Starts(conf)
  /\ main' = "failed"
  /\ UNCHANGED <<conf, http, collector, discovery, ready, client, signals,
                 raised, pending, shutdown, profVars>>

(* start_auto_collect: the task takes a worker ...                         *)
StartAutoCollect ==
  /\ WorkerFree /\ collector = "spawned"
  /\ collector' = "spinning"
  /\ UNCHANGED <<conf, main, http, discovery, ready, client, signals, raised,
                 pending, shutdown, profVars>>

(* Mutant: the loop ends on Init.                                          *)
CollectStopsOnInit ==
  /\ collector = "spinning" /\ ~shutdown
  /\ collector' = "stopped"
  /\ UNCHANGED <<conf, main, http, discovery, ready, client, signals, raised,
                 pending, shutdown, profVars>>

(* ... until it sees Cancel, or that the sender is gone (unwrap panics).   *)
CollectStops ==
  /\ collector = "spinning" /\ shutdown
  /\ collector' = "stopped"
  /\ UNCHANGED <<conf, main, http, discovery, ready, client, signals, raised,
                 pending, shutdown, profVars>>

(* discover_with_retry waits for a control plane, and keeps its worker.    *)
Discover ==
  /\ WorkerFree /\ discovery = "spawned"
  /\ discovery' = "waiting"
  /\ UNCHANGED <<conf, main, http, collector, ready, client, signals, raised,
                 pending, shutdown, profVars>>

(* The resolver's task has found one and notifies.                         *)
ControlPlaneKnown ==
  /\ WorkerFree /\ discovery = "waiting"
  /\ discovery' = "past"
  /\ UNCHANGED <<conf, main, http, collector, ready, client, signals, raised,
                 pending, shutdown, profVars>>

(* start_server: both servers have the same port; bind().unwrap() panics   *)
(* in the one that comes second.                                           *)
Bind(k) ==
  /\ WorkerFree /\ http[k] = "spawned"
  /\ http' = [http EXCEPT ![k] =
                IF \E j \in Servers : Serving(j) THEN "panicked" ELSE "serving"]
  /\ UNCHANGED <<conf, main, collector, discovery, ready, client, signals,
                 raised, pending, shutdown, profVars>>

(* shutdown_await is over: the server accepts no more and drains.          *)
Drain(k) ==
  /\ WorkerFree /\ Serving(k) /\ shutdown
  /\ http' = [http EXCEPT ![k] = "drained"]
  /\ UNCHANGED <<conf, main, collector, discovery, ready, client, signals,
                 raised, pending, shutdown, profVars>>

(* initialize_async with a static router: the pools are built in the       *)
(* order of the list.                                                      *)
InitBackendPool ==
  /\ WorkerFree /\ IsStatic(conf) /\ ready < Listed
  /\ ready' = ready + 1
  /\ UNCHANGED <<conf, main, http, collector, discovery, client, signals,
                 raised, pending, shutdown, profVars>>

----------------------------------------------------------------------------
(* The accept loop.  Each turn makes a new shutdown_signal(): what an      *)
(* earlier one saw is dropped with it, and what is broadcast between two   *)
(* turns is seen by none.                                                  *)
Accept(s) ==
  /\ WorkerFree /\ main = "select" /\ client[s] = "out"
  /\ main' = "accept"
  /\ client' = [client EXCEPT ![s] = "accepted"]
  /\ pending' = FALSE
  /\ UNCHANGED <<conf, http, collector, discovery, ready, signals, raised,
                 shutdown, profVars>>

NextTurn ==
  /\ main = "accept"
  /\ main' = "select"
  /\ UNCHANGED <<conf, http, collector, discovery, ready, client, signals,
                 raised, pending, shutdown, profVars>>

(* connect with a static router: any backend of the list is picked.  Its   *)
(* pool is looked up under the instance itself, which is the key the pool  *)
(* was stored under: the i-th has one once `ready' is beyond i, and the    *)
(* client is refused before.                                               *)
ConnectToBackend(s, i) ==
  /\ WorkerFree /\ IsStatic(conf) /\ client[s] = "accepted"
  /\ client' = [client EXCEPT ![s] = IF i < ready THEN "routed" ELSE "refused"]
  /\ UNCHANGED <<conf, main, http, collector, discovery, ready, signals, raised,
                 pending, shutdown, profVars>>

(* RandomBalancer::balance.                                                *)
Balance(n) == 0..(n - 1)

(* StaticRouter::selector: a place of its list.                            *)
Selector == Balance(Listed)

(* SIGINT or SIGTERM arrives (external) ...                                *)
Raise ==
  /\ Running /\ signals > 0
  /\ signals' = signals - 1
  /\ raised' = TRUE
  /\ UNCHANGED <<conf, main, http, collector, discovery, ready, client,
                 pending, shutdown, profVars>>

(* Mutant: the select that waits is not told.                              *)
BroadcastLost ==
  /\ WorkerFree /\ raised
  /\ raised' = FALSE
  /\ pending' = (pending \/ main = "accept")
  /\ UNCHANGED <<conf, main, http, collector, discovery, ready, client,
                 signals, shutdown, profVars>>

(* ... and is broadcast by the driver to those that wait now.              *)
Broadcast ==
  /\ WorkerFree /\ raised
  /\ raised' = FALSE
  /\ pending' = (pending \/ main = "select")
  /\ UNCHANGED <<conf, main, http, collector, discovery, ready, client,
                 signals, shutdown, profVars>>

(* The signal's branch: Cancel is sent and the loop left.                  *)
ShutdownSignal ==
  /\ main = "select" /\ pending
  /\ main' = "stopping"
  /\ shutdown' = TRUE
  /\ pending' = FALSE
  /\ UNCHANGED <<conf, http, collector, discovery, ready, client, signals,
                 raised, profVars>>

(* The runtime is dropped: tasks end where they wait, but a worker that is *)
(* kept is waited for.  With the process, the profiler's threads end.      *)
Exit ==
  /\ main = "stopping" /\ Kept = 0
  /\ \A c \in Calls : prof[c] # "spawning"
  /\ main' = "exited"
  /\ prof' = [c \in Calls |-> IF Alive(c) THEN "ended" ELSE prof[c]]
  /\ guard' = NoCall
  /\ starting' = FALSE
  /\ UNCHANGED <<conf, http, collector, discovery, ready, client, signals,
                 raised, pending, shutdown, fsFailed>>

----------------------------------------------------------------------------
(* The REST handlers of the CPU profiler.                                  *)
Requested == WorkerFree /\ \E k \in Servers : Serving(k)

StartCpuProf(c) == Requested /\ Start(c) /\ UNCHANGED srvVars

StopCpuProf == Requested /\ Stop /\ UNCHANGED srvVars

Spawned(c) == (ProfSample(c) \/ ProfSampleFails(c)) /\ UNCHANGED srvVars

Thread(c) == ThreadStep(c) /\ UNCHANGED srvVars

Next ==
  \/ StartUp \/ StartUpPortTaken \/ StartFails \/ StartAutoCollect \/ CollectStops \/ Discover \/ ControlPlaneKnown
  \/ \E k \in Servers : Bind(k) \/ Drain(k)
  \/ InitBackendPool
  \/ \E s \in Clients : Accept(s) \/ \E i \in Selector : ConnectToBackend(s, i)
  \/ NextTurn \/ Raise \/ Broadcast \/ ShutdownSignal \/ Exit
  \/ StopCpuProf
  \/ \E c \in Calls : StartCpuProf(c) \/ Spawned(c) \/ Thread(c)

(* Fairness: main and the tasks that have a worker go on; idle workers     *)
(* take what is ready; the profiler's threads are scheduled.  Nothing is   *)
(* assumed of clients, signals, requests and the control plane.            *)
Fairness ==
  /\ WF_vars(StartUp) /\ WF_vars(NextTurn) /\ WF_vars(ShutdownSignal)
  /\ WF_vars(Exit) /\ WF_vars(CollectStops) /\ WF_vars(Broadcast)
  /\ WF_vars(InitBackendPool)
  /\ \A k \in Servers : WF_vars(Bind(k))
  /\ \A c \in Calls : WF_vars(Spawned(c)) /\ WF_vars(Thread(c))

Spec == Init /\ [][Next]_vars /\ Fairness

----------------------------------------------------------------------------
(* A server dies of the port only while the other one has it: with both    *)
(* flags given the proxy still has a web service (main.rs:91-125).         *)
PortIsHeld ==
  \A k \in Servers : http[k] = "panicked" =>
    \E j \in Servers : http[j] \in {"serving", "drained"}

(* With enough workers a proxy that was told to, and understands all it    *)
(* was told, has a web service, and with the metrics alone it is the one   *)
(* that serves them.                                                       *)
WebServiceStarts ==
  Enough /\ Starts(conf) /\ (conf.metrics \/ conf.rest) ~>
    \/ shutdown
    \/ IF conf.rest THEN \E k \in Servers : Serving(k) ELSE Serving("metrics")

(* A signal that comes while no client is connecting stops the proxy, if   *)
(* one of its workers is never kept (main.rs:185-204).                     *)
SignalStops ==
  (Enough /\ raised /\ main = "select" /\ \A s \in Clients : client[s] # "out")
    ~> shutdown

(* A proxy that was told to stop exits: the collector sees the message.    *)
(* Only discovery that still waits for a control plane can hold it.        *)
StoppedExits ==
  main = "stopping" /\ (IsStatic(conf) \/ discovery = "past") ~> main = "exited"
==============================================================================
