# Verification of the haentgl MySQL proxy

TLA+ models of the proxy under `src/`, TLC runs that check them on small
instances and TLAPS proofs for every value of the constants. `PROJECT.json`
lists, for every definition, the source lines it stands for.

## 1. The system

A client speaks the MySQL protocol to the proxy. The proxy finds the client's
tenant in its login name, asks a router for a database instance of the tenant,
takes a connection to that instance from a pool, authenticates on it in the
client's name and then passes commands and answers back and forth. The router
learns about instances from a control plane; the proxy in turn reports the
users that were active.

```
 client --- session task --- pool of connections --- MySQL server
                |                    ^
        login name: tenant           | opens and closes pools
                |                    |
             router  <-- lists -- discovery task <-- stream -- control plane
                                     ^                             ^
                              table of nodes <--- resolver (HTTP) -+
 commands --> window of active users --> report service -----------+
```

### Components, their state and their operations

| Component (source below `src/src/proxy/src`) | State | Operations | Talks to |
|---|---|---|---|
| Sessions: `server/haentgl_server.rs`, `server/auth`, `server/forwarder` | one task per client; packets not read yet | `connect`, `on_conn`, authentication, `on_com`, forwarders | pool, MySQL server, router |
| Pool: `backend/pool`, deadpool | permits, queue of idle connections, size, life cycle of each connection | `get` (`create`, `recycle`), drop of an object | sessions |
| Packet codec: `protocol/mysql/packet` | buffer of a reader, sequence number of a writer | `next_async`, `packet`, `end_packet` | sessions |
| Tenant key: `backend/mod.rs`, `basic.rs` | none | encode, decode, split of the login name | sessions, router |
| Backend manager, sync router: `backend/backend_mgr.rs`, `backend/router` | map of pools, watch channel | `init_backend_pool`, `selector`, `connect_to_backend`, `tenant_status` | discovery, sessions, REST |
| Discovery: `backend/backend_discovery.rs` | instance lists, queue of tenant keys | `discover_with_retry`, `send_subscribe`, `recv_stream`, `subscribe_for` | resolver, control plane, router |
| Resolver: `backend/control_plane_resolver.rs` | table of control-plane nodes, round-robin index | `start`, `refresh_backends`, `get_cp_backend`, `mark_backend_unavailable` | discovery, control plane |
| Activity window: `cp/active_users.rs` | two tables, atomic index, counters | `add_active_users`, `put`, `freeze` | report service |
| Report service: `cp/cp_target.rs` | bounded channel per call | `active_users` | window, control plane |
| Process: `cmd/src/main.rs`, `web_service`, `common/src/metrics` | worker threads, web port, pending signal | start-up, accept loop, `start_server`, `start_auto_collect`, shutdown | all |
| Command line: `server/proxy_cli_args.rs` | none | what `main` makes of each option | process |
| CPU profiler: `common/src/profiling/prof.rs` | one flag, sampling threads | `start`, `stop` | REST |
| Heap profiler: `common/src/profiling/head_profiler.rs` | a cell filled once, one output file | `new_with_opts`, `dump_profile`, `heap_analysis` | REST |
| Metrics: `common/src/metrics`, `common/src/sys_utils.rs` | recorder, timers, gauges | `init_metrics`, `collect`, `MetricsTimer::drop`, `get_total_cpu` | sessions, REST |
| Static proxy: `server/static_proxy.rs`, a demonstration without a caller | one session at a time, two packet readers | `on_recv`, `run`, login, `on_cmd` | a `CmdHandler` |

### What is hard here

* Connections outlive the sessions that use them. What a session leaves behind
  (unread packets, a user, session state, a half-done authentication) meets the
  next one; a session can end by return, by `?` or by panic at every await.
* The pool is full, a backend refuses connections, a connection dies while idle.
* The end of an answer is guessed from the first byte and the length of
  packets, while TCP cuts the stream anywhere and messages span frames.
* The discovery task, the notification task and the sessions see different
  moments of the same cluster; a watch channel drops intermediate values.
* The request streams of successive subscriptions share one receiver, and the
  old one is dropped some time after its subscription has ended.
* A refresh of the node table is not atomic, and the discovery task marks
  entries in between; a blocking wait occupies a worker thread.
* The activity window is lock-free: a put, a switch, a copy and a clear
  interleave.
* Two tasks keep the worker thread they run on, two servers want one port, and
  each turn of the accept loop waits for signals anew.
* A HandshakeResponse has optional fields in several encodings and is parsed
  twice, by the proxy and by a library; its tenant key is part of the user name.
* A pooled connection keeps the capabilities of the client it was opened for,
  and the forwarders go by those of the present one.
* One packet reader is wrapped around another that has already read ahead.
* Requests of the web service share one profiler, one guard and one file.
* Arithmetic in u8 and u16: sequence numbers, packet counts, lengths in a
  tenant key.

`PROJECT.json` lists each of these hazards at its line, with the properties
that cover it or the reason why none does.

## 2. Plan and layout

The order of work was: sessions and pool (the core), the cluster view
(BackendSync), the resolver with the discovery task, the activity window with
its report, the wire level of the command phase, tenant keys, logins on bytes,
the process around all of it, then what was left: the demonstration server, the
metrics and the heap profiler, the command line, connections whose flags differ
from their client's, and calls of the control plane that overlap.

| Module | Models | Checked by | Proofs |
|---|---|---|---|
| `Backend` | the MySQL server at the end of one connection (external) | – | – |
| `SessionPool` (extends `Backend`) | sessions, authentication, commands, pool | `session_*` | `SessionPoolProofs` |
| `ConnLease` | abstract specification of the pool | `session_hostile` | `SessionPoolProofs` |
| `KeyStreams` | queue of tenant keys, request streams of subscriptions | through `BackendSync` | `ServerProofs` (types) |
| `BackendSync` (extends `KeyStreams`) | lists, watch channel, pools by instance, routing | `sync_*` | `ServerProofs` |
| `CpResolver` | table of control-plane nodes | through `Discovery` | `ServerProofs` |
| `Discovery` (extends `CpResolver`) | discovery task composed with the resolver | `discovery` | `ServerProofs` |
| `ActivityWindow` | the two tables and the freeze | through `ActiveUsersReport` | `ActiveUsersProofs` |
| `ActiveUsersReport` (extends `ActivityWindow`) | calls of the control plane composed with the window | `window_safe` | `ActiveUsersProofs` |
| `PacketFrames` | framing | through `CommandExchange` and `StaticProxy` | `FramingProofs` |
| `PacketReader` (extends `PacketFrames`) | the buffer of a packet reader | through `CommandExchange` and `StaticProxy` | `FramingProofs`, `RequestProofs` |
| `CommandExchange` (extends `PacketReader`) | command phase of a session on bytes | `exchange` | `FramingProofs`, `RequestProofs`, `CommandExchangeProofs` |
| `StaticProxy` (extends `PacketReader`) | the demonstration server | `static_proxy` | `ServerProofs` |
| `TenantKey` | tenant keys and login names | `handshake` | `LoginProofs` |
| `Handshake` (extends `TenantKey`) | a login on bytes, packet numbers | `handshake` | `LoginProofs` |
| `CpuProfiler` | the profiler's flag and threads | `service` | `ServiceProofs` |
| `CommandLine` | options, and what they make of the router | through `Service` | `ServiceProofs` |
| `Service` (extends `CpuProfiler`, `CommandLine`) | start-up, web service, static router, shutdown | `service` | `ServiceProofs` |
| `Metrics` | recorder, timers, gauges, number of CPUs | through `Diagnostics` | `ServiceProofs` |
| `HeapProfiler` | dumps and analyses of the heap | `heap_dump`, through `Diagnostics` | – |
| `Diagnostics` (extends `Metrics`, `HeapProfiler`) | sessions and web requests that use both | `service` | `ServiceProofs` |

The `MC*` modules add the sets that a `.cfg` cannot write down (symmetry, a
set of pairs, strings). `MCProcess` puts `Service` and `Diagnostics` side by
side: a behaviour follows the life of the process, or its diagnostics. A
definition whose comment begins with "Mutant:" is a
plausible mistake in the definition that follows it; no specification uses it.
`PROJECT.json` says which property each one violates.

What is left for later: a composition of `SessionPool` with `BackendSync` (the
code closes a pool only under a key it is never stored under, so that no pool
is closed while a session holds one of its connections), and a proof that the
demonstration server keeps answers and commands in step (`AnswersInStep`).

## 3. The models

### Sessions and the pool (`Backend`, `SessionPool`, `ConnLease`)

A client has one task; `pc[s]` says which await the task is at. An action is
what the task does between two awaits that someone else can influence. `get`
is deadpool's: a fair semaphore (`waiters`, `permits`), a FIFO of idle objects
(`idle`), `create` and `recycle` of `pooled_conn_mgr.rs`. Dropping the object
puts it back into the queue whatever the reason (`ReturnObject`), and only
`phase = "Connection"`, set when an authentication fails, makes `recycle`
refuse it.

`be[c]` is the server's end of connection `c`: its state, its user, the client
whose statements shaped the session state, and the packets that the proxy has
not read. A packet is its kind and the client whose request it answers. The
proxy reads in order, so a server that answers in the step of the request is
as general as a slow one.

Commands are classes: `query` (ComQuery, ComStmtExecute, ComProcessInfo),
`fetch` (ComFieldList, ComStmtFetch), `generic` (one packet), `close`
(ComStmtClose, no answer), `changeuser`, `infile` (a query the server answers
with LOCAL INFILE), `longdata` (ComStmtSendLongData, no answer). COM_QUIT
becomes a COM_RESET_CONNECTION. COM_STMT_PREPARE is in `CommandExchange`.

A client's answer to the AuthSwitchRequest of a COM_CHANGE_USER is a hash, and
`is_err_packet` takes it for an error when it starts with 0xff
(`ChangeUserAnswerErr`). The constant `AnswersFF` says whether that may happen.

`ConnLease` is what the pool promises: at most `MaxSize` connections are out,
each to one session. `SessionPool` implements it with `lease <- held`.

### The cluster view (`KeyStreams`, `BackendSync`)

`KeyStreams` is the way of a tenant key from POST /tenant (`AddTenant`) to the
control plane. Each subscription has a request stream (`send_stream`), which
asks for the mutex around the receiver (`PollStream`), waits for a key while it
holds it, and lets go of it with the key (`TakeKey`). When a subscription ends,
its stream lives on until the HTTP/2 connection drops it (`DropOld`, external):
it may hold the receiver, and what it takes nobody reads. The bound: a
subscription fails only when the stream before it is gone, so that there is one
old stream at most. After a failure `Subscribe` queues the keys of the table
`tenants` again.

`ChangeEvent` is the body of `recv_stream`: under the lock of the tenant's
list, the entries of the address are dropped, the new instance is added and
published. The watch channel is one value and an "unseen" bit. `TakeChange`
and `InitBackendPool` are the two halves of the notification task, separated by
its await. A session selects (`Selector`) and looks its pool up
(`ConnectToBackend`, `NotConnected`) in two steps. The key of a pool is the
whole instance, status included, as in the code's `Hash`. `Registers` says
whether somebody calls `unsubscribed_tenants`, a public function that nothing in
the repository calls. `Registers = FALSE` is the program as it stands: the first
event ends in `UnknownTenantPanics` (run `sync_topology`). `sync_route` sets it
to TRUE, to see what follows once tenants are registered. A pool that
`InitBackendPool` replaces lives on in the sessions that hold it.

### Control plane (`CpResolver`, `Discovery`)

Nodes stop and restart with a higher generation. A refresh takes the member
list, removes entries that are not in it, then takes the members one by one: it
opens a channel (`Connected`) and, in a later step, puts it into the entry
(`Merge`). Between any two of these steps the discovery task may read the next
entry (`Collect`), pick or mark. `Discovery` has the task from `wait_for_backends_ready` to the end of its
stream; `WorkerFree` is the effect of the blocking Condvar wait: with a single
worker thread the resolver cannot run. `bad` is a history variable: nodes that
failed and have had no new channel since.

### Active users (`ActivityWindow`, `ActiveUsersReport`)

Every atomic load, exchange and table operation is a step. An event is known
by its number, and a table keeps the last event of each user. `taken`,
`again`, `replaced`, `raced` and `met` are history variables. The report task
freezes once per request and sends batches of `ChunkSize` over a channel of
`Capacity`; `Drop` is a control plane that gives up the call.

Calls may overlap: the compare-and-exchange of one fails when another has
switched since it looked, and a second switch makes active again the table that
the first freeze has copied and not yet cleared. `met` counts the freezes that
begin during another, and `OneByOne` says there was none; what is promised of
the window is promised under it. `load` is the size of a case, chosen at the
start: which calls there are and how many events.

### The command phase on bytes (`PacketFrames`, `PacketReader`, `CommandExchange`)

A byte is a pair of its message and its place in it, so a lost, doubled or
moved byte shows. `EndPacket` cuts as `PacketWriter` does (without an empty
frame after an exact multiple), `Cut` as clients and servers do (with it).
`Parsed` is `packet()`: full frames at the front and one that is not full. A
reader is the record of `next_async`: frames, bytes in the buffer, the buffer's
length and the `buffer_size` of the call; `Grown` is the resize before a read.
TCP delivers any number of bytes that fit. The forwarders follow
`query_forward.rs` and `stmt_prepare_forward.rs` loop by loop. The client may
send requests ahead. Histories of an answer are dropped when the next request
is read.

`deof` is the CLIENT_DEPRECATE_EOF flag of the client, which the forwarders go
by, `bdeof` that of the client the connection was opened for, which the server
goes by; COM_CHANGE_USER does not renegotiate it. Where they differ (`~Agreed`)
a forwarder can wait for an end that does not come, or stop before the EOF
packets of a prepared statement; nothing is lost or reordered all the same.

### The demonstration server (`StaticProxy`)

`mode` says which of the two entry points was called: `on_recv`, which takes
clients from a channel and serves them one after the other, or `run`, which
serves one; `buffered` is the caller's choice of a stream. The handshake is read
by a first `PacketReader`; the second one, for all that follows, is made around
it. `held` is what the first has read too much, which `PollRead` hands over in
one slice, with the panic of `put_slice` where it does not fit. A client that
sets CLIENT_SSL sends a handshake without a user and then another one; TLS is
never started. HandshakeResponse320 is parsed and then refused. The `CmdHandler`
accepts or refuses a login, answers or fails (external). Every error of a
session is passed up with `?` and so ends `on_recv` for everybody (`Fails`).

### Tenant keys (`TenantKey`)

A string is a sequence of ASCII codes (so that `len()` in bytes and characters
agree). `ObfuscateChar`, `Header`, `Start` and the rest follow
`backend/mod.rs`, with the wrap-around of the u8 sum; `HexBase` is 16 in the
code and is a parameter so that overflow is reached with short strings.
`DecodePanics` is a slice or a hex digit that is not there.

### A login on bytes (`Handshake`)

`Written` is the client: the bytes of a HandshakeResponse for a set of
capability flags (external, from the protocol's layout). `ClientHandshakeResponse`
is the proxy's parser, one operator for each piece: a parser takes the bytes and
a place and gives a value and the next place, or fails. The attributes are read
in a loop into a map (`Pairs`), in which the later of two with one name counts;
they are text, in ASCII here. The fields of fixed size at the front are left
out, the capabilities are a set of flags. `OfferOK` is what MySQL's
documentation lets a client write.
`InitialHandshake` parses and changes the tenant; on what does not parse,
`unwrap` panics (`ParsePanics`): an empty user or database name, and a password
hash that ends with a NUL, since that NUL is left unread. `GetConn` takes a new
or a used connection, and the server is asked accordingly
(`ReplyHandshakeResponse`, `ContinueAuth`). `cnum` and `snum` are the numbers of
all packets in order.

### The process (`CpuProfiler`, `CommandLine`, `Service`)

`conf` is the command line, chosen at the start. `CommandLine` says what `main`
makes of it: a log level, balancer or router that is not known, and a
synchronised router without the address of a control plane, end the process
(`StartFails`); the name of the router minds its case, `cluster` is read and
ignored. A task step needs an idle
worker (`WorkerFree`); `Kept` counts the workers that the metrics collector
(`StartAutoCollect`) and the waiting discovery task (`Discover`) do not give back. An
idle worker also drives I/O and signals, so that nothing is accepted and no
signal is seen when all are kept. That the collector never yields follows from
its `select!`, whose first branch is ready each time it is polled, in tokio
1.39.1 (external), where `select!` does not take part in cooperative budgeting.
`Broadcast` hands a signal to the future that waits for it; `Accept` drops that
future, with what it saw. `Exit` is the drop of the runtime, which waits for
kept workers. `ConnectToBackend` is a session that meets the static router before or
after its pools are built; what a session does with a pool is `SessionPool`'s.

A call of `start_cpu_prof` and the thread it spawns are one entry of `prof`.
pprof has a single guard, and `build` fails while it is held. `fsFailed`, a
history variable, says that a directory or file could not be created since the
last stop: in that case the flag stays set and nobody samples.

### Metrics and heap profiles (`Metrics`, `HeapProfiler`, `Diagnostics`)

`Metrics` has the start of the recorder step by step, one turn of `on_com` as
far as its timer and its gauge go, `collect` and the number of CPUs. The timer
is dropped with the frame of the turn, by return, `?` or panic (`Dropped`). A
host is what `sys_utils.rs` asks about it; a fraction is a pair. `HeapProfiler`
has the cell that the first dump fills, and `heap_analysis` with `fs::write` as
the two steps it consists of. `file` is the set of analyses whose output the
file has a part of. A request that finds the cell empty while another makes the
profiler waits, and is next when that one fails (`GetOrTryInit`). `Diagnostics` puts them together: `party` is the set of sessions and
requests of a case.

## 4. Runs

| Run | Shows | Bounds and why they are enough | Distinct states |
|---|---|---|---|
| `session_hostile` | `PoolAccounting`, `IsolatedSession`, `LeaseSpec`, whatever clients and servers do | 2 clients, 2 users, 2 connections: a connection can pass from one client to the other while the second connection exists, all command classes, aborts at every await; at most one unread packet before a new request | 586,347 |
| `session_orderly` | `OwnPackets`, `AuthInStep`, `WaiterServed`, `AnswerCompletes` for clients that finish what they began, with `AnswersFF = FALSE` | 3 clients on 1 connection: there is a queue of two behind the holder | 23,121 |
| `session_ff` (violation) | `AuthSwitchAsserted` fails after a COM_CHANGE_USER that is answered with a hash that starts with 0xff, although no client vanishes | smallest case: 2 clients, 1 connection | – |
| `sync_route` | `RoutedToReady`, `LastChangeApplied`, `KeysAreSent`, where tenants are registered | 1 tenant, 2 addresses, 2 statuses: values overtake each other in the channel, and an instance changes under a session that has selected it; 1 session; a current and an old request stream, which contend for the receiver | 104,114 |
| `sync_topology` (violation) | `ListFollowsTopology` fails with the first event when nothing registers tenants | as above | – |
| `discovery` | `ChannelIsFresh`, `IndexInRange`, `FailedNotPicked`, `DiscoveryStarts` | 2 nodes, one of which stops and restarts once, so that a channel to an older process exists, and one that runs on once it is started (`Steady`); 2 workers; requests and connections may fail | 152,932 |
| `window_safe` | `NoDoubleReport`, `LostOnlyIfRaced`, `RepliesComplete`, `EventsAreDelivered` | 2 users, batches of 1: one call and 2 events, so that a reply has two batches on a channel of one; or two calls and 1 event, with freezes that overlap once (`MaxMet`), so that the compare-and-exchange can fail | 279,422 |
| `exchange` | `AnswerIntact`, `RequestIntact`, `NumbersFollow`, `StopsAtEnd`, `CommandAnswered` | payloads up to 3 bytes a frame, requests of 1 byte and, with and without an answer (`query`, `close`), of 4, rows of 3 (an exact multiple) and 4 (two frames); buffers of 2 and 4 bytes: every packet is cut, joined and moved; 2 pipelined commands; packet counts wrap at 5; client and connection with equal and with different flags | 106,350 |
| `handshake` | `RightTenant`, `ReadAsSent`, `SameRequest`, `NumbersInOrder` | all sets of flags; 2 strings for each of 4 fields of a key and one key of other letters, lengths wrap at 16; hashes of 0, 20 and 251 bytes, where a length takes a second byte; empty and non-empty names; an attribute that is given twice | 316,540 |
| `service` | `StartedIsSampled`, `TurnsAreTimed`, `WebServiceStarts`, `SignalStops`, `StoppedExits`, `DumpsGoOn` | all of metrics and REST with the synchronised router, with 3 workers (one more than can be kept) and with 1, which can be kept; metrics or REST with the static router; a command line for every way to fail; 2 profiler calls: one thread outlives its stop while the next starts; 1 client, 1 signal: they meet in one turn of the loop; 2 backends: a client comes between two pools. Or the diagnostics: 2 sessions, 2 dumps or 2 analyses at a time, on a plain host and in a container | 281,026 |
| `static_proxy` | `LoginFirst`, `AnswersInStep`, `CommandsServed` | 2 clients one after the other, 2 commands sent ahead of the answers; buffers of 3 and 6 bytes around packets of 2: the first reader holds none, a part and all of the next packet; every kind of handshake, one byte lost at a disconnect | 57,166 |
| `heap_dump` (violation) | `RefusedOnlyIfOff` fails: a dump is refused with "opt.prof != ON" where it is on | 1 request | – |

Deadlock is checked in the `session_*` and `sync_*` runs. In the others the
system may come to rest: the control plane and its nodes may be gone for good,
the bound on events or commands is reached, a login is done, a client is silent.

The premises of the wire-level properties name what the code does not do:
payloads of exact multiples of the frame size (`Exact`), counts beyond 16 bits
(`wrapped`), flags that differ (`Agreed`), freezes that overlap (`OneByOne`),
tenant keys whose lengths do not fit (`LengthsFit`), user names
with a dot. Rows of an exact multiple, wrapped counts, lengths that do not fit
and such user names occur in the runs, and the properties say that nothing else
goes wrong; requests of an exact multiple are left out by `Requests`.

### Fairness

* `SessionPool`: the runtime polls a task that can go on (weak fairness of
  `TaskStep`); a client that is asked for its password answers or goes away;
  a client that is between two commands again and again leaves some time
  (strong fairness of `LeaveStep`; a client that never leaves keeps its
  connection for ever, by design). The semaphore of tokio is fair, which the
  FIFO `waiters` expresses.
* `BackendSync`: both tasks are polled, and so is the request stream of the
  current subscription (`StreamStep("cur")`). No fairness of the control plane,
  nor of the stream of an ended subscription.
* `Discovery`: both tasks are polled and the ticker ticks; an outstanding
  request is answered or fails; a running node that is connected to again and
  again is reached some time. No fairness of the world or of the stream.
* `ActiveUsersReport`: tasks are polled, and the control plane keeps asking and
  reading on a call it has not given up.
* `CommandExchange`: the task is polled when bytes have arrived, TCP delivers,
  the server answers; the client need not send anything.
* `Service`: `main` and the profiler's threads go on, idle workers take the
  tasks that are ready, the collector looks at its channel again and again. No
  fairness of clients, signals, requests or the control plane. In `Diagnostics`
  a handler that dumps the heap goes on.
* `StaticProxy`: the task is polled when bytes have arrived and the `CmdHandler`
  returns. No fairness of clients, of the channel or of the exit signal.
* `Handshake` has no liveness property.

### Disagreements found

* `authenticator.rs:44` asserts an AuthSwitchRequest; a connection that comes
  back with an unread verdict makes it fail, and `change_user_forward.rs:52`
  gives one back when it takes a hash for an error packet (`session_ff`). The
  connection of a client that vanishes in the middle of an answer does the same.
* `router/mod.rs:128` has the router updating its list "when their topology
  changes"; as nothing fills `tenants`, the first event panics the discovery
  task at `backend_discovery.rs:196` (`sync_topology`).
* `head_profiler.rs:91` refuses to make a profiler when `opt.prof` is on, with a
  message that says "opt.prof != ON" (`heap_dump`). Where it is off the profiler
  is made, and jemalloc dumps nothing.
* `server/mod.rs:130` says of a session "If the backend connection fails, it
  redirects to an available backend connection."; the session ends
  (`ComBackendGone`). No run is made of it: `AnswerCompletes` has the end of the
  session as one of its outcomes.

What the models show without contradicting a comment or a test, and what the
properties therefore name as an exception or a premise:

* A request of several frames reaches the server with the number of the last
  of them, and a COM_RESET_CONNECTION with the number after that of the request
  before it, where MySQL has a new command start with 0 (`NumbersFollow` says
  exactly which numbers; what a server makes of them is outside the model).
* A pool is stored under its Ready instance and looked up under the Offline
  one, so it is neither closed nor removed (`InitBackendPool`); this takes
  registered tenants.
* A key that the stream of an ended subscription takes is lost (`KeysAreSent`
  speaks of the time after that stream is gone).
* A session that arrives before the pools are built is turned away.
* Two analyses of the heap at a time leave pieces of both in one file.
* The verdict on a used connection has the number 3 where the client expects 4
  (`NumbersInOrder`).
* With metrics and REST enabled, which of the two servers gets the port is
  open; if it is the REST server, nobody serves `/metrics` (`WebServiceStarts`).
* With a single worker and metrics, or the synchronised router before the
  control plane is found, nothing is served and no signal is seen (`Enough`).
* A signal that arrives together with a connection is lost (`SignalStops`).
* A proxy that is stopped while discovery still waits does not exit
  (`StoppedExits`). A jeprof that still runs in a blocking thread delays the
  exit too; the model of the exit does not follow it.
* An event put between the copy and the clear of a freeze is lost, although
  `active_users.rs:23` calls the tables concurrency-safe (`LostOnlyIfRaced`:
  nothing else is lost); with overlapping freezes an event can be reported twice.
* COM_STMT_SEND_LONG_DATA is sent to a forwarder that waits for an answer for
  ever (`CommandAnswered`).
* Where the flags of client and connection differ, the answer to a
  COM_STMT_PREPARE is cut short or a result set never ends (`Agreed`).
* The demonstration server answers COM_STMT_CLOSE, which no client expects, and
  shifts all later answers by one; it writes OK packets by its own capabilities
  instead of the client's; it does not flush after a command; and the failure of
  one client ends it for all (`AnswersInStep`, `CommandsServed`).
* `get_total_cpu` returns before it looks at any limit on every host that has
  control groups, so that a container reports the CPUs of its host
  (`GetTotalCpu`).
* `PROXY_CURR_CONN` is only ever decremented (`Forward`), and `collect` adds the
  whole CPU time each second, as the total it means to subtract stays zero
  (`Collect`).
* `--balance p2c` is accepted and then panics in `SyncRouter::selector` for a
  tenant with two instances (`sync_router.rs:88`).

## 5. Proofs

All theorems hold for every value of the constants that satisfies the named
assumptions (`PoolAssumption`, `SyncAssumption`, `CpAssumption`,
`NoneAssumption`, `DiscoveryAssumption`, `WindowAssumption`,
`ReportAssumption`, `FramesAssumption`, `ReaderAssumption`,
`ExchangeAssumption`, `StaticAssumption`, `TenantAssumption`,
`HandshakeAssumption`, `ProfAssumption`, `CliAssumption`, `ServiceAssumption`,
`MetricsAssumption`, `PartiesAssumption`), which TLC
evaluates in the runs.

The specifications define functions by recursion over numbers: the frames of an
answer, the bytes of a wire, the sum of a table, the parser's loop. What such a
function computes is proved with induction over a *set* of numbers: a non-empty
set of naturals has a least element (`Least`), so a set that has 0 and the
successor of each of its members has all of them (`SetInduction`). No proof
needs a predicate as a parameter.

* **SessionPoolProofs.** `PoolInv` is the conjunction of `TypeOK`,
  `ExclusiveConn`, `PermitAccounting`, `SizeBounded` and `RefusedNotReused`,
  and is inductive: exclusiveness of a newly created connection needs
  `SizeBounded`, which needs the permits. All steps of a session fall into few
  shapes for the pool (`Works`: keeps its connection; `Ends`: gives it back),
  and the argument is made once for each shape. The cardinalities change by one
  with an element of a finite set. `PoolAddsUp` is about both counts.
  `PoolImplementsLease` follows from
  `PoolInv`: a step changes `held` for one client at most, and `create` and
  `recycle` hand out connections nobody has. `SessionsAreIsolated` needs
  `AuthInv`: from the moment a session has sent its authentication request
  (`AskedFor`), the server either is not ready, or is ready as the user of
  this session with no other client's state; COM_CHANGE_USER drops the rest.
* **ServerProofs.** `ListIsLatest` of `BackendSync`, that the lists follow the
  topology as long as the discovery task has not panicked, is inductive with
  types.
  `RoutedOnlyToReady` needs `RouteInv`: all keys of pools are Ready instances
  and lists hold instances of their own tenant, which is why a stale selection
  of another status finds no pool. `LoginAlwaysFirst` is about `StaticProxy`: a
  session is at its commands only with an accepted login. `LoginInv` adds that
  nobody has a verdict before the login is decided, where a session can be, and
  that the client's stream is a sequence, which its last packet needs. A
  response without a user is met only before the second handshake of a client
  that asks for TLS. Of `Discovery`: `ResolverInv` relates entries, the last
  list and the members' generations across the steps of a refresh; `DiscInv`
  says that a bad node is available only while its failure is being handled, and
  that no collected nodes are kept while a subscription is up. They give `TableFollowsList`,
  `ChannelsAreFresh`, `IndexIsInRange`, `FailedAreNotPicked`.
* **ActiveUsersProofs.** `SafeInv` says: as long as no freeze has begun during
  another (`OneByOne`), at most one call is inside a freeze (`Solo`) and
  `WindowInv` holds (index, entries, copies), so that the table a freeze clears
  is the one it has copied; hence `NothingReportedTwice` and `OnlyRacedAreLost`,
  for any number of calls. `met` never falls, so that the premise held before
  each step after which it holds. Type correctness and the bound of the channels
  need no such premise, and neither does `RepliesAlwaysComplete`: in `ReplyInv`
  the batches in a channel, after those that were read, end where the reply that
  is being sent has got to (`Sums`), and what was frozen is delivered or on its
  way; a step takes it from one place and leaves it in the next.
* **FramingProofs, RequestProofs, CommandExchangeProofs** are one proof about
  `CommandExchange`, each module extending the one before, for all frame sizes,
  buffer sizes, lengths, numbers of rows and deliveries of TCP. `BufferInv`
  (what a buffer holds fits into it, its size is positive) gives
  `ReaderHasRoom`: no read into an empty buffer. The other theorems are
  `AnswersAlwaysIntact`, `RequestsAlwaysIntact`, `NumbersAlwaysFollow` and
  `AlwaysStopsAtEnd`, in three parts. *Framing* (`FramingProofs`): the k-th
  frame of a message has its k-th piece (`Piece`), of which only the last is not
  full; `Carries(w, ms)` says that the frames `w` are those of the messages
  `ms`. What `Cut` makes of messages carries them, `EndPacket` writes the pieces
  that are not empty (`WrittenIs`), and `packet()` takes exactly the first
  message from a wire that carries some (`TakenIs`). *Answers*
  (`FramingProofs`): the forwarders are an automaton (`Go`), and for every
  request it stops at the end of every answer the server may give, and not
  before (`AnswersStop`). *Ledger* (`RequestProofs` with the steps of the
  requests, `CommandExchangeProofs` with those of the answers): `ExchangeInv`
  says which requests are on the way from the client and to the server and which
  are served: together, and in this order, they are what was asked, with the
  COM_QUIT replaced (`Queue`). It also says which messages are on the way back,
  and that the forwarder at work will stop at the end of them (`Answering`), or
  that the request it waits for is still on its way behind requests without an
  answer. The invariants alone are not inductive: they say nothing about a wire
  while a forwarder reads. The steps of all forwarders have one shape
  (`PacketTaken`) and one proof.
* **LoginProofs.** `ParseRoundTrip`: the parser of a HandshakeResponse gives
  back every field a client has written, for every set of flags that says how
  long the password hash is, all lengths below 2^24 and any number of
  attributes. Each lemma says where a field lies in the packet and that the
  parser goes from its start to its end; for the attributes this is an induction
  over their number, with the map after the first n turns of the loop.
  `KeyRoundTrip`: decoding undoes encoding whenever the lengths fit; by lemmas
  for a letter, a string, a hexadecimal digit, a byte and the pieces of a
  concatenation. `NameSplit`: the last dot of `key.user`. `TenantInv` carries
  both through the steps of a login: `TenantIsRight`, `UserIsRight`. `HsInv` of
  the login on bytes says what is known at each step (`StepInv`), which numbers
  both sides have seen (`ClientNumbers`, `ServerNumbers`) and what was read
  (`ReadInv`, from `ParseRoundTrip`). It gives `AlwaysReadAsSent`,
  `AlwaysSameRequest`, `AlwaysInOrder`, and that the login on bytes implements
  the one on names (`LoginImplementsTenantKey`), from which it inherits
  `PacketTenantIsRight`.
* **ServiceProofs.** `ServiceInv` adds `GuardHeld` to the properties: the thread
  with pprof's guard is in the middle of its period. It is needed where a thread
  panics over the guard: the one that holds it is alive. With it
  `AlwaysSampled` and `PortAlwaysHeld` hold for any number of calls, workers,
  backends and clients. Of `Diagnostics`: `MetricsInv` says that a session has a
  timer exactly while its turn is with the backend, and gives `AlwaysTimed`.

Only model-checked: liveness (`WaiterServed`, `AnswerCompletes`,
`LastChangeApplied`, `DiscoveryStarts`, `KeysAreSent`, `EventsAreDelivered`,
`CommandAnswered`, `WebServiceStarts`, `SignalStops`, `StoppedExits`,
`CommandsServed`, `DumpsGoOn`), which is beyond the prover, and three invariants:

* `AnswersInStep`. It compares the commands of a `StaticProxy` session with its
  answers across two readers, the second of which is fed by the first
  (`PollRead`): its invariant would need a ledger like that of
  `CommandExchange` for both.
* `OwnPackets`, `AuthInStep`. They hold only for clients that finish what they
  began (`session_orderly`); `session_ff` shows the contrary for others, so that they are no theorems about every value of the constants, and an invariant
  would have to follow each unread packet through the states of the server.

Only proved, since the runs' other properties say more about the steps they
take: `TypeOK` of `SessionPool`, `BackendSync`, `Discovery`,
`ActiveUsersReport` and `Service`, `ExclusiveConn`, `RefusedNotReused`,
`ListIsLatest`, `TableIsListed`, `RightUser`, `RoomToRead` and `PortIsHeld`.

## 6. Not modelled

* The contents of packets beyond kind, length, the flags the forwarders read
  and the HandshakeResponse: most of `basic.rs` and `writers.rs`, `auth/mod.rs`.
* The bytes of a HandshakeResponse320 and of the early return for CLIENT_SSL:
  `main` passes `&None` for `tls_conf`, so that TLS is never offered;
  `StaticProxy` has both as what they leave out. TLS itself is never started.
* `start_cp_target` (and with it `--enable-cp`), `load_backends` of both
  routers, `PacketReader::next_read`, the automatic heap profile and most packet
  writers have no caller.
* The gauges of memory, REST handlers that only read files, the host name and
  the names of nodes and namespaces.
* Constant tables (`error_codes.rs`, `charset.rs`, `constants.rs` but for the
  command codes) and generated code (`prost/`).
* Time-outs (the code has none around the pool), and memory ordering beyond the
  atomicity of single accesses.
