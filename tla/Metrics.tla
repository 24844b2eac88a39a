------------------------------- MODULE Metrics -------------------------------
(***************************************************************************)
(* The metrics of the proxy (common/src/metrics, common/src/sys_utils.rs): *)
(* the recorder that is installed at start-up, the latency timer of every  *)
(* command, the gauges of connections and of the process, and the number   *)
(* of CPUs that is reported.                                               *)
(*                                                                         *)
(* A fraction is a pair <<numerator, denominator>>.                        *)
(***************************************************************************)
EXTENDS Integers, FiniteSets

CONSTANTS
  Sessions,  \* client sessions
  Bytes,     \* first bytes of the packets that clients send
  Hosts,     \* the machines the proxy runs on
  Flags,     \* values of --enable-metrics
  MaxTurns,  \* commands that are sent to backends, per first byte
  MaxUse     \* CPU seconds the process uses

(* A host: is_linux, is_container, has_cgroup, the list of version 2's     *)
(* controllers, whether the CPU controller is on, the two files of the     *)
(* limit, what available_parallelism answers.  Without a root directory    *)
(* nothing is below it.                                                    *)
HostOK(h) ==
  /\ {h.linux, h.container, h.root, h.v2, h.active} \subseteq BOOLEAN
  /\ h.v2 \/ h.active => h.root
  /\ h.cpus \in Nat \ {0}

ASSUME MetricsAssumption ==
  /\ \A h \in Hosts : HostOK(h)
  /\ Bytes \subseteq 0..255
  /\ Flags \subseteq BOOLEAN
  /\ IsFiniteSet(Sessions)
  /\ MaxTurns \in Nat /\ MaxUse \in Nat

VARIABLES
  host,     \* where the proxy runs
  enabled,  \* --enable-metrics
  boot,     \* start_metrics_and_rest: start, context, recorder, served
  handle,   \* is PROMETHEUS_HANDLE set?
  turn,     \* of a session: out, idle, forward, ended
  timer,    \* the command a session's MetricsTimer was made for
  sent,     \* commands written to a backend, per first byte (history)
  samples,  \* PROXY_COM_LATENCY: samples per label
  conns,    \* PROXY_CURR_CONN
  used,     \* CPU seconds used so far
  cpuTotal, \* CPU_TOTAL
  cores,    \* CPU_CORE_NUM
  scraped   \* what /metrics last answered: none, message, text

metVars == <<host, enabled, boot, handle, turn, timer, sent, samples, conns,
             used, cpuTotal, cores, scraped>>

NoTimer == -1
Unset == <<0, 0>>

MetInit ==
  /\ host \in Hosts /\ enabled \in Flags
  /\ boot = "start" /\ handle = FALSE
  /\ turn = [s \in Sessions |-> "out"]
  /\ timer = [s \in Sessions |-> NoTimer]
  /\ sent = [b \in Bytes |-> 0] /\ samples = [b \in Bytes |-> 0]
  /\ conns = 0
  /\ used = 0 /\ cpuTotal = 0 /\ cores = Unset
  /\ scraped = "none"

----------------------------------------------------------------------------
(* The number of CPUs: available_parallelism, which on Linux minds the     *)
(* affinity and the quota of the control group already.                    *)
SysCpu(h) == <<h.cpus, 1>>

(* Path of version 2's list of controllers.                                *)
CgroupVersion(h) == IF h.v2 THEN "V2" ELSE "V1"

(* What a file of the limit holds: parse::<usize> takes a number.          *)
Absent == -1
MaxWord == -2
Text == -3
IsUsize(f) == f >= 0

(* get_container_cpu_limit_v1 and _v2, an error being the empty set.  In   *)
(* version 1 "max" is taken before the period is read, in version 2 both   *)
(* are fields of one file, which must have two.                            *)
LimitV1(h) ==
  IF h.quota = MaxWord THEN {SysCpu(h)}
  ELSE IF IsUsize(h.quota) /\ IsUsize(h.period) THEN {<<h.quota, h.period>>}
  ELSE {}

LimitV2(h) ==
  IF Absent \in {h.quota, h.period} THEN {} ELSE LimitV1(h)

GetContainerCpu(h) ==
  IF CgroupVersion(h) = "V1" THEN LimitV1(h) ELSE LimitV2(h)

(* get_total_cpu: Linux, a container and a machine with control groups     *)
(* take that number, and nothing is left for the limit of the files.       *)
GetTotalCpu(h) ==
  IF h.linux \/ h.container \/ h.root \/ ~h.active \/ GetContainerCpu(h) = {}
    THEN SysCpu(h)
    ELSE CHOOSE l \in GetContainerCpu(h) : TRUE

----------------------------------------------------------------------------
(* start_metrics_and_rest, in main's thread: init_metrics stores the       *)
(* handle and installs the recorder, ProcessRecorder::new registers the    *)
(* gauges, and then the tasks are spawned.                                 *)
InitMetrics ==
  /\ boot = "start" /\ enabled
  /\ boot' = "context"
  /\ handle' = TRUE
  /\ UNCHANGED <<host, enabled, turn, timer, sent, samples, conns, used,
                 cpuTotal, cores, scraped>>

NewRecorder ==
  /\ boot = "context"
  /\ boot' = "recorder"
  /\ UNCHANGED <<host, enabled, handle, turn, timer, sent, samples, conns,
                 used, cpuTotal, cores, scraped>>

Spawn ==
  /\ boot = IF enabled THEN "recorder" ELSE "start"
  /\ boot' = "served"
  /\ UNCHANGED <<host, enabled, handle, turn, timer, sent, samples, conns,
                 used, cpuTotal, cores, scraped>>

(* metrics_get: the route exists when the metrics are on.                  *)
Render ==
  /\ boot = "served" /\ enabled
  /\ scraped' = IF handle THEN "text" ELSE "message"
  /\ UNCHANGED <<host, enabled, boot, handle, turn, timer, sent, samples,
                 conns, used, cpuTotal, cores>>

(* The process uses CPU time (external).                                   *)
Use ==
  /\ used < MaxUse
  /\ used' = used + 1
  /\ UNCHANGED <<host, enabled, boot, handle, turn, timer, sent, samples,
                 conns, cpuTotal, cores, scraped>>

(* A bound on the gauge.                                                   *)
MaxCpuTotal == 2 * MaxUse

(* ProcessRecorder::collect on Linux: without /proc nothing is set; else   *)
(* the total is added to the gauge, as cpu_total_value keeps its zero.     *)
Collect ==
  /\ boot = "served" /\ enabled
  /\ cpuTotal' = cpuTotal + used /\ cpuTotal' <= MaxCpuTotal
  /\ cores' = GetTotalCpu(host)
  /\ UNCHANGED <<host, enabled, boot, handle, turn, timer, sent, samples,
                 conns, used, scraped>>

----------------------------------------------------------------------------
(* One turn of on_com.                                                     *)
ComQuit == 1

(* CommandCode::from_u8 knows these, ...                                   *)
CommandCodes == 0..32

(* ... and init_sql_com_labels has a label for these.                      *)
SqlComLabels == 0..32

Connect(s) ==
  /\ boot = "served" /\ turn[s] = "out"
  /\ turn' = [turn EXCEPT ![s] = "idle"]
  /\ UNCHANGED <<host, enabled, boot, handle, timer, sent, samples, conns,
                 used, cpuTotal, cores, scraped>>

(* The client is gone, sends a byte that is no command (unwrap panics), or *)
(* the backend cannot be written to.                                       *)
Unsent(s) ==
  /\ turn[s] = "idle"
  /\ turn' = [turn EXCEPT ![s] = "ended"]
  /\ UNCHANGED <<host, enabled, boot, handle, timer, sent, samples, conns,
                 used, cpuTotal, cores, scraped>>

(* write_to_backend, then the label, then the timer: without a label       *)
(* unwrap panics.                                                          *)
WriteToBackend(s, b) ==
  /\ turn[s] = "idle" /\ b \in CommandCodes /\ sent[b] < MaxTurns
  /\ sent' = [sent EXCEPT ![b] = @ + 1]
  /\ turn' = [turn EXCEPT ![s] = IF b \in SqlComLabels THEN "forward" ELSE "ended"]
  /\ timer' = [timer EXCEPT ![s] = IF b \in SqlComLabels THEN b ELSE NoTimer]
  /\ UNCHANGED <<host, enabled, boot, handle, samples, conns, used,
                 cpuTotal, cores, scraped>>

(* MetricsTimer::drop records a sample, if a recorder is installed.        *)
Dropped(s) ==
  /\ samples' = IF enabled THEN [samples EXCEPT ![timer[s]] = @ + 1] ELSE samples
  /\ timer' = [timer EXCEPT ![s] = NoTimer]

(* forward succeeds: COM_QUIT lowers the gauge and ends the session.       *)
Forward(s) ==
  /\ turn[s] = "forward"
  /\ LET quit == timer[s] = ComQuit
         one == IF quit THEN 1 ELSE 0
     IN /\ turn' = [turn EXCEPT ![s] = IF quit THEN "ended" ELSE "idle"]
        /\ conns' = IF enabled THEN conns - one ELSE conns
  /\ Dropped(s)
  /\ UNCHANGED <<host, enabled, boot, handle, sent, used, cpuTotal, cores, scraped>>

(* Mutant: only a turn that succeeds is timed.                             *)
ForwardFailsUntimed(s) ==
  /\ turn[s] = "forward"
  /\ turn' = [turn EXCEPT ![s] = "ended"]
  /\ timer' = [timer EXCEPT ![s] = NoTimer]
  /\ UNCHANGED <<host, enabled, boot, handle, sent, samples, conns, used,
                 cpuTotal, cores, scraped>>

(* forward returns an error, panics, or is dropped with the runtime: the   *)
(* timer is dropped with the frame.                                        *)
ForwardFails(s) ==
  /\ turn[s] = "forward"
  /\ turn' = [turn EXCEPT ![s] = "ended"]
  /\ Dropped(s)
  /\ UNCHANGED <<host, enabled, boot, handle, sent, conns, used,
                 cpuTotal, cores, scraped>>

(* The sessions in S, and the process.                                     *)
MetNext(S) ==
  \/ InitMetrics \/ NewRecorder \/ Spawn \/ Render \/ Use \/ Collect
  \/ \E s \in S :
       \/ Connect(s) \/ Unsent(s) \/ Forward(s) \/ ForwardFails(s)
       \/ \E b \in Bytes : WriteToBackend(s, b)

----------------------------------------------------------------------------
(* Every command that reached a backend is timed exactly once and under    *)
(* its own name, however its turn ends (metrics/mod.rs:116-123 and         *)
(* haentgl_server.rs:244-264).                                             *)
TurnsAreTimed ==
  enabled => \A b \in Bytes :
    samples[b] + Cardinality({s \in Sessions : timer[s] = b}) = sent[b]
==============================================================================
