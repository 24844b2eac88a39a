----------------------------- MODULE CpuProfiler -----------------------------
(***************************************************************************)
(* The CPU profiler (common/src/profiling/prof.rs): one flag, set and      *)
(* cleared by two REST handlers, and threads that look at it once in each  *)
(* sampling period.  A thread is not waited for, so that a stop and a      *)
(* start within one period leave two of them.                              *)
(*                                                                         *)
(* A call of start_cpu_prof and the thread it spawns have the same name.   *)
(***************************************************************************)
CONSTANTS
  Calls,    \* calls of start_cpu_prof
  FsFails,  \* may directories and files fail to be created?
  NoCall    \* "nobody"

ASSUME ProfAssumption == FsFails \in BOOLEAN /\ NoCall \notin Calls

VARIABLES
  starting,  \* Prof.starting
  prof,      \* the state of each call and its thread
  guard,     \* the thread with pprof's guard
  fsFailed   \* did the file system fail since the last stop? (history)

profVars == <<starting, prof, guard, fsFailed>>

(* idle: not called; refused: the flag was set; spawning: has set it;      *)
(* failed: no directory; then the thread: check: looks at the flag; build: *)
(* asks for the guard; sample: sleeps and reports; ended, panicked.        *)
ProfStates == {"idle", "refused", "spawning", "failed",
               "check", "build", "sample", "ended", "panicked"}

ProfTypeOK ==
  /\ starting \in BOOLEAN
  /\ prof \in [Calls -> ProfStates]
  /\ guard \in Calls \cup {NoCall}
  /\ fsFailed \in BOOLEAN

ProfInit ==
  /\ starting = FALSE
  /\ prof = [c \in Calls |-> "idle"]
  /\ guard = NoCall
  /\ fsFailed = FALSE

Alive(c) == prof[c] \in {"check", "build", "sample"}

----------------------------------------------------------------------------
(* Prof::start: the flag is exchanged, ...                                 *)
Start(c) ==
  /\ prof[c] = "idle"
  /\ prof' = [prof EXCEPT ![c] = IF starting THEN "refused" ELSE "spawning"]
  /\ starting' = TRUE
  /\ UNCHANGED <<guard, fsFailed>>

(* ... prof_sample makes the directory and spawns the thread, ...          *)
ProfSample(c) ==
  /\ prof[c] = "spawning"
  /\ prof' = [prof EXCEPT ![c] = "check"]
  /\ UNCHANGED <<starting, guard, fsFailed>>

(* ... or one of the two fails and the flag stays set.                     *)
ProfSampleFails(c) ==
  /\ FsFails
  /\ prof[c] = "spawning"
  /\ prof' = [prof EXCEPT ![c] = "failed"]
  /\ fsFailed' = TRUE
  /\ UNCHANGED <<starting, guard>>

(* Prof::stop, when the flag is set.                                       *)
Stop ==
  /\ starting
  /\ starting' = FALSE
  /\ fsFailed' = FALSE
  /\ UNCHANGED <<prof, guard>>

(* The head of the thread's loop.                                          *)
Check(c) ==
  /\ prof[c] = "check"
  /\ prof' = [prof EXCEPT ![c] = IF starting THEN "build" ELSE "ended"]
  /\ UNCHANGED <<starting, guard, fsFailed>>

(* pprof has one profiler: build fails while another guard exists, and     *)
(* unwrap panics.                                                          *)
Build(c) ==
  /\ prof[c] = "build"
  /\ prof' = [prof EXCEPT ![c] = IF guard = NoCall THEN "sample" ELSE "panicked"]
  /\ guard' = IF guard = NoCall THEN c ELSE guard
  /\ UNCHANGED <<starting, fsFailed>>

(* Mutant: a thread that has reported is done.                             *)
ReportOnce(c) ==
  /\ prof[c] = "sample"
  /\ prof' = [prof EXCEPT ![c] = "ended"]
  /\ guard' = NoCall
  /\ UNCHANGED <<starting, fsFailed>>

(* The period is over: the report is written and the guard dropped.        *)
Report(c) ==
  /\ prof[c] = "sample"
  /\ prof' = [prof EXCEPT ![c] = "check"]
  /\ guard' = NoCall
  /\ UNCHANGED <<starting, fsFailed>>

(* File::create or flamegraph fails: unwrap panics.                        *)
ReportPanics(c) ==
  /\ FsFails
  /\ prof[c] = "sample"
  /\ prof' = [prof EXCEPT ![c] = "panicked"]
  /\ guard' = NoCall
  /\ fsFailed' = TRUE
  /\ UNCHANGED starting

ThreadStep(c) == Check(c) \/ Build(c) \/ Report(c) \/ ReportPanics(c)

----------------------------------------------------------------------------
(* While the profiler counts as started, somebody samples: a start that    *)
(* comes before the last thread has seen the stop makes one of the two     *)
(* threads panic over the guard, and never both (prof.rs:23-98).           *)
StartedIsSampled ==
  starting /\ ~fsFailed /\ (\A c \in Calls : prof[c] # "spawning") =>
    \E c \in Calls : Alive(c)

==============================================================================
