----------------------------- MODULE HeapProfiler -----------------------------
(***************************************************************************)
(* The heap profiler behind the REST interface                             *)
(* (common/src/profiling/head_profiler.rs): a profiler that the first      *)
(* request for a dump makes, behind a cell that may be filled once, and    *)
(* jeprof, which is run on a dump and writes one file.                     *)
(***************************************************************************)
EXTENDS Naturals

CONSTANTS
  Dumps,     \* requests of /mem_dump
  Analyses   \* requests of /mem_prof_analysis

VARIABLES
  optProf,   \* opt.prof, read from jemalloc
  cell,      \* HEAP_PROF: is the profiler there?
  dump,      \* idle, waiting, making, dumping, dir, refused, failed
  analysis,  \* idle, jeprof, opened, done, failed
  file       \* "collapsed": the analyses whose output it has a part of

heapVars == <<optProf, cell, dump, analysis, file>>

HeapInit ==
  /\ optProf \in BOOLEAN
  /\ cell = FALSE
  /\ dump = [d \in Dumps |-> "idle"]
  /\ analysis = [a \in Analyses |-> "idle"]
  /\ file = {}

----------------------------------------------------------------------------
(* dump_mem_profile calls memory_profile: get_or_try_init takes the        *)
(* profiler that is there, ...                                             *)
DumpMemProfile(d) ==
  /\ dump[d] = "idle"
  /\ dump' = [dump EXCEPT ![d] = IF cell THEN "dumping" ELSE "waiting"]
  /\ UNCHANGED <<optProf, cell, analysis, file>>

Making == \E d \in Dumps : dump[d] = "making"

(* Mutant: whoever waits is woken by a profiler that was made only.        *)
GetOrTryInitOnce(d) ==
  /\ dump[d] = "waiting" /\ ~Making
  /\ cell \/ \A e \in Dumps : dump[e] \notin {"refused", "failed"}
  /\ dump' = [dump EXCEPT ![d] = IF cell THEN "dumping" ELSE "making"]
  /\ UNCHANGED <<optProf, cell, analysis, file>>

(* ... or waits for whoever makes it, and then takes it or makes it.       *)
GetOrTryInit(d) ==
  /\ dump[d] = "waiting" /\ ~Making
  /\ dump' = [dump EXCEPT ![d] = IF cell THEN "dumping" ELSE "making"]
  /\ UNCHANGED <<optProf, cell, analysis, file>>

(* new_with_opts: refused where opt.prof is on, else made, ...             *)
NewWithOpts(d) ==
  /\ dump[d] = "making"
  /\ dump' = [dump EXCEPT ![d] = IF optProf THEN "refused" ELSE "dumping"]
  /\ cell' = (cell \/ ~optProf)
  /\ UNCHANGED <<optProf, analysis, file>>

(* ... or create_dir_all fails, or one of the three mib() has nothing to   *)
(* unwrap: the cell stays empty, and free for whoever waits.               *)
CreateDirFails(d) ==
  /\ dump[d] = "making" /\ ~optProf
  /\ dump' = [dump EXCEPT ![d] = "failed"]
  /\ UNCHANGED <<optProf, cell, analysis, file>>

(* jemalloc's prof.dump writes a profile only where opt.prof is on, and if *)
(* the file can be written (external).                                     *)
JemallocDumps == IF optProf THEN {"dir", "failed"} ELSE {"failed"}

(* dump_profile: the directory, or jemalloc's error.                       *)
DumpProfile(d) ==
  /\ dump[d] = "dumping"
  /\ \E r \in JemallocDumps : dump' = [dump EXCEPT ![d] = r]
  /\ UNCHANGED <<optProf, cell, analysis, file>>

----------------------------------------------------------------------------
(* heap_analysis: jeprof runs in a thread of its own, ...                  *)
HeapAnalysis(a) ==
  /\ analysis[a] = "idle"
  /\ analysis' = [analysis EXCEPT ![a] = "jeprof"]
  /\ UNCHANGED <<optProf, cell, dump, file>>

(* ... cannot be started or ends with an error, ...                        *)
JeprofFails(a) ==
  /\ analysis[a] = "jeprof"
  /\ analysis' = [analysis EXCEPT ![a] = "failed"]
  /\ UNCHANGED <<optProf, cell, dump, file>>

(* ... or its output is written with fs::write, which empties the file ... *)
Open(a) ==
  /\ analysis[a] = "jeprof"
  /\ analysis' = [analysis EXCEPT ![a] = "opened"]
  /\ file' = {}
  /\ UNCHANGED <<optProf, cell, dump>>

(* ... and writes from its beginning: what another one wrote since may be  *)
(* longer, and stays behind it.                                            *)
Write(a) ==
  /\ analysis[a] = "opened"
  /\ analysis' = [analysis EXCEPT ![a] = "done"]
  /\ file' \in {{a}, file \cup {a}}
  /\ UNCHANGED <<optProf, cell, dump>>

(* It fails when it has written nothing, or a part of its output.          *)
WriteFails(a) ==
  /\ analysis[a] = "opened"
  /\ analysis' = [analysis EXCEPT ![a] = "failed"]
  /\ file' \in {file, {a}, file \cup {a}}
  /\ UNCHANGED <<optProf, cell, dump>>

DumpStep(d) ==
  GetOrTryInit(d) \/ NewWithOpts(d) \/ CreateDirFails(d) \/ DumpProfile(d)

AnalysisStep(a) == JeprofFails(a) \/ Open(a) \/ Write(a) \/ WriteFails(a)

----------------------------------------------------------------------------
(* head_profiler.rs:93-94, "opt.prof != ON please start the sql-proxy with *)
(* proper MALLOC ENV. e.g. MALLOC_CONF=prof:true": a request is refused    *)
(* with this message only where opt.prof is off.                           *)
RefusedOnlyIfOff == \A d \in Dumps : dump[d] = "refused" => ~optProf

(* Requests that wait for another one to make the profiler do not wait for *)
(* ever, also when that one fails: the cell is free again, and the next in *)
(* line tries (head_profiler.rs:80-112 behind get_or_try_init).            *)
Waiting == \E d \in Dumps : dump[d] = "waiting"
DumpsGoOn == Waiting ~> ~Waiting
===============================================================================
