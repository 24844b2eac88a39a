----------------------------- MODULE Diagnostics -----------------------------
(***************************************************************************)
(* The metrics and the heap profiler together, behind one web service      *)
(* (web_service/src): its handlers run once the servers are spawned.       *)
(***************************************************************************)
EXTENDS Metrics, HeapProfiler

CONSTANT Parties  \* who comes: [sessions, dumps, analyses]

ASSUME PartiesAssumption ==
  \A p \in Parties : /\ p.sessions \subseteq Sessions
                     /\ p.dumps \subseteq Dumps
                     /\ p.analyses \subseteq Analyses

VARIABLE party

diagVars == <<party, metVars, heapVars>>

DiagInit == party \in Parties /\ MetInit /\ HeapInit

(* A request reaches its handler.                                          *)
Requests ==
  /\ boot = "served"
  /\ \/ \E d \in party.dumps : DumpMemProfile(d)
     \/ \E a \in party.analyses : HeapAnalysis(a)
  /\ UNCHANGED <<party, metVars>>

Dumping(d) == DumpStep(d) /\ UNCHANGED <<party, metVars>>

Analysing(a) == AnalysisStep(a) /\ UNCHANGED <<party, metVars>>

DiagNext ==
  \/ MetNext(party.sessions) /\ UNCHANGED <<party, heapVars>>
  \/ Requests
  \/ \E d \in Dumps : Dumping(d)
  \/ \E a \in Analyses : Analysing(a)

DiagSpec == DiagInit /\ [][DiagNext]_diagVars

(* A handler goes on: it is polled, and the thread it blocks in is run.    *)
DiagFairness == \A d \in Dumps : WF_diagVars(Dumping(d))
==============================================================================
