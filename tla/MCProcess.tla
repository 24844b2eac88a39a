------------------------------ MODULE MCProcess ------------------------------
(* The process for TLC.  Its own life, with nobody at the diagnostics: the *)
(* synchronised router with metrics and REST interface, with three         *)
(* workers, so that one is always free, and with one that a task may keep; *)
(* the static router with either of them, and with none; and, of each kind *)
(* of argument, one that main makes something else of, or fails on.        *)
(*                                                                         *)
(* And its diagnostics, while nothing else of the process is followed: two *)
(* of a kind at a time, on a plain host and in a container with a limit.   *)
EXTENDS Service, Diagnostics

CONSTANTS s1, s2, d1, d2, a1, a2

Conf(metrics, rest, works, router, backend) ==
  [metrics |-> metrics, rest |-> rest, works |-> works, router |-> router,
   balance |-> "none", log |-> "none", cp |-> TRUE, backend |-> backend]

Plain == Conf(FALSE, FALSE, 3, "none", "cluster")

MCConfs ==
  {Conf(TRUE, TRUE, w, "sync-with-cp", "none") : w \in {1, 3}}
    \cup {Conf(m, ~m, 3, "static", "backend") : m \in BOOLEAN}
    \cup {Plain, [Plain EXCEPT !.balance = "p2c", !.log = "INFO"],
          [Plain EXCEPT !.balance = "other"], [Plain EXCEPT !.log = "other"],
          [Plain EXCEPT !.router = "STATIC"], [Plain EXCEPT !.router = "other"],
          [Plain EXCEPT !.router = "sync-with-cp", !.cp = FALSE]}

Party(s, d, a) == [sessions |-> s, dumps |-> d, analyses |-> a]

Nobody == Party({}, {}, {})

MCParties == {Nobody, Party({s1, s2}, {}, {}), Party({}, {d1, d2}, {}),
              Party({}, {}, {a1, a2})}

Dumper == {Party({}, {d1}, {})}

Host(linux, container, root, v2, active, quota, period) ==
  [linux |-> linux, container |-> container, root |-> root, v2 |-> v2,
   active |-> active, quota |-> quota, period |-> period, cpus |-> 4]

PlainHost == Host(FALSE, FALSE, FALSE, FALSE, FALSE, Absent, Absent)

MCHosts == {PlainHost, Host(TRUE, TRUE, TRUE, FALSE, TRUE, 2, 1)}

ProcInit ==
  /\ Init /\ DiagInit
  /\ IF party = Nobody
       THEN host = PlainHost /\ optProf = FALSE /\ enabled = conf.metrics
       ELSE conf = Plain

ProcNext ==
  \/ party = Nobody /\ Next /\ UNCHANGED diagVars
  \/ party # Nobody /\ DiagNext /\ UNCHANGED vars

(* Fairness of Service, while its part is the one that is followed.        *)
Own == party = Nobody

OwnFairness ==
  /\ WF_vars(Own /\ StartUp) /\ WF_vars(Own /\ NextTurn)
  /\ WF_vars(Own /\ ShutdownSignal) /\ WF_vars(Own /\ Exit)
  /\ WF_vars(Own /\ CollectStops) /\ WF_vars(Own /\ Broadcast)
  /\ WF_vars(Own /\ InitBackendPool)
  /\ \A k \in Servers : WF_vars(Own /\ Bind(k))
  /\ \A c \in Calls : WF_vars(Own /\ Spawned(c)) /\ WF_vars(Own /\ Thread(c))

ProcSpec ==
  /\ ProcInit /\ [][ProcNext]_<<vars, diagVars>>
  /\ OwnFairness /\ DiagFairness
==============================================================================
