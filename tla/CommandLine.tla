----------------------------- MODULE CommandLine -----------------------------
(***************************************************************************)
(* The command line (proxy_cli_args.rs) and the router that is made from   *)
(* it (router/mod.rs, sync_router.rs).  An option that is not given is     *)
(* "none"; a word that no option knows is "other".                         *)
(***************************************************************************)
EXTENDS Naturals

CONSTANTS
  Confs,       \* command lines
  NumBackends  \* addresses of a `backend' subcommand

CliArgs ==
  [metrics : BOOLEAN, rest : BOOLEAN, works : Nat \ {0},
   router : {"none", "static", "STATIC", "sync-with-cp", "other"},
   balance : {"none", "random", "p2c", "other"},
   log : {"none", "INFO", "other"},
   cp : BOOLEAN,
   backend : {"none", "backend", "cluster"}]

ASSUME CliAssumption == Confs \subseteq CliArgs /\ NumBackends \in Nat \ {0}

(* Level::from_str, with DEBUG for none.                                   *)
LevelKnown(c) == c.log # "other"

(* new_backend_opts: BackendLoadBalancerType::from_str(..).unwrap() of the *)
(* name in lower case, which is "random" for none.                         *)
BalancerType(c) == IF c.balance = "none" THEN "random" ELSE c.balance

BackendOptsMade(c) == BalancerType(c) \in {"random", "p2c"}

(* router_type: BackendRouterType::from_str(..).unwrap() minds the case.   *)
RouterTypeKnown(c) == c.router \in {"none", "static", "sync-with-cp"}

(* new_backend_router: the synchronised router by its name only.           *)
IsStatic(c) == c.router # "sync-with-cp"

(* SyncRouter::new unwraps the address of the control plane.               *)
BackendRouterMade(c) == RouterTypeKnown(c) /\ (IsStatic(c) \/ c.cp)

(* static_backend_list: the addresses of `backend', else the one that is   *)
(* built in, for `cluster' too.                                            *)
StaticBackendList(c) == IF c.backend = "backend" THEN NumBackends ELSE 1

(* main gets to its loop.                                                  *)
Starts(c) == LevelKnown(c) /\ BackendOptsMade(c) /\ BackendRouterMade(c)
==============================================================================
