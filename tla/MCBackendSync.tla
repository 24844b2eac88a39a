---------------------------- MODULE MCBackendSync ----------------------------
(* BackendSync for TLC.                                                    *)
EXTENDS BackendSync, TLC

Sym == Permutations(Tenants) \cup Permutations(Addrs) \cup Permutations(Sessions)
==============================================================================
