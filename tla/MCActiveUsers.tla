---- MODULE MCActiveUsers ----
(* The report service with its window, instantiated for model checking. *)
EXTENDS ActiveUsersReport

CONSTANTS s1, s2

(* One call and two events, or two calls that may overlap and one event. *)
MCLoads == {[calls |-> {s1}, adds |-> 2], [calls |-> {s1, s2}, adds |-> 1]}
====
