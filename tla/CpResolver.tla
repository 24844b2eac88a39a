------------------------------ MODULE CpResolver ------------------------------
(***************************************************************************)
(* The table of control-plane nodes (backend/control_plane_resolver.rs).   *)
(* A task refreshes it at every tick from the member list that the control *)
(* plane serves over HTTP; the discovery task (module Discovery) picks a   *)
(* node from it and marks the nodes that fail.                             *)
(*                                                                         *)
(* A refresh is not atomic: nodes are connected to one after the other,    *)
(* the other task may read and mark entries in between, and also between a *)
(* connection and the update of its entry.                                 *)
(***************************************************************************)
EXTENDS Naturals

CONSTANTS
  Cps,        \* names of control-plane nodes
  MaxGen,     \* a node restarts until it reaches this generation
  Steady,     \* nodes that run on once they are started
  HttpFails,  \* may a request for the member list fail?
  ConnFails   \* may a connection to a running node fail?

ASSUME CpAssumption ==
  /\ MaxGen \in Nat
  /\ Steady \subseteq Cps
  /\ HttpFails \in BOOLEAN
  /\ ConnFails \in BOOLEAN

VARIABLES
  members,   \* the nodes: is each one up, and what is its latest generation
  resolver,  \* the refreshing task: "tick", "update", "dead" or "stopped"
  fetched,   \* the member list it is working from
  todo,      \* the members it has not seen to yet
  opened,    \* generation of a process it has just connected to, else 0
  cp,        \* CpResolver.cp_backends
  started,   \* CpResolver.started
  shutdown   \* has the process been told to stop?

resolverVars == <<members, resolver, fetched, todo, opened, cp, started, shutdown>>

Generations == 0..MaxGen
Up(n) == members[n].up

(* An entry that is absent has status "none".  `chan' is the generation of *)
(* the process the channel was opened to.                                  *)
Entries ==
  [status : {"none", "Available", "Unavailable"}, gen : Generations,
   chan : Generations]

Absent == [status |-> "none", gen |-> 0, chan |-> 0]

Listed(n) == cp[n].status # "none"

ResolverTypeOK ==
  /\ members \in [Cps -> [up : BOOLEAN, gen : Generations]]
  /\ resolver \in {"tick", "update", "dead", "stopped"}
  /\ fetched \in [Cps -> Generations]
  /\ todo \subseteq Cps
  /\ opened \in [Cps -> Generations]
  /\ cp \in [Cps -> Entries]
  /\ started \in BOOLEAN
  /\ shutdown \in BOOLEAN

ResolverInit ==
  /\ members = [n \in Cps |-> [up |-> FALSE, gen |-> 0]]
  /\ resolver = "tick"
  /\ fetched = [n \in Cps |-> 0]
  /\ todo = {}
  /\ opened = [n \in Cps |-> 0]
  /\ cp = [n \in Cps |-> Absent]
  /\ started = FALSE
  /\ shutdown = FALSE

----------------------------------------------------------------------------
(* The outside world.                                                      *)

(* A node stops, or starts with its next generation.                       *)
MemberLeaves(n) ==
  /\ Up(n)
  /\ n \notin Steady
  /\ members' = [members EXCEPT ![n].up = FALSE]
  /\ UNCHANGED <<resolver, fetched, todo, opened, cp, started, shutdown>>

MemberStarts(n) ==
  /\ ~Up(n)
  /\ members[n].gen < MaxGen
  /\ members' = [members EXCEPT ![n] = [up |-> TRUE, gen |-> @.gen + 1]]
  /\ UNCHANGED <<resolver, fetched, todo, opened, cp, started, shutdown>>

ShutDown ==
  /\ ~shutdown
  /\ shutdown' = TRUE
  /\ UNCHANGED <<members, resolver, fetched, todo, opened, cp, started>>

----------------------------------------------------------------------------
(* The refreshing task.                                                    *)

(* The entries that are not in the new list go.                            *)
DropUnlisted(list) == [n \in Cps |-> IF list[n] = 0 THEN Absent ELSE cp[n]]

(* refresh_backends gets an answer: update_backends first removes the      *)
(* entries of nodes that are gone.                                         *)
FetchMembers ==
  /\ resolver = "tick"
  /\ fetched' = [n \in Cps |-> IF Up(n) THEN members[n].gen ELSE 0]
  /\ todo' = {n \in Cps : Up(n)}
  /\ cp' = DropUnlisted(fetched')
  /\ resolver' = "update"
  /\ UNCHANGED <<members, opened, started, shutdown>>

(* The request or the decoding of its answer fails: `?' ends the task.     *)
FetchFails ==
  /\ HttpFails
  /\ resolver = "tick"
  /\ resolver' = "dead"
  /\ UNCHANGED <<members, fetched, todo, opened, cp, started, shutdown>>

(* Mutant: a newer generation is recorded without taking its channel.      *)
MergedStaleChannel(e, g, ch) ==
  CASE e.status # "Available" -> [status |-> "Available", gen |-> g, chan |-> ch]
    [] g > e.gen -> [e EXCEPT !.gen = g]
    [] OTHER -> e

(* An entry after a successful connection: a new or unavailable one takes  *)
(* the new channel, an available one only that of a newer generation.      *)
Merged(e, g, ch) ==
  IF e.status = "Available" /\ g <= e.gen
    THEN e
    ELSE [status |-> "Available", gen |-> g, chan |-> ch]

(* No channel is waiting to be put in the table.                           *)
NoneOpened == \A n \in Cps : opened[n] = 0

(* CpChannel::new succeeds for one of the listed nodes, ...                *)
Connected(n) ==
  /\ resolver = "update" /\ NoneOpened
  /\ n \in todo
  /\ Up(n)
  /\ opened' = [opened EXCEPT ![n] = members[n].gen]
  /\ UNCHANGED <<members, resolver, fetched, todo, cp, started, shutdown>>

(* ... and its entry is written, with whatever the discovery task made of  *)
(* the entry in the meantime.                                              *)
Merge(n) ==
  /\ opened[n] # 0
  /\ cp' = [cp EXCEPT ![n] = Merged(@, fetched[n], opened[n])]
  /\ todo' = todo \ {n}
  /\ opened' = [opened EXCEPT ![n] = 0]
  /\ UNCHANGED <<members, resolver, fetched, started, shutdown>>

(* It fails: the entry goes.                                               *)
ConnectFailed(n) ==
  /\ resolver = "update" /\ NoneOpened
  /\ n \in todo
  /\ ConnFails \/ ~Up(n)
  /\ todo' = todo \ {n}
  /\ cp' = [cp EXCEPT ![n] = Absent]
  /\ UNCHANGED <<members, resolver, fetched, opened, started, shutdown>>

(* Mutant: nobody is woken up.                                             *)
RefreshedSilently ==
  /\ resolver = "update"
  /\ todo = {}
  /\ resolver' = "tick"
  /\ UNCHANGED <<members, fetched, todo, opened, cp, started, shutdown>>

(* The refresh is over; the first one that leaves an entry in the table    *)
(* wakes up whoever waits for it.                                          *)
Refreshed ==
  /\ resolver = "update"
  /\ todo = {}
  /\ started' = (started \/ \E n \in Cps : Listed(n))
  /\ resolver' = "tick"
  /\ UNCHANGED <<members, fetched, todo, opened, cp, shutdown>>

ResolverStops ==
  /\ resolver = "tick"
  /\ shutdown
  /\ resolver' = "stopped"
  /\ UNCHANGED <<members, fetched, todo, opened, cp, started, shutdown>>

ResolverWorks ==
  \/ FetchMembers \/ Refreshed
  \/ \E n \in Cps : Connected(n) \/ Merge(n) \/ ConnectFailed(n)

World ==
  \/ \E n \in Cps : MemberLeaves(n) \/ MemberStarts(n)
  \/ ShutDown

----------------------------------------------------------------------------
(* Between two refreshes the table lists nodes of the last member list     *)
(* only, however the refresh interleaved with marks of the discovery task. *)
TableIsListed ==
  resolver = "tick" => \A n \in Cps : Listed(n) => fetched[n] # 0

(* An entry's channel was opened to the process whose generation it        *)
(* records, or to a later one: taking a newer generation always comes with *)
(* its channel (control_plane_resolver.rs:206-218).                        *)
ChannelIsFresh == \A n \in Cps : cp[n].chan >= cp[n].gen
==============================================================================
