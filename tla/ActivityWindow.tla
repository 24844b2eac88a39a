---------------------------- MODULE ActivityWindow ----------------------------
(***************************************************************************)
(* The window of active users (cp/active_users.rs): two tables, one of     *)
(* them active.  A single task takes events from an unbounded channel and  *)
(* puts them into the active table; a freeze switches the tables, copies   *)
(* the one that was active, and clears it.  Nothing is locked: the task    *)
(* that puts and the streams that freeze meet only in the atomic index and *)
(* in the tables.                                                          *)
(*                                                                         *)
(* An event is known by its number: the n-th event that is put has the     *)
(* number n.  A table holds the number of the last event of each user.     *)
(***************************************************************************)
EXTENDS Naturals, Sequences, FiniteSets

CONSTANTS
  Users,    \* keys of a table (the hash of cluster and user)
  Streams,  \* callers of freeze
  MaxAdds,  \* bound on the number of events
  MaxMet,   \* bound on the freezes that begin during another one
  Loads     \* the calls that are made, and how many events come with them

ASSUME WindowAssumption ==
  /\ MaxAdds \in Nat /\ MaxMet \in Nat
  /\ Loads \subseteq [calls : SUBSET Streams, adds : 0..MaxAdds]

VARIABLES
  buf,       \* UserActivityWindow.buf
  putter,    \* the task that takes events from it
  active,    \* SwitchableMaps.active_idx
  table,     \* SwitchableMaps.switchable_table; 0: no entry
  count,     \* UserActivityWindow.count
  size,      \* UserActivityWindow.size, in entries
  rd,        \* the state of each stream
  taken,     \* events that a freeze has copied (history variable)
  again,     \* events that were copied more than once (history variable)
  replaced,  \* events a later event of the user overwrote (history variable)
  raced,     \* events put into a table that was not active any more (history)
  met,       \* how many freezes began during another one (history variable)
  load       \* which load this is; it does not change

tableVars == <<buf, putter, active, table, count, size>>
history == <<taken, again, replaced, raced, met, load>>
windowVars == <<buf, putter, active, table, count, size, rd,
                taken, again, replaced, raced, met, load>>

Other(i) == (i + 1) % 2

(* recv: waits for an event; insert: has loaded the index; count: has put  *)
(* the event into the table and is about to count it.                      *)
Putters ==
  [at : {"recv", "count"}]
    \cup [at : {"insert"}, user : Users, idx : 0..1]

(* out: not in freeze; cas: has loaded the index; iterate: copies table    *)
(* `idx', the users of `todo' are left; clean: has copied it; clear: has   *)
(* loaded the index of the table to clear; frozen: freeze has returned     *)
(* `data'; send: in the middle of sending it; gone: the stream is over.    *)
ReaderSteps == {"out", "cas", "iterate", "clean", "clear", "frozen", "send",
                "gone"}

Readers ==
  [at : ReaderSteps, idx : 0..1, todo : SUBSET Users, data : Seq(Nat)]

WindowTypeOK ==
  /\ buf \in Seq(Users)
  /\ putter \in Putters
  /\ active \in 0..1
  /\ table \in [0..1 -> [Users -> Nat]]
  /\ count \in Nat
  /\ size \in Nat
  /\ rd \in [Streams -> Readers]
  /\ taken \subseteq Nat
  /\ again \subseteq Nat
  /\ replaced \subseteq Nat
  /\ raced \subseteq Nat
  /\ met \in Nat
  /\ load \in Loads

Empty == [u \in Users |-> 0]

WindowInit ==
  /\ load \in Loads
  /\ buf = <<>>
  /\ putter = [at |-> "recv"]
  /\ active = 0
  /\ table = [i \in 0..1 |-> Empty]
  /\ count = 0
  /\ size = 0
  /\ rd = [s \in Streams |->
            [at |-> IF s \in load.calls THEN "out" ELSE "gone",
             idx |-> 0, todo |-> {}, data |-> <<>>]]
  /\ taken = {}
  /\ again = {}
  /\ replaced = {}
  /\ raced = {}
  /\ met = 0

(* The events that have been put into a table.                             *)
PutEvents == 1..(IF putter.at = "count" THEN count + 1 ELSE count)

----------------------------------------------------------------------------
(* Writing.                                                                *)

(* The events so far.                                                      *)
Added == count + Len(buf) + (IF putter.at = "recv" THEN 0 ELSE 1)

(* add_active_users.                                                       *)
AddActiveUser(u) ==
  /\ Added < load.adds
  /\ buf' = Append(buf, u)
  /\ UNCHANGED <<putter, active, table, count, size, rd, history>>

(* The task takes an event, and put loads the index.                       *)
PutLoad ==
  /\ putter.at = "recv"
  /\ buf # <<>>
  /\ putter' = [at |-> "insert", user |-> Head(buf), idx |-> active]
  /\ buf' = Tail(buf)
  /\ UNCHANGED <<active, table, count, size, rd, history>>

(* Mutant: the event is lost when the index has changed in between.        *)
PutInsertChecks ==
  /\ putter.at = "insert"
  /\ table' = IF putter.idx = active
                THEN [table EXCEPT ![active][putter.user] = count + 1]
                ELSE table
  /\ putter' = [at |-> "count"]
  /\ UNCHANGED <<buf, active, count, size, rd, history>>

(* The event goes into the table whose index was loaded.                   *)
PutInsert ==
  /\ putter.at = "insert"
  /\ table' = [table EXCEPT ![putter.idx][putter.user] = count + 1]
  /\ replaced' = replaced \cup ({table[putter.idx][putter.user]} \ {0})
  /\ raced' = IF putter.idx # active THEN raced \cup {count + 1} ELSE raced
  /\ putter' = [at |-> "count"]
  /\ UNCHANGED <<buf, active, count, size, rd, taken, again, met, load>>

(* The two counters follow.                                                *)
PutCount ==
  /\ putter.at = "count"
  /\ count' = count + 1
  /\ size' = size + 1
  /\ putter' = [at |-> "recv"]
  /\ UNCHANGED <<buf, active, table, rd, history>>

----------------------------------------------------------------------------
(* Freezing.                                                               *)

(* In freeze: nothing keeps a second stream out.                           *)
InFreeze(s) == rd[s].at \in {"cas", "iterate", "clean", "clear"}

(* switch loads the index ...                                              *)
FreezeLoad(s) ==
  /\ rd[s].at = "out"
  /\ rd' = [rd EXCEPT ![s].at = "cas", ![s].idx = active]
  /\ met < MaxMet
  /\ met' = met + (IF \E t \in Streams : InFreeze(t) THEN 1 ELSE 0)
  /\ UNCHANGED <<tableVars, taken, again, replaced, raced, load>>

(* ... and changes it, unless another stream has done so,                  *)
Switched(s) ==
  /\ rd[s].at = "cas"
  /\ rd[s].idx = active
  /\ active' = Other(active)
  /\ rd' = [rd EXCEPT ![s].at = "iterate", ![s].todo = Users]
  /\ UNCHANGED <<buf, putter, table, count, size, history>>

(* in which case freeze returns nothing.                                   *)
NotSwitched(s) ==
  /\ rd[s].at = "cas"
  /\ rd[s].idx # active
  /\ rd' = [rd EXCEPT ![s].at = "frozen", ![s].idx = 0]
  /\ UNCHANGED <<tableVars, history>>

(* The iterator goes from shard to shard; it sees the entry of a user when *)
(* it comes to it.                                                         *)
Iterate(s, u) ==
  LET e == table[rd[s].idx][u] IN
  /\ rd[s].at = "iterate"
  /\ u \in rd[s].todo
  /\ rd' = [rd EXCEPT ![s].todo = @ \ {u},
                      ![s].data = IF e # 0 THEN Append(@, e) ELSE @]
  /\ taken' = IF e # 0 THEN taken \cup {e} ELSE taken
  /\ again' = IF e # 0 /\ e \in taken THEN again \cup {e} ELSE again
  /\ UNCHANGED <<tableVars, replaced, raced, met, load>>

Iterated(s) ==
  /\ rd[s].at = "iterate"
  /\ rd[s].todo = {}
  /\ rd' = [rd EXCEPT ![s].at = "clean"]
  /\ UNCHANGED <<tableVars, history>>

(* Mutant: the table that is active is cleared.                            *)
CleanLoadActive(s) ==
  /\ rd[s].at = "clean"
  /\ rd' = [rd EXCEPT ![s].at = "clear", ![s].idx = active]
  /\ UNCHANGED <<tableVars, history>>

(* clean_inactive loads the index again ...                                *)
CleanLoad(s) ==
  /\ rd[s].at = "clean"
  /\ rd' = [rd EXCEPT ![s].at = "clear", ![s].idx = Other(active)]
  /\ UNCHANGED <<tableVars, history>>

(* Mutant: the table is not cleared.                                       *)
ClearNot(s) ==
  /\ rd[s].at = "clear"
  /\ size' = 0
  /\ rd' = [rd EXCEPT ![s].at = "frozen", ![s].idx = 0]
  /\ UNCHANGED <<buf, putter, active, table, count, history>>

(* ... and clears the other table; freeze sets the size back and returns.  *)
Clear(s) ==
  /\ rd[s].at = "clear"
  /\ table' = [table EXCEPT ![rd[s].idx] = Empty]
  /\ size' = 0
  /\ rd' = [rd EXCEPT ![s].at = "frozen", ![s].idx = 0]
  /\ UNCHANGED <<buf, putter, active, count, history>>

----------------------------------------------------------------------------
Putting == PutLoad \/ PutInsert \/ PutCount

Freezing(s) ==
  \/ Switched(s) \/ NotSwitched(s) \/ Iterated(s) \/ CleanLoad(s) \/ Clear(s)
  \/ \E u \in Users : Iterate(s, u)

----------------------------------------------------------------------------
(* No two freezes have overlapped.                                         *)
OneByOne == met = 0

(* A snapshot is taken once: as long as freezes do not overlap, no event   *)
(* is in the copies of two of them, although a freeze clears its table     *)
(* long after it has read it and loads the index of the table to clear     *)
(* anew (active_users.rs:42-66).                                           *)
NoDoubleReport == OneByOne => again = {}

InTables == {table[i][u] : i \in 0..1, u \in Users}

(* As long as freezes do not overlap, an event that was put is in a table, *)
(* was copied by a freeze or was overwritten by a later event of its user, *)
(* unless put loaded the index before a switch and stored the event after  *)
(* it (active_users.rs:68-71).                                             *)
LostOnlyIfRaced ==
  OneByOne => PutEvents \subseteq taken \cup replaced \cup raced \cup InTables
==============================================================================
