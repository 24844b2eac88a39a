---------------------------- MODULE MCHandshake -----------------------------
(* Logins, instantiated for model checking.                                *)
EXTENDS Handshake

(* "", "b.cyz9" and "Z-1": with HexBase = 4 three long fields do not fit   *)
(* into the sum of the lengths.                                            *)
Long == <<98, 46, 99, 121, 122, 57>>

MCKeys == [1..4 -> {<<>>, Long}] \cup {[i \in 1..4 |-> <<90, 45, 49>>]}

(* "root", "r.x", ""                                                       *)
MCUsers == {<<114, 111, 111, 116>>, <<114, 46, 120>>, <<>>}

Bytes(n) == [i \in 1..n |-> 7]

(* Hashes of no, 20 and 251 bytes (the first length of two bytes), a       *)
(* database or the empty name, and an attribute that is given twice.       *)
MCOffers ==
  [flags : SUBSET DefaultCapabilities, auth : {<<>>, Bytes(20), Bytes(251)},
   db : {<<>>, <<100>>},
   attrs : {<<<<<<107>>, <<118>>>>, <<<<108>>, <<>>>>, <<<<107>>, <<119, 0>>>>>>}]

MCPlugin == <<112>>
==============================================================================
