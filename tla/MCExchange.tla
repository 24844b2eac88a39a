----------------------------- MODULE MCExchange -----------------------------
(* The command phase of a session, instantiated for model checking.        *)
EXTENDS CommandExchange

(* Of the requests that are written to the server, one with and one        *)
(* without an answer take two frames.                                      *)
MCRequests == (Commands \X {1}) \cup {<<"query", 4>>, <<"close", 4>>}

(* With CountMod = 5 the last one is too large for a client that wants EOF *)
(* packets.                                                                *)
MCCounts == {<<0, 0>>, <<1, 0>>, <<0, 1>>, <<2, 1>>}

(* A new connection, or a reused one whose first client wanted EOF packets. *)
MCFlags == {<<TRUE, TRUE>>, <<FALSE, FALSE>>, <<TRUE, FALSE>>}
==============================================================================
