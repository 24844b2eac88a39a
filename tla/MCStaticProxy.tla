---------------------------- MODULE MCStaticProxy ----------------------------
(* The static proxy, instantiated for model checking.                      *)
EXTENDS StaticProxy

(* The service with its channel, and a single session whose caller has a   *)
(* plain or a buffered stream.                                             *)
MCCallers == {[mode |-> "recv", buffered |-> FALSE],
              [mode |-> "run", buffered |-> FALSE],
              [mode |-> "run", buffered |-> TRUE]}

MCPlain == [whole |-> TRUE, p41 |-> TRUE, ssl |-> FALSE, empty |-> FALSE,
            native |-> TRUE, db |-> "bytes", track |-> FALSE]

(* Clients that log in at once; that ask for TLS and need another method;  *)
(* that speak the old protocol; that send too little.                      *)
MCHandshakes ==
  {MCPlain,
   [MCPlain EXCEPT !.ssl = TRUE, !.empty = TRUE, !.native = FALSE,
                   !.db = "utf8", !.track = TRUE],
   [MCPlain EXCEPT !.p41 = FALSE],
   [MCPlain EXCEPT !.whole = FALSE]}
==============================================================================
