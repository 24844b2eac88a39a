SPECIFICATION ProcSpec
CONSTANTS
  s1 = s1
  s2 = s2
  d1 = d1
  d2 = d2
  a1 = a1
  a2 = a2
  Confs <- MCConfs
  Calls = {p1, p2}
  FsFails = TRUE
  NoCall = NoCall
  Clients = {s1}
  NumBackends = 2
  MaxSignals = 1
  Sessions = {s1, s2}
  Bytes = {1, 32, 200}
  Hosts <- MCHosts
  Flags = {TRUE, FALSE}
  MaxTurns = 2
  MaxUse = 1
  Dumps = {d1, d2}
  Analyses = {a1, a2}
  Parties <- Dumper
CHECK_DEADLOCK FALSE
INVARIANT RefusedOnlyIfOff
