SPECIFICATION Spec
CONSTANTS
  None = None
  Clients = {s1, s2}
  Users = {u1, u2}
  Conns = {c1, c2}
  MaxSize = 2
  Commands = {"query", "fetch", "generic", "close", "changeuser", "infile", "longdata"}
  Caps = {TRUE}
  Aborts = TRUE
  AnswersFF = TRUE
  InboxBound = 1
INVARIANT PoolAccounting
INVARIANT IsolatedSession
PROPERTY LeaseSpec
SYMMETRY Sym
