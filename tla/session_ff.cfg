SPECIFICATION Spec
CONSTANTS
  None = None
  Clients = {s1, s2}
  Users = {u1}
  Conns = {c1}
  MaxSize = 1
  Commands = {"changeuser"}
  Caps = {TRUE}
  Aborts = FALSE
  AnswersFF = TRUE
  InboxBound = 1
INVARIANT AuthSwitchAsserted
