SPECIFICATION FairSpec
CONSTANTS
  None = None
  Clients = {s1, s2, s3}
  Users = {u1, u2}
  Conns = {c1}
  MaxSize = 1
  Commands = {"query", "fetch", "generic", "close", "changeuser"}
  Caps = {FALSE}
  Aborts = FALSE
  AnswersFF = FALSE
  InboxBound = 1
INVARIANT OwnPackets
INVARIANT AuthInStep
PROPERTY WaiterServed
PROPERTY AnswerCompletes
