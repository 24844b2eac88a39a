SPECIFICATION Spec
CONSTANTS
  HeaderLen = 1
  MaxPayload = 2
  NumMod = 4
  SmallBuf = 3
  LargeBuf = 6
  Callers <- MCCallers
  Handshakes <- MCHandshakes
  Heads = {"query", "longdata", "close", "other", "quit"}
  MaxClients = 2
  MaxCmds = 2
  MaxLost = 1
CHECK_DEADLOCK FALSE
INVARIANT LoginFirst
INVARIANT AnswersInStep
PROPERTY CommandsServed
