SPECIFICATION FairSpec
CONSTANTS
  HeaderLen = 1
  MaxPayload = 3
  NumMod = 4
  SmallBuf = 2
  LargeBuf = 4
  EofLen = 1
  OkLen = 2
  ResetLen = 2
  CountMod = 5
  Requests <- MCRequests
  RowLens = {3, 4}
  Flags <- MCFlags
  MaxRows = 1
  Counts <- MCCounts
  MaxCmds = 2
CHECK_DEADLOCK FALSE
INVARIANT AnswerIntact
INVARIANT RequestIntact
INVARIANT NumbersFollow
INVARIANT StopsAtEnd
PROPERTY CommandAnswered
