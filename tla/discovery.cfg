SPECIFICATION DiscFairSpec
CONSTANTS
  NoNode = NoNode
  Cps = {n1, n2}
  MaxGen = 2
  Steady = {n2}
  HttpFails = TRUE
  ConnFails = TRUE
  Workers = 2
INVARIANT ChannelIsFresh
INVARIANT IndexInRange
INVARIANT FailedNotPicked
PROPERTY DiscoveryStarts
CHECK_DEADLOCK FALSE
