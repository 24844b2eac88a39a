SPECIFICATION FairSpec
CONSTANTS
  s1 = s1
  s2 = s2
  Users = {u1, u2}
  Streams = {s1, s2}
  MaxAdds = 2
  MaxMet = 1
  Loads <- MCLoads
  ChunkSize = 1
  Capacity = 1
  MayDrop = TRUE
CHECK_DEADLOCK FALSE
INVARIANT NoDoubleReport
INVARIANT LostOnlyIfRaced
INVARIANT RepliesComplete
PROPERTY EventsAreDelivered
