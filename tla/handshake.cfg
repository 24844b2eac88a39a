SPECIFICATION HsSpec
CONSTANTS
  HexBase = 4
  Keys <- MCKeys
  Users <- MCUsers
  None = None
  Offers <- MCOffers
  Plugin <- MCPlugin
CHECK_DEADLOCK FALSE
INVARIANT RightTenant
INVARIANT ReadAsSent
INVARIANT SameRequest
INVARIANT NumbersInOrder
