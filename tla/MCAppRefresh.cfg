\* A group, two app connections of one service, a reference; four requests, a change, a fault.
CHECK_DEADLOCK FALSE
CONSTANTS
  None = None
  Apps = {1, 2, 3, 4}
  Kind <- MCKind
  Addrs = {a}
  MaxRequests = 4
  MaxChanges = 1
  MaxFaults = 1
SPECIFICATION FairSpec
INVARIANTS
  TypeOK
  GroupsFollow
  RangesFollow
PROPERTIES
  Converges
