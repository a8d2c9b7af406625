\* Two requests more than the buffer holds: the worker's, a full buffer and a parked handler.
CONSTANTS
  Requests = {r1, r2, r3, r4}
  Capacity = 2
  MaxRetries = 3
  None = None
SPECIFICATION FairSpec
INVARIANTS
  TypeOK
  HeldOnce
  RetryBudget
  BlockedOnlyOverCapacity
PROPERTIES
  EveryRequestEnds
  ServiceSpec
  NearerToEnd
