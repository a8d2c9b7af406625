\* Two clients with four calls about two connections, one retry, one fault.
CHECK_DEADLOCK FALSE
CONSTANTS
  None = None
  Ids = {1, 2}
  Clients = {"k1", "k2"}
  MaxRetries = 1
  MaxCalls = 4
  MaxFaults = 1
SPECIFICATION FairSpec
INVARIANTS
  TypeOK
  LastWordWins
  SuccessIsLinked
PROPERTIES
  DisconnectHappens
  ServiceSpec
