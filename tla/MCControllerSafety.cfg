\* A request by label and a watch that overlap, one failing call or restart.
CONSTANTS
  c1 = c1
  c2 = c2
  cfgA = cfgA
  cfgB = cfgB
  cfgC = cfgC
  None = None
  Conns <- MCConns
  MultiCloud = {c1}
  Configs <- MCConfigs
  ById <- OverlapById
  Matches <- OverlapMatches
  Access <- OverlapAccess
  Watches = {cfgB}
  Key <- OverlapKey
  Known = {c2}
  MaxRetries = 1
  MaxJobs = 1
  MaxFaults = 1
SPECIFICATION Spec
INVARIANTS
  TypeOK
  RecordBacked
  NoOrphans
  SuccessMeansRecorded
PROPERTIES
  DeletionSettles
  LifeSpec
