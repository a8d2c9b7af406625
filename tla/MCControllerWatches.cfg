\* Two watches of one connection each, the first one's domains discovered later.
CONSTANTS
  c1 = c1
  c2 = c2
  cfgA = cfgA
  cfgB = cfgB
  cfgC = cfgC
  None = None
  Conns <- MCConns
  MultiCloud = {}
  Configs <- WatchConfigs
  ById <- WatchById
  Matches <- WatchMatches
  Access <- WatchAccess
  Watches = {cfgA, cfgB}
  Key <- WatchKey
  Known = {c2}
  MaxRetries = 0
  MaxJobs = 1
  MaxFaults = 1
SPECIFICATION FairSpec
PROPERTIES
  WatchConverges
