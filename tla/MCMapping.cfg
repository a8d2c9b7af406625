\* One watched connection, in the second of two clouds, one fault.
CONSTANTS
  c1 = c1
  None = None
  Conns = {c1}
  Clouds <- TwoClouds
  CloudOf <- TwoCloudsOf
  Watched = {c1}
  MaxFaults = 1
SPECIFICATION FairSpec
INVARIANTS
  TypeOK
  ConfigKept
PROPERTIES
  ReportedIsRecorded
  StatusConverges
