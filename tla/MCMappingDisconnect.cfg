\* DeletedIsDisabled on one watched connection, without faults.
CONSTANTS
  c1 = c1
  None = None
  Conns = {c1}
  Clouds <- OneCloud
  CloudOf <- OneCloudOf
  Watched = {c1}
  MaxFaults = 0
SPECIFICATION Spec
PROPERTIES
  DeletedIsDisabled
