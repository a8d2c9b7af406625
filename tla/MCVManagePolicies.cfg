\* Two connections to make, one stored at the site of the first; two apps, two faults.
CHECK_DEADLOCK FALSE
CONSTANTS
  None = None
  a1 = a1
  a2 = a2
  new = new
  old = old
  other = other
  north = north
  south = south
  Connections = {new, old, other}
  Sites = {north, south}
  Apps = {a1, a2}
  SiteOf <- MCSiteOf
  Access <- MCAccess
  Stored = {old}
  MaxStarts = 5
  MaxFaults = 2
SPECIFICATION Spec
INVARIANTS
  TypeOK
  ReferencesExist
  NoHalf
PROPERTIES
  RemovedClean
