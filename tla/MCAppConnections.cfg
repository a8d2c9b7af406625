\* Two connections, a request for one and a request for all, each begun twice, one fault, one deletion.
CHECK_DEADLOCK FALSE
CONSTANTS
  one = one
  every = every
  All = All
  None = None
  Conns = {1, 2}
  Requests = {one, every}
  Target <- MCTarget
  NodePorts = {one}
  MaxStarts = 2
  MaxRemoved = 1
  MaxFaults = 1
SPECIFICATION Spec
INVARIANTS
  TypeOK
  RulesOwned
  RecordsEnforced
  NamesUnique
  AllServed
