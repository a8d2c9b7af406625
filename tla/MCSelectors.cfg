\* Every combination of the listed tables and selectors.
CHECK_DEADLOCK FALSE
CONSTANTS
  None = None
  NoPort = NoPort
  id1 = id1
  id2 = id2
  name1 = name1
  name2 = name2
  app = app
  APP = APP
  x = x
  y = y
  tcp = tcp
  udp = udp
  p80 = p80
  p81 = p81
  Fold <- MCFold
  PolicyTables <- MCPolicyTables
  DomainTables <- MCDomainTables
  Selects <- MCSelects
  Flows = {"domains", "app"}
SPECIFICATION Spec
INVARIANTS
  TypeOK
  PolicyChosen
  TranslationExact
  PairsExact
