CONSTANTS
  c1 = c1
  r1 = r1
  r2 = r2
  NumEngines = 2
  Clients <- MCClients
  Requests <- MCRequests
  MaxPauses = 1
  Configs <- MCConfigs
SPECIFICATION Spec
INVARIANTS
  WavesAgree
  EnginesInStep
PROPERTIES
  RequestsServed
  PauseCompletes
CHECK_DEADLOCK FALSE
