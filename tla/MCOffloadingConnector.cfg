CONSTANTS
  r1 = r1
  r2 = r2
  r3 = r3
  r4 = r4
  Requests <- MCRequests
  Keys <- MCKeys
  PromptLen <- MCPromptLen
  Configs <- MCConfigs
SPECIFICATION Spec
INVARIANTS
  OffloadExact
PROPERTIES
  PrefixReadable
  LoadsEnd
CHECK_DEADLOCK FALSE
