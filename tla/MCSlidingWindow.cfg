CONSTANTS
  Requests = {r1, r2}
  NumBlocks = 5
  BlockSize = 2
  SlidingWindowSize = 3
  MaxBatched = 4
  PromptLen = 3
  MaxModelLen = 10
  Configs <- MCConfigs
SPECIFICATION Spec
SYMMETRY Symmetry
INVARIANTS
  TablesExact
PROPERTIES
  ExactWindowReadable
CHECK_DEADLOCK FALSE
