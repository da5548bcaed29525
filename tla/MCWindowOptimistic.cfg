CONSTANTS
  Requests = {r1, r2}
  NumBlocks = 7
  BlockSize = 2
  SlidingWindowSize = 3
  MaxBatched = 4
  PromptLen = 3
  MaxModelLen = 9
  Configs <- Optimistic
SPECIFICATION Spec
SYMMETRY Symmetry
PROPERTIES
  WindowReadable
CHECK_DEADLOCK FALSE
