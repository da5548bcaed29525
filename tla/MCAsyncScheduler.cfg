CONSTANTS
  r1 = r1
  r2 = r2
  r3 = r3
  Requests = {r1, r2, r3}
  PromptLen <- MCPromptLen
  MaxTokens <- MCMaxTokens
  MinTokens <- MCMinTokens
  MaxModelLen = 7
  MaxRunning = 3
  NumBlocks = 4
  BlockSize = 2
  BatchQueueSize = 2
  Configs <- MCConfigs
SPECIFICATION Spec
INVARIANTS
  BookkeepingExact
  WorkerAgrees
  OutputsContinue
  StepsAreNeeded
PROPERTIES
  FramesDeliveredOrDropped
  RequestsFinish
  WorkerForgets
CHECK_DEADLOCK FALSE
