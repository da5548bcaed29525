SPECIFICATION Spec
CONSTANTS
  r1 = r1
  r2 = r2
  r3 = r3
  a = a
  b = b
  c = c
  MMHashes <- MCHashes
  Requests <- MCRequests
  Size <- MCSize
  Features <- MCFeatures
  Priority <- MCPriority
  Policy = "fcfs"
  CacheSizes = {2, 3}
  EncoderBudget = 3
  Length = 2
  Gap = 1
  Shift = 0
  Chunk = 4
  KVFailures = 1
  Aborts = 1
  Resets = 1
  BatchQueueSize = 2
INVARIANTS
  CacheExact
  WorkerFitsCache
  EncoderOutputsPresent
PROPERTIES
  RequestsFinish
CHECK_DEADLOCK FALSE
