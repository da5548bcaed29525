CONSTANTS
  NumWorkers = 2
  BatchQueueSize = 2
  MaxCalls = 5
  Environments <- MCEnvironments
SPECIFICATION Spec
INVARIANTS
  AnswersExact
  StepsUseTheirOwnOutput
PROPERTIES
  CallsReturn
  EngineLearnsOfDeath
  NoOrphans
CHECK_DEADLOCK FALSE
