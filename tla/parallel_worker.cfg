SPECIFICATION Spec
CONSTANTS
  Concurrency = 3
  LoopCount = 3
  IndexModulus = 7
CHECK_DEADLOCK FALSE
INVARIANTS
  TypeOK
  ItemsOnce
  NoTaskOutlivesWorker
  FulfilledIsComplete
PROPERTIES
  ImplementsAsyncJob
  JobIsTold
