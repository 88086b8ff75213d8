SPECIFICATION Spec
CONSTANTS
  Job = {j1, j2, j3}
  Promised = {j1, j2}
  Threads = 2
  None = None
CHECK_DEADLOCK FALSE
INVARIANTS
  TypeOK
  InFlightIsHeld
  NoWorkerAfterExit
PROPERTIES
  ImplementsAsyncJob
  EveryJobIsTold
