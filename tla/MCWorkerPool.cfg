CONSTANTS
  Jobs = {j1, j2, j3}
  QueueLimit = 1
SPECIFICATION Spec
INVARIANTS
  AtMostOneAwaitedWorker
PROPERTIES
  AbortBeforeStartIsFinal
  ImplementsCoordinator
CHECK_DEADLOCK FALSE
