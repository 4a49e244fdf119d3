CONSTANTS
  Jobs = {j1, j2, j3, j4}
  QueueLimit = 2
SPECIFICATION Spec
INVARIANTS
  SlotAccounting
  WorkConserving
  QueueBounded
  AbortReachesJob
PROPERTIES
  ImplementsService
CHECK_DEADLOCK FALSE
