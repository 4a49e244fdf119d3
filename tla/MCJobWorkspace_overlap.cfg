CONSTANTS
  Calls = {c1, c2, c3}
  Sizes = {1, 2}
  ScratchLimit = 3
  MaxInFlight = 2
  MaxGrowth = 0
  MaxRestarts = 0
SPECIFICATION Spec
INVARIANT ScratchCap
CHECK_DEADLOCK FALSE
