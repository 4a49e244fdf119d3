CONSTANTS
  Ids = {r1, r2}
  MaxFrame = 3
  MaxTotal = 8
  AnswerBytes = 1
  CrashCodes = {1, 256}
  MaxFrames = 2
SPECIFICATION Spec
INVARIANTS
  TreeStaysInItsJob
  SuccessMeansAnswered
  AnswersInOrder
PROPERTIES
  TreeEnds
CHECK_DEADLOCK FALSE
