CONSTANTS
  TotalLimit = 4
  FrameLimit = 2
  StderrLimit = 1
  ChunkBound = 2
  WriteBound = 4
SPECIFICATION Spec
INVARIANTS
  ResolvedMeansComplete
  BlameIsTrue
  NothingLeftBehind
PROPERTIES
  ImplementsLease
CHECK_DEADLOCK FALSE
