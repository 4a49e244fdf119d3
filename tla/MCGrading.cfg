CONSTANTS
  i1 = i1
  i2 = i2
  k1 = k1
  k2 = k2
  Ids = {i1, i2}
  Checks = {k1, k2}
  Points = {0, 1, 31}
  MaxSafe = 32
  Values = {"text", "/a", "/b"}
  Missing = Missing
  PathLike = {"/a", "/b"}
  Selections <- MCSelections
  All = All
SYMMETRY Symmetric
SPECIFICATION Spec
INVARIANTS
  SummaryIsWireValid
  SavedRulesCanBeGraded
  ScopeIsRespected
  FinalFiguresAreTrue
CHECK_DEADLOCK FALSE
