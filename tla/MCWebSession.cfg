CONSTANTS
  Checks = {k1, k2}
  Points = {0, 1}
  MaxScore = 1
  MaxUploads = 2
  MaxClicks = 5
  MaxInFlight = 2
SPECIFICATION SessionSpec
INVARIANTS
  DraftGoesToItsArtifact
  ResultUnderItsArtifact
  ShownHeldAndGraded
SYMMETRY Symmetric
CHECK_DEADLOCK FALSE
