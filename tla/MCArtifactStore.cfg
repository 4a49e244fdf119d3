CONSTANTS
  Calls = {c1, c2}
  Sizes = {1, 2, 3}
  ScratchLimit = 3
  MaxInFlight = 1
  MaxGrowth = 1
  MaxRestarts = 1
  NoHandle = NoHandle
  Uploads = {u1, u2}
  MaxBytes = 2
  StoreLimit = 3
  MaxChanges = 1
  MaxRot = 1
SPECIFICATION StoreSpec
INVARIANTS
  CapButForGrowth
  OneVersionStored
  JobInputIsTheUpload
  DiskIsAccountedFor
  CountersExact
SYMMETRY Symmetric
CHECK_DEADLOCK FALSE
