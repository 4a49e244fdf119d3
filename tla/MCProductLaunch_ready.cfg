CONSTANTS
  ReadyLines = {"READY"}
  FragmentKeys = {"bootstrap"}
SPECIFICATION LaunchSpec
INVARIANTS
  ListeningServerIsAccepted
CHECK_DEADLOCK FALSE
