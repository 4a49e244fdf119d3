CONSTANTS
  ReadyLines = {"READY", "READY token"}
  FragmentKeys = {"bootstrap", "token"}
SPECIFICATION LaunchSpec
INVARIANTS
  BrowserGoesToOurServer
PROPERTIES
  ServerEndsWithLauncher
  LaunchSettles
CHECK_DEADLOCK FALSE
