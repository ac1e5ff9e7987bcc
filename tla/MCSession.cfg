SPECIFICATION MCSpec
CONSTANTS
  a = a
  b = b
  boot = boot
  nobody = nobody
  Callers <- OneCaller
  Boot = boot
  Nobody = nobody
  Ops <- PairingOps
  DBFaults = FALSE
  MaxObjects = 1
  MaxPairings = 2
  MaxLosses = 0
  MaxEvents = 1
  MaxCrashes = 1
INVARIANTS
  MemoryHasRow
  LoggedInIsRecorded
  ConnectingIsAttended
PROPERTIES
  MCConnectingResolves
CHECK_DEADLOCK FALSE
