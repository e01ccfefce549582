SPECIFICATION FairSpec
CONSTANTS
  InitialWindow = 3
  Extension = 1
  Lead = 1
  MaxCap = 5
  MaxExtensions = 2
  FinalizeReserve = 1
  CommitReserve = 1
  LeaseTtl = 2
  Grace = 1
  HarnessReserve = 1
  MinHarness = 1
  IdleFloor = 1
  IdleTimeouts <- MCIdleTimeouts
  HardCaps <- MCHardCaps
  Prints = {p, q}
  MaxAttempts = 1
  MaxReports = 2
  MaxPauses = 1
  Classified = {"fast"}
  LastDispatch = 0
CHECK_DEADLOCK FALSE
INVARIANTS
  WatchdogsTrailTheStore
  NoStockpile
PROPERTIES
  NoResurrection
  AttemptsEnd
