SPECIFICATION Spec
CONSTANTS
  InitialWindow = 3
  Extension = 2
  Lead = 2
  MaxCap = 6
  MaxExtensions = 2
  FinalizeReserve = 1
  CommitReserve = 1
  LeaseTtl = 2
  Grace = 1
  HarnessReserve = 1
  MinHarness = 1
  IdleFloor = 1
  IdleTimeouts <- MCIdleTimeouts
  HardCaps <- MCHardCaps
  Prints = {p, q}
  MaxAttempts = 2
  MaxReports = 1
  MaxPauses = 0
  Classified = {"critical"}
  LastDispatch = 2
SYMMETRY ContentHashes
CHECK_DEADLOCK FALSE
INVARIANTS
  ReservesSurvive
  WindowIsEarned
  PrintsEarnOnce
