SPECIFICATION SyncSpec
CONSTANTS
  Syncers = {p1}
  Full = 3
  Window = 1
  MinBars = 1
  Lag = 1
  Quota = 2
  FirstDay = 1
  MaxDay = 3
  MaxSplits = 1
  MaxCrashes = 0
INVARIANTS GatePassesFinishedBars GatePassesOneBasis
CHECK_DEADLOCK FALSE
