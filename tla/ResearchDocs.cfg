SPECIFICATION Spec
CONSTANTS
  Runs = {r}
  Grids = {full, small}
  FirstBars = 3
  MaxBars = 4
  MaxStarts = 4
  HoldoutBars = 2
  Crashes = TRUE
  CacheOverlaps = TRUE
  DevOutcomes = {"verified", "degraded"}
  TestOutcomes = {"pass", "fail"}
INVARIANTS RemovedByTwo ReservedOnce VersionOfItsData Traceable
CHECK_DEADLOCK FALSE
