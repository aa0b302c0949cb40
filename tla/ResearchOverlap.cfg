SPECIFICATION Spec
CONSTANTS
  Runs = {r, s}
  Grids = {full, small}
  FirstBars = 3
  MaxBars = 3
  MaxStarts = 3
  HoldoutBars = 2
  Crashes = FALSE
  CacheOverlaps = TRUE
  DevOutcomes = {"verified", "research_only", "degraded"}
  TestOutcomes = {"pass", "fail"}
PROPERTIES FailsNeverDrop
CHECK_DEADLOCK FALSE
