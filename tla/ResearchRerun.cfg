SPECIFICATION Spec
CONSTANTS
  Runs = {r}
  Grids = {full, small}
  FirstBars = 3
  MaxBars = 3
  MaxStarts = 4
  HoldoutBars = 2
  Crashes = FALSE
  CacheOverlaps = FALSE
  DevOutcomes = {"verified", "degraded"}
  TestOutcomes = {"pass", "fail"}
PROPERTIES RerunKeepsVerdict
CHECK_DEADLOCK FALSE
