SPECIFICATION MCSpec
CONSTANTS
  Runs = {r, s}
  Grids = {full, small}
  FirstBars = 3
  MaxBars = 4
  MaxStarts = 3
  HoldoutBars = 2
  Crashes = TRUE
  CacheOverlaps = TRUE
  DevOutcomes = {"verified", "research_only", "degraded"}
  TestOutcomes = {"pass", "small", "fail"}
INVARIANTS OneExposure VerifiedWasTested VerifiedAloneIsClean
CHECK_DEADLOCK FALSE
