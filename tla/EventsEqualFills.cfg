SPECIFICATION MCFairSpec
CONSTANTS
  Procs = {"reconcile"}
  Overlap = FALSE
  Quantity = 2
  Levels = {1, 2}
  Price <- Flat
  MaxPushes = 0
  MaxTroubles = 2
PROPERTIES CatchesUp
CHECK_DEADLOCK FALSE
