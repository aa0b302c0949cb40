SPECIFICATION MCSpec
CONSTANTS
  Procs = {"daemon", "reconcile"}
  Overlap = TRUE
  Quantity = 4
  Levels = {1, 3, 4}
  Price <- Flat
  MaxPushes = 1
  MaxTroubles = 2
INVARIANTS RecordedWasExecuted
CHECK_DEADLOCK FALSE
