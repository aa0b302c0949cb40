SPECIFICATION MCSpec
CONSTANTS
  Procs = {"daemon", "reconcile"}
  Overlap = TRUE
  Quantity = 2
  Levels = {1, 2}
  Price <- Flat
  MaxPushes = 1
  MaxTroubles = 2
PROPERTIES TerminalStays
CHECK_DEADLOCK FALSE
