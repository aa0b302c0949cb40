SPECIFICATION MCFairSpec
CONSTANTS
  Procs = {"daemon", "reconcile"}
  Overlap = TRUE
  Quantity = 4
  Levels = {1, 2, 4}
  Price <- Moving
  MaxPushes = 2
  MaxTroubles = 2
INVARIANTS FilledIsFull RecordedInTurnsWasExecuted
PROPERTIES TerminalStaysInTurns CatchesUpInTurns
CHECK_DEADLOCK FALSE
