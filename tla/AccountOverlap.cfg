SPECIFICATION Spec
CONSTANTS
  Procs = {"p", "q"}
  Commands = {"positions", "sync", "reconcile"}
  Overlap = TRUE
  MaxTroubles = 0
INVARIANTS MismatchHolds
