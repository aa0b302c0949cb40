SPECIFICATION Spec
CONSTANTS
  Procs = {"p"}
  Commands = {"sync", "reconcile"}
  Overlap = FALSE
  MaxTroubles = 2
INVARIANTS MismatchHolds
