SPECIFICATION FairSpec
CONSTANTS
  Procs = {"p"}
  Commands = {"sync", "positions", "show", "reconcile"}
  Overlap = FALSE
  MaxTroubles = 3
INVARIANTS MismatchKept ReconcileFailsClosed
PROPERTIES Recovers
