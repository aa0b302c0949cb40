SPECIFICATION Spec
CONSTANTS
  Procs = {"p"}
  Commands = {"positions"}
  Overlap = FALSE
  MaxTroubles = 0
INVARIANTS SyncedHasAssets
