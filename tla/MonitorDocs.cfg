SPECIFICATION Spec
CONSTANTS
  Symbols <- MCSymbols
  Held <- MCHeld
  Keys <- MCKeys
  Payloads <- MCPayloads
  Channels = {configured}
  Dispatchers = {d1, d2}
  MaxSends = 2
  MaxDay = 2
  MaxRevisions = 2
  Procs = {p1, p2}
  Conditions <- MCConditions
  Scenes <- MCScenes
  MaxTroubles = 1
  MaxHeard = 2
INVARIANTS OnceADay KeptForTheNext
SYMMETRY MCSymmetry
CHECK_DEADLOCK FALSE
