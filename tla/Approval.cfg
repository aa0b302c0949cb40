SPECIFICATION Spec
CONSTANTS
  Plans = {"L", "P"}
  LivePlans = {"L"}
  Contents = {x, y}
  ExpiryOf <- Soon
  Confs = {c1, c2}
  Keys = {k}
  Nonces = {n}
  Clients = {q1, q2}
  Deciders = {d1, d2}
  MaxAge = 0
  MaxNow = 1
  MaxProofs = 2
  None = None
  NoKey = NoKey
CONSTRAINT Bounded
SYMMETRY Symmetry
INVARIANTS DecidedWasSigned OneDecisionPerNonce RetryGetsTheSame LiveConsumedAsSigned
CHECK_DEADLOCK FALSE
