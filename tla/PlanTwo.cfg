SPECIFICATION Spec
CONSTANTS
  Plans = {"A", "B"}
  LivePlans = {"A", "B"}
  Orders = {"A1", "B1"}
  PlanOf <- TwoPlanOf
  Rank <- TwoRank
  Confs = {"cA", "dA", "cB"}
  ConfPlan <- TwoConfPlan
  CliConfs = {"cA"}
  MaxPending = 2
  CanaryOrders = 1
  MaxCanaries = 2
  PushStatuses = {"SUBMITTED", "FILLED"}
  MaxPushes = 2
  Lapsing = {"A"}
  MaxReconciles = 1
CONSTRAINT FewBeside
INVARIANTS AtMostOneCall WriteAhead
PROPERTIES UnknownNeverRetriedAlone NoCallWhileUnknownAlone
