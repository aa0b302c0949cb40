SPECIFICATION FairSpec
CONSTANTS
  Plans = {"live", "paper"}
  LivePlans = {"live"}
  Orders = {"L1", "L2", "P1"}
  PlanOf <- MixPlanOf
  Rank <- MixRank
  Confs = {"cL", "cP", "cT"}
  ConfPlan <- MixConfPlan
  CliConfs = {"cT"}
  MaxPending = 3
  CanaryOrders = 2
  MaxCanaries = 1
  PushStatuses = {"FILLED"}
  MaxPushes = 1
  Lapsing = {}
  MaxReconciles = 0
INVARIANTS CallsAuthorised NotConsumedTwice
PROPERTIES ImplementsPromise EveryRunEnds
