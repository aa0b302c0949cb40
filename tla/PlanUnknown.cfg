SPECIFICATION Spec
CONSTANTS
  Plans = {"live"}
  LivePlans = {"live"}
  Orders = {"L1", "L2"}
  PlanOf <- OnePlanOf
  Rank <- OneRank
  Confs = {"cL"}
  ConfPlan <- OneConfPlan
  CliConfs = {}
  MaxPending = 2
  CanaryOrders = 2
  MaxCanaries = 1
  PushStatuses <- KnownAndOdd
  MaxPushes = 1
  Lapsing = {}
  MaxReconciles = 1
PROPERTIES UnknownNeverRetried NoCallWhileUnknown
