SPECIFICATION Spec
CONSTANTS
  Plans = {"live"}
  LivePlans = {"live"}
  Orders = {"L1"}
  PlanOf <- SoloPlanOf
  Rank <- SoloRank
  Confs = {"cL"}
  ConfPlan <- OneConfPlan
  CliConfs = {"cL"}
  MaxPending = 2
  CanaryOrders = 2
  MaxCanaries = 1
  PushStatuses = {}
  MaxPushes = 0
  Lapsing = {}
  MaxReconciles = 0
PROPERTIES ConsumedIsFinal
