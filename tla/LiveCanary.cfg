SPECIFICATION CanarySpec
CONSTANTS
  Canaries = {"k1", "k2", "k3"}
  Age <- MCAge
  MaxOrders <- MCMaxOrders
  MaxNotional <- MCMaxNotional
  Accounts = {"a", "b"}
  AccountOf <- MCAccountOf
  Topics = {"buyX", "buyY"}
  Scope <- MCScope
  Requests = {"r1", "r2", "r3", "r4", "r5"}
  Owner <- MCOwner
  Topic <- MCTopic
  Notional <- MCNotional
INVARIANTS WithinLimits ExactAccounting
