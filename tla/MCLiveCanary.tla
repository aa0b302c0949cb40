----------------------------- MODULE MCLiveCanary ------------------------------
(***************************************************************************)
(* Three canaries: two overlapping ones of one account, one of another     *)
(* account; five requests, some too large for what a canary has left.      *)
(***************************************************************************)
EXTENDS LiveCanary

MCAge == [c \in {"k1", "k2", "k3"} |-> CASE c = "k1" -> 1 [] c = "k2" -> 2 [] c = "k3" -> 3]
MCMaxOrders == [c \in {"k1", "k2", "k3"} |-> IF c = "k2" THEN 3 ELSE 2]
MCMaxNotional == [c \in {"k1", "k2", "k3"} |-> IF c = "k1" THEN 3 ELSE 4]
MCAccountOf == [c \in {"k1", "k2", "k3"} |-> IF c = "k3" THEN "b" ELSE "a"]
MCScope == [c \in {"k1", "k2", "k3"} |-> IF c = "k1" THEN {"buyX", "buyY"} ELSE {"buyX"}]
MCOwner == [r \in {"r1", "r2", "r3", "r4", "r5"} |-> IF r = "r5" THEN "b" ELSE "a"]
MCTopic == [r \in {"r1", "r2", "r3", "r4", "r5"} |-> IF r = "r2" THEN "buyY" ELSE "buyX"]
MCNotional == [r \in {"r1", "r2", "r3", "r4", "r5"} |->
                 CASE r = "r3" -> 3 [] r = "r4" -> 2 [] OTHER -> 1]
===============================================================================
