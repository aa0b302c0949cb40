----------------------------- MODULE OrderPromise ------------------------------
(***************************************************************************)
(* What the execution system promises of LIVE orders: the orders of a plan *)
(* are authorised together, by one decision on the plan; an authorised     *)
(* order is sent to the broker at most once; an order that was not         *)
(* authorised is never sent.  PlanExecution implements it.                 *)
(***************************************************************************)
EXTENDS Naturals

CONSTANTS Orders, PlanOf

VARIABLE state   \* [Orders -> {"idle", "authorised", "sent"}]

PromiseInit == state = [o \in Orders |-> "idle"]

\* One decision makes every order of an idle plan authorised.
Authorise(plan) ==
    /\ \A o \in Orders : PlanOf[o] = plan => state[o] = "idle"
    /\ state' = [o \in Orders |-> IF PlanOf[o] = plan THEN "authorised" ELSE state[o]]

\* There is no action that sends an order a second time.
SendOnce(o) ==
    /\ state[o] = "authorised"
    /\ state' = [state EXCEPT ![o] = "sent"]

PromiseNext ==
    \/ \E o \in Orders : Authorise(PlanOf[o])
    \/ \E o \in Orders : SendOnce(o)

PromiseSpec == PromiseInit /\ [][PromiseNext]_state
===============================================================================
