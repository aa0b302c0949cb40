---------------------------- MODULE MCPlanExecution ----------------------------
(***************************************************************************)
(* Small instances of PlanExecution.                                       *)
(***************************************************************************)
EXTENDS PlanExecution

\* A LIVE plan of two orders, a PAPER plan of one, and a confirmation of each
\* that executiond serves; the PAPER plan has one of a trade session besides.
MixPlanOf == [o \in {"L1", "L2", "P1"} |-> IF o = "P1" THEN "paper" ELSE "live"]
MixRank == [o \in {"L1", "L2", "P1"} |-> IF o = "L2" THEN 2 ELSE 1]
MixConfPlan == [c \in {"cL", "cP", "cT"} |-> IF c = "cL" THEN "live" ELSE "paper"]

\* Two LIVE plans of one order.
TwoPlanOf == [o \in {"A1", "B1"} |-> IF o = "A1" THEN "A" ELSE "B"]
TwoRank == [o \in {"A1", "B1"} |-> 1]
TwoConfPlan == [c \in {"cA", "dA", "cB"} |-> IF c = "cB" THEN "B" ELSE "A"]

\* One LIVE plan of two orders.
OnePlanOf == [o \in {"L1", "L2"} |-> "live"]
OneRank == [o \in {"L1", "L2"} |-> IF o = "L1" THEN 1 ELSE 2]
OneConfPlan == [c \in {"cL"} |-> "live"]

\* One LIVE plan of one order.
SoloPlanOf == [o \in {"L1"} |-> "live"]
SoloConfPlan == [c \in {"cL", "dL"} |-> "live"]
SoloRank == [o \in {"L1"} |-> 1]

\* Bound: beside a reconciliation no push comes, nothing expires, no second canary is
\* opened and the second plan is out.
FewBeside == reconciled > 0 => pushed = 0 /\ lapsed = {} /\ opened <= 1 /\ Existing("B") = {}

Known == {"SUBMITTED", "FILLED", "REJECTED", "CANCELLED"}
KnownAndOdd == Known \cup {"UNKNOWN"}
==============================================================================
