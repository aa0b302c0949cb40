------------------------------ MODULE LiveCanary -------------------------------
(***************************************************************************)
(* The LIVE_CANARY unlock records of the execution store (shared/db.py):   *)
(* the operator opens a canary for an account, a side and some symbols,    *)
(* limited in orders, in notional and in time; every LIVE order reserves   *)
(* from one before it is sent.  Each action is one transaction.  Notionals *)
(* are integers, so the tolerance of the float comparisons is exact here.  *)
(***************************************************************************)
EXTENDS Naturals, FiniteSets, FiniteSetsExt

CONSTANTS
    Canaries,       \* canary ids
    Age,            \* [Canaries -> Nat]: their order by created_at
    MaxOrders,      \* [Canaries -> Nat]
    MaxNotional,    \* [Canaries -> Nat]
    Accounts,       \* account ids
    AccountOf,      \* [Canaries -> Accounts]
    Topics,         \* pairs of a side and a symbol
    Scope,          \* [Canaries -> SUBSET Topics]
    Requests,       \* client_request_ids
    Owner,          \* [Requests -> Accounts]
    Topic,          \* [Requests -> Topics]
    Notional        \* [Requests -> Nat]: quantity times reference_price

NoCanary == "none"

ASSUME CanaryAssumption ==
    /\ Age \in [Canaries -> Nat]
    /\ MaxOrders \in [Canaries -> Nat \ {0}]
    /\ MaxNotional \in [Canaries -> Nat \ {0}]
    /\ Scope \in [Canaries -> SUBSET Topics]
    /\ AccountOf \in [Canaries -> Accounts]
    /\ Owner \in [Requests -> Accounts]
    /\ Topic \in [Requests -> Topics]
    /\ Notional \in [Requests -> Nat \ {0}]
    /\ \A c, d \in Canaries : Age[c] = Age[d] => c = d
    /\ NoCanary \notin Canaries

VARIABLES
    ready,      \* system_readiness: P0_A is PASS
    status,     \* live_canary.status, "NONE" before it is opened
    expired,    \* canaries whose expires_at has passed
    orders,     \* live_canary.used_orders
    notional,   \* live_canary.used_notional
    usage       \* live_canary_usage: the canary a request reserved from

canaryVars == <<ready, status, expired, orders, notional, usage>>

\* Types of the tables.
CanaryTypeOK ==
    /\ ready \in BOOLEAN
    /\ status \in [Canaries -> {"NONE", "ACTIVE", "CLOSED"}]
    /\ expired \subseteq Canaries
    /\ orders \in [Canaries -> Nat]
    /\ notional \in [Canaries -> Nat]
    /\ usage \in [Requests -> Canaries \cup {NoCanary}]

CanaryInit ==
    /\ ready = FALSE
    /\ status = [c \in Canaries |-> "NONE"]
    /\ expired = {}
    /\ orders = [c \in Canaries |-> 0]
    /\ notional = [c \in Canaries |-> 0]
    /\ usage = [r \in Requests |-> NoCanary]

Active == {c \in Canaries : status[c] = "ACTIVE"}

Closing(set) == [c \in Canaries |-> IF c \in set THEN "CLOSED" ELSE status[c]]

\* mark_system_readiness: the gate alone; ACTIVE canaries stay.
MarkReadiness(pass) ==
    /\ ready' = pass
    /\ UNCHANGED <<status, expired, orders, notional, usage>>

\* create_live_canary, in the order of Age.
Create(c) ==
    /\ ready
    /\ status[c] = "NONE" /\ c \notin expired
    /\ \A d \in Canaries : Age[d] < Age[c] => status[d] # "NONE"
    /\ status' = [status EXCEPT ![c] = "ACTIVE"]
    /\ UNCHANGED <<ready, expired, orders, notional, usage>>

(***************************************************************************)
(* authorize_live_canary                                                   *)
(***************************************************************************)
\* What the query over ACTIVE canaries and the symbol filter leave.
Candidates(r) ==
    {c \in Active \ expired : AccountOf[c] = Owner[r] /\ Topic[r] \in Scope[c]}

BugNotionalBefore(c, r) == orders[c] < MaxOrders[c] /\ notional[c] < MaxNotional[c]

\* Neither limit is reached, and this request passes neither.
Fits(c, r) ==
    /\ orders[c] < MaxOrders[c] /\ notional[c] < MaxNotional[c]
    /\ notional[c] + Notional[r] <= MaxNotional[c]

\* The canary is exhausted by the reservation of r.
Exhausts(c, r) ==
    \/ orders[c] + 1 >= MaxOrders[c]
    \/ notional[c] + Notional[r] >= MaxNotional[c]

IsOldest(c, set) == c \in set /\ \A d \in set : Age[c] <= Age[d]

\* Canaries of the account that the first statement of the transaction closes.
ExpiredOf(account) == {c \in Active \cap expired : AccountOf[c] = account}

BugAgain(r) == TRUE
FirstTime(r) == usage[r] = NoCanary

\* A request that has a reservation gets that one again and nothing changes.
\* Otherwise the oldest fitting candidate takes the request; the candidates before it, too
\* small for this request, are closed, and it is closed itself once exhausted.
Authorize(r) ==
    LET fitting == {c \in Candidates(r) : Fits(c, r)}
    IN /\ FirstTime(r)
       /\ \E c \in Canaries :
            /\ IsOldest(c, fitting)
            /\ usage' = [usage EXCEPT ![r] = c]
            /\ orders' = [orders EXCEPT ![c] = @ + 1]
            /\ notional' = [notional EXCEPT ![c] = @ + Notional[r]]
            /\ status' = Closing(ExpiredOf(Owner[r])
                                 \cup {d \in Candidates(r) : Age[d] < Age[c]}
                                 \cup {d \in {c} : Exhausts(c, r)})
       /\ UNCHANGED <<ready, expired>>

\* No candidate fits: all of them are closed, the transaction commits, and then
\* the call raises.
Refuse(r) ==
    /\ usage[r] = NoCanary
    /\ \A c \in Candidates(r) : ~Fits(c, r)
    /\ status' = Closing(ExpiredOf(Owner[r]) \cup Candidates(r))
    /\ UNCHANGED <<ready, expired, orders, notional, usage>>

\* close_live_canaries and close_expired_live_canaries, for one account or for all.
Close(accounts) ==
    /\ status' = Closing({c \in Active : AccountOf[c] \in accounts})
    /\ UNCHANGED <<ready, expired, orders, notional, usage>>

CloseExpired(account) ==
    /\ status' = Closing(ExpiredOf(account))
    /\ UNCHANGED <<ready, expired, orders, notional, usage>>

\* expires_at passes.
Expire(c) ==
    /\ status[c] # "NONE"
    /\ expired' = expired \cup {c}
    /\ UNCHANGED <<ready, status, orders, notional, usage>>

CanaryNext ==
    \/ \E pass \in BOOLEAN : MarkReadiness(pass)
    \/ \E c \in Canaries : Create(c) \/ Expire(c)
    \/ \E r \in Requests : Authorize(r) \/ Refuse(r)
    \/ \E a \in Accounts : Close({a}) \/ CloseExpired(a)
    \/ Close(Accounts)

CanarySpec == CanaryInit /\ [][CanaryNext]_canaryVars

(***************************************************************************)
(* Properties                                                              *)
(***************************************************************************)
ReservedFrom(c) == {r \in Requests : usage[r] = c}

\* No canary gives out more orders or more notional than the operator allowed.
WithinLimits ==
    \A c \in Canaries : orders[c] <= MaxOrders[c] /\ notional[c] <= MaxNotional[c]

\* A canary left ACTIVE still has an order and some notional to give: readiness(),
\* which reports ACTIVE canaries, does not promise what authorize would refuse.
ActiveHasRoom ==
    \A c \in Active : orders[c] < MaxOrders[c] /\ notional[c] < MaxNotional[c]

\* The counters are what the usage rows add up to, so no request is counted twice
\* and none is lost.
ExactAccounting ==
    \A c \in Canaries :
        /\ orders[c] = Cardinality(ReservedFrom(c))
        /\ notional[c] = MapThenSumSet(LAMBDA r : Notional[r], ReservedFrom(c))

\* A closed canary is never used again, and a reservation stays where it was made,
\* whatever is closed, expires or is asked again afterwards.
ClosedIsFrozen ==
    [][/\ \A c \in Canaries : status[c] = "CLOSED" =>
            status'[c] = "CLOSED" /\ orders'[c] = orders[c] /\ notional'[c] = notional[c]
       /\ \A r \in Requests : usage[r] # NoCanary => usage'[r] = usage[r]]_canaryVars

\* A new reservation comes from a canary of the request's account and scope that is
\* ACTIVE, has not expired and has room for it.  An older one in that scope had
\* expired or had no room, and is closed by the same transaction.
ReservedRightly ==
    [][\A r \in Requests : usage'[r] # usage[r] =>
         LET c == usage'[r]
         IN /\ status[c] = "ACTIVE" /\ c \notin expired /\ Fits(c, r)
            /\ AccountOf[c] = Owner[r] /\ Topic[r] \in Scope[c]
            /\ \A d \in Canaries :
                 d # c /\ status[d] = "ACTIVE" /\ AccountOf[d] = Owner[r] /\ Age[d] < Age[c]
                 /\ Topic[r] \in Scope[d] =>
                      (d \in expired \/ ~Fits(d, r)) /\ status'[d] = "CLOSED"]_canaryVars
===============================================================================
