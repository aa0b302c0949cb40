-------------------------------- MODULE Portfolio -------------------------------
(***************************************************************************)
(* From the day's signals to orders: collect_signals, the sizing of an     *)
(* entry, the review of the whole target portfolio, its translation into   *)
(* a plan of differences (production/decision.py, position.py,             *)
(* target_portfolio.py, portfolio_risk.py), the last check before a        *)
(* submission (execution/pretrade_risk.py) and the fills at the broker.    *)
(*                                                                         *)
(* Weights are whole percents of the equity, which is constant, as the     *)
(* prices are: what changes is what is held and what the store knows of it.*)
(* The review and the decision read the snapshot of the last account sync, *)
(* never the broker, and never the orders executiond keeps in its own      *)
(* store.                                                                  *)
(***************************************************************************)
EXTENDS Integers, FiniteSets, Functions

CONSTANTS
    Symbols,
    Plans,          \* identities of LIVE and PAPER plans, decided in order
    Overlap,        \* decide again while an order is out or the snapshot is old
    Starts,         \* bound: the holdings there may be at first
    Price,          \* percent of the equity a share of a symbol costs
    Stop,           \* distance of an entry's stop, percent of the price
    Info,           \* per symbol: sector, currency, beta, leverage, capacity
    Correlated,     \* pairs {a, b} whose correlation reaches CORR_THRESHOLD
    Policy,         \* the active investor policy
    Powers,         \* buying powers a sync may report, percent of the equity
    Markets         \* what the day's data say of every symbol, see Facts

Unknown == -1       \* a buying power the broker did not report

Facts == [eligible : BOOLEAN,   \* lifecycle verified or live
          params   : BOOLEAN,   \* strategy parameters and 50 bars are there
          known    : BOOLEAN,   \* security metadata are complete
          evidence : {"none", "unaccepted", "accepted"},  \* of its final test
          report   : {"none", "entry", "exit"},   \* post_market_check
          kelly    : Nat]       \* the shrunk Kelly fraction

Limits == {"single", "risk", "gross", "stop", "group", "pair", "sector",
           "currency", "beta", "position", "portfolio"}

ASSUME PortfolioAssumption ==
    /\ Plans \subseteq Nat /\ IsFiniteSet(Symbols)
    /\ Overlap \in BOOLEAN /\ Starts \subseteq [Symbols -> Nat]
    /\ Price \in [Symbols -> Nat \ {0}] /\ Stop \in [Symbols -> Nat \ {0}]
    /\ \A s \in Symbols : Info[s].leverage \in Int
    /\ Correlated \subseteq SUBSET Symbols
    /\ Policy \in [Limits -> Nat]
    /\ Powers \subseteq Nat \cup {Unknown}
    /\ Markets \subseteq [Symbols -> Facts]

VARIABLES
    held,       \* the shares at the broker
    snap,       \* the shares of the last account snapshot
    synced,     \* the account row says SYNCED
    plan        \* the persisted plans and what became of their orders

vars == <<held, snap, synced, plan>>

Shares == [Symbols -> Int]
Nothing == [s \in Symbols |-> 0]
NoPlan == [status |-> "none", mode |-> "LIVE", base |-> Nothing, goal |-> Nothing,
           order |-> Nothing, left |-> Nothing, passed |-> FALSE, exits |-> {}]

\* Types of the state.
TypeOK ==
    /\ held \in Shares /\ snap \in Shares /\ synced \in BOOLEAN
    /\ plan \in [Plans -> [status : {"none", "proposed", "sent", "done"},
                           mode : {"LIVE", "PAPER"}, base : Shares, goal : Shares,
                           order : Shares, left : Shares, passed : BOOLEAN,
                           exits : SUBSET Symbols]]

-----------------------------------------------------------------------------
(* Signals and sizing.                                                     *)

\* The exits of the day: a position whose report says so, whatever its
\* lifecycle; without parameters or sound data there is no report.
Exits(m, pos) ==
    {s \in Symbols : pos[s] > 0 /\ m[s].params /\ m[s].known /\ m[s].report = "exit"}

\* The entries: nothing is held, the lifecycle is eligible, and the final test
\* of the strategy version was accepted.
Entries(m, pos) ==
    {s \in Symbols : /\ pos[s] = 0 /\ m[s].eligible /\ m[s].params /\ m[s].known
                     /\ m[s].report = "entry" /\ m[s].evidence = "accepted"}

MinOf(a, b) == IF a < b THEN a ELSE b

\* KellyPositionSizer: the least of the Kelly fraction, the fraction whose loss
\* at the stop is the risk per trade, and the limit of a single position.
Size(kelly, s) ==
    MinOf(MinOf(kelly, Policy["risk"] \div Stop[s]), Policy["single"])

Weights(pos) == [s \in Symbols |-> pos[s] * Price[s]]

\* The weights reviewed: the intents of the day over the positions there are.
Wanted(m, pos) ==
    [s \in Symbols |-> IF s \in Exits(m, pos) THEN 0
                       ELSE IF s \in Entries(m, pos) THEN Size(m[s].kelly, s)
                       ELSE Weights(pos)[s]]

-----------------------------------------------------------------------------
(* The review of the whole portfolio.                                      *)

Total(w, S) == SumFunctionOnSet(w, S)
Where(field, value) == {s \in Symbols : Info[s][field] = value}
Values(field) == {Info[s][field] : s \in Symbols}

Leveraged(w) ==
    [s \in Symbols |-> w[s] * (IF Info[s].leverage > 1 THEN Info[s].leverage ELSE 1)]
BetaWeighted(w) == [s \in Symbols |-> w[s] * Info[s].beta * Info[s].leverage]

\* Loss at the stops, hundredths of a percent; a position is taken to be 2%
\* away from its stop, the snapshot has none.
AtStops(w, entries) ==
    [s \in Symbols |-> w[s] * (IF s \in entries THEN Stop[s] ELSE 2)]

\* Exposures that do not depend on what the account says.
BugWithinExposures(w, entries) ==
    /\ Total(Leveraged(w), entries) <= Policy["gross"]
    /\ Total(AtStops(w, entries), Symbols) <= Policy["stop"]

WithinExposures(w, entries) ==
    /\ Total(Leveraged(w), Symbols) <= Policy["gross"]
    /\ Total(AtStops(w, entries), Symbols) <= Policy["stop"]
    /\ \A sector \in Values("sector") :
          /\ Total(w, Where("sector", sector)) <= Policy["group"]
          /\ Total(w, Where("sector", sector)) <= Policy["sector"]
    /\ \A currency \in Values("currency") :
          Total(w, Where("currency", currency)) <= Policy["currency"]
    /\ Total(BetaWeighted(w), Symbols) <= Policy["beta"]
    /\ \A s \in entries : w[s] <= Info[s].capacity
    /\ \A pair \in Correlated :
          (\A s \in pair : w[s] > 0) => Total(w, pair) <= Policy["pair"]

\* The account given to the review: "none" when the command had none to give.
Affordable(w, entries, account, power) ==
    \/ account = "none"
    \/ /\ account = "synced"
       /\ Total(w, entries) > 0 => power # Unknown /\ Total(w, entries) <= power

Review(w, entries, account, power) ==
    WithinExposures(w, entries) /\ Affordable(w, entries, account, power)

\* What is kept of a target that failed: exits go on, the rest stays as it is.
BugKeepsEntries(m, pos) == Wanted(m, pos)
Kept(m, pos) ==
    [s \in Symbols |-> IF s \in Exits(m, pos) THEN 0 ELSE Weights(pos)[s]]

\* A position or an exit without metadata raises: there is no decision at all.
Raises(m, pos) == \E s \in Symbols : pos[s] > 0 /\ ~m[s].known

\* Signed difference orders. The weight of an untouched position was computed
\* by dividing by the equity, and multiplying it back may lose a fraction of a
\* share, which the floor turns into a share: `lost` are the symbols where it
\* does.
Goal(w, pos, lost) ==
    [s \in Symbols |-> w[s] \div Price[s] - (IF s \in lost THEN 1 ELSE 0)]

\* The orders of `pending` intents are read from the store the decision runs
\* on, where executiond never writes one: there are none.
Pending == Nothing

BugOrders(goal, pos) == [s \in Symbols |-> goal[s] - Pending[s]]
Orders(goal, pos) == [s \in Symbols |-> goal[s] - pos[s] - Pending[s]]

-----------------------------------------------------------------------------
(* Steps.                                                                  *)

Live(p) == plan[p].mode = "LIVE"
Out(p) == Live(p) /\ plan[p].status \in {"proposed", "sent"}
Fresh == plan \in [Plans -> {NoPlan}]

Init ==
    /\ held \in Starts
    /\ snap = held /\ synced = TRUE
    /\ plan = [p \in Plans |-> NoPlan]

\* An account sync that succeeds, or one that fails and leaves the old positions.
Sync ==
    /\ snap' = held /\ synced' = TRUE
    /\ UNCHANGED <<held, plan>>
SyncFails ==
    /\ synced /\ synced' = FALSE
    /\ UNCHANGED <<held, snap, plan>>

\* What a decision sees of the account: `tc portfolio` drops an account that is
\* not SYNCED and falls back to the portfolio table, which nothing fills; the
\* contract passes it on and the review refuses it.
Account(contract) == IF synced THEN "synced" ELSE IF contract THEN "unsynced" ELSE "none"
Seen(contract) == IF Account(contract) = "none" THEN Nothing ELSE snap

\* `tc portfolio` and propose_trade: decide, translate, persist the plan. LIVE
\* needs a SYNCED account; a decision without orders persists nothing.
MayDecide(p, mode) ==
    /\ plan[p].status = "none" /\ \A q \in Plans : q < p => plan[q].status # "none"
    /\ mode = "LIVE" =>
          synced /\ (Overlap \/ (snap = held /\ \A q \in Plans : ~Out(q)))

Untouched(m, pos) == {s \in Symbols : pos[s] > 0} \ Exits(m, pos)

Decide(p, mode, contract, m, power) ==
    LET pos == Seen(contract)
        want == Wanted(m, pos)
        ok == Review(want, Entries(m, pos), Account(contract), power)
        final == IF ok THEN want ELSE Kept(m, pos)
    IN  /\ MayDecide(p, mode)
        /\ ~Raises(m, pos)
        /\ \E lost \in SUBSET Untouched(m, pos) :
              LET goal == Goal(final, pos, lost)
                  order == Orders(goal, pos)
              IN  /\ order # Nothing
                  /\ plan' = [plan EXCEPT ![p] =
                        [status |-> "proposed", mode |-> mode, base |-> pos,
                         goal |-> goal, order |-> order, left |-> order,
                         passed |-> ok, exits |-> Exits(m, pos)]]
        /\ UNCHANGED <<held, snap, synced>>

Buys(order) == {s \in Symbols : order[s] > 0}
Sells(order) == {s \in Symbols : order[s] < 0}
Worth(order, S) == Total([s \in Symbols |-> order[s] * Price[s]], S)

\* PreTradeRisk on the account as it is now: SYNCED, buying power, no more sold
\* than the snapshot holds, and the limits of a position and of the portfolio.
PreTradeRisk(order, power) ==
    LET after == [s \in Symbols |-> snap[s] + order[s]]
    IN  /\ synced
        /\ Buys(order) # {} => power # Unknown
        /\ power # Unknown => Worth(order, Buys(order)) <= power
        /\ \A s \in Sells(order) : -order[s] <= snap[s]
        /\ \A s \in Symbols : Weights(after)[s] <= Policy["position"]
        /\ Total(Weights(after), Symbols) <= Policy["portfolio"]

\* An approved plan is submitted; a PAPER plan fills in its own book.
BugSend(p, power) ==
    /\ plan[p].status = "proposed"
    /\ PreTradeRisk(plan[p].order, power)
    /\ plan' = [plan EXCEPT ![p].status = "sent", ![p].mode = "LIVE"]
    /\ UNCHANGED <<held, snap, synced>>
Send(p, power) ==
    /\ plan[p].status = "proposed"
    /\ PreTradeRisk(plan[p].order, power)
    /\ plan' = [plan EXCEPT ![p].status = IF Live(p) THEN "sent" ELSE "done"]
    /\ UNCHANGED <<held, snap, synced>>

\* One share of an order is executed, in any order of the symbols.
Toward(n) == IF n > 0 THEN 1 ELSE -1
Fill(p, s) ==
    /\ Live(p) /\ plan[p].status = "sent" /\ plan[p].left[s] # 0
    /\ held' = [held EXCEPT ![s] = @ + Toward(plan[p].left[s])]
    /\ plan' = [plan EXCEPT ![p].left[s] = @ - Toward(plan[p].left[s])]
    /\ UNCHANGED <<snap, synced>>

\* The plan ends: it expires or is declined before it is sent, and whatever is
\* left of its orders is cancelled or filled after.
End(p) ==
    /\ plan[p].status \in {"proposed", "sent"}
    /\ plan' = [plan EXCEPT ![p].status = "done"]
    /\ UNCHANGED <<held, snap, synced>>

Next ==
    \/ Sync
    \/ SyncFails
    \/ \E p \in Plans, mode \in {"LIVE", "PAPER"} : /\ MayDecide(p, mode)
          /\ \E contract \in (IF synced THEN {TRUE} ELSE BOOLEAN), m \in Markets, power \in Powers :
                Decide(p, mode, contract, m, power)
    \/ \E p \in Plans, power \in Powers : Send(p, power)
    \/ \E p \in Plans, s \in Symbols : Fill(p, s)
    \/ \E p \in Plans : End(p)

Spec == Init /\ [][Next]_vars

-----------------------------------------------------------------------------
(* The review of a portfolio that is only shown (review_portfolio).        *)

\* The range of weights around a target, a quarter of a percent tolerated.
InRange(w, target) ==
    LET upper == MinOf(Policy["single"] * 100, target * 120)
    IN  w * 100 >= target * 80 - 25 /\ w * 100 <= upper + 25

BugAdvice(s, m, pos) == IF m[s].eligible /\ m[s].report = "exit" THEN "EXIT" ELSE "KEEP"
Advice(s, m, pos) ==
    LET w == Weights(pos)[s]
        target == IF m[s].evidence = "accepted" THEN Size(m[s].kelly, s) ELSE 0
        report == IF m[s].known THEN m[s].report ELSE "none"
    IN  IF ~m[s].params THEN "KEEP"
        ELSE IF report = "exit" THEN "EXIT"
        ELSE IF m[s].eligible /\ m[s].evidence # "none"
             THEN IF InRange(w, target) THEN "KEEP"
                  ELSE IF w < target THEN "ADD" ELSE "REDUCE"
        ELSE IF w > Policy["single"] THEN "REDUCE" ELSE "KEEP"

-----------------------------------------------------------------------------
(* Properties.                                                             *)

\* The code never sells what the broker does not hold: the fills of the sales
\* of any plan leave no symbol below zero (decision.py:231, pretrade_risk.py:161).
NeverShort == \A s \in Symbols : held[s] >= 0

\* A target that failed the review buys nothing, of any symbol, although the
\* exits in it are still carried out (target_portfolio.py:102).
FailedReviewOnlyReduces ==
    \A p \in Plans : ~plan[p].passed => \A s \in Symbols : plan[p].order[s] <= 0

\* A position whose exit was signalled is sold to the last share, whether the
\* rest of the target passed the review or not.
ExitSells ==
    \A p \in Plans : \A s \in plan[p].exits : plan[p].order[s] = -plan[p].base[s]

\* While a plan is carried out every holding stays between what it was when the
\* plan was made and its target: no symbol is ordered twice or past its target.
BetweenBaseAndGoal ==
    \A p \in Plans : Live(p) /\ plan[p].status = "sent" =>
        \A s \in Symbols :
            \/ plan[p].base[s] <= held[s] /\ held[s] <= plan[p].goal[s]
            \/ plan[p].base[s] >= held[s] /\ held[s] >= plan[p].goal[s]

\* The review of the target is a promise about what is really held in the end:
\* when the last LIVE decision passed, nothing is out and every sale was filled,
\* the holdings themselves are within the gross, sector and pair limits.
Last(p) == Live(p) /\ plan[p].status # "none"
           /\ \A q \in Plans : q > p /\ plan[q].status # "none" => ~Live(q)
SettledWithinPolicy ==
    \A p \in Plans :
        (/\ Last(p) /\ plan[p].passed /\ \A q \in Plans : ~Out(q)
         /\ \A q \in Plans : Live(q) => \A s \in Symbols : plan[q].left[s] >= 0)
        => /\ Total(Leveraged(Weights(held)), Symbols) <= Policy["gross"]
           /\ \A x \in Values("sector") :
                 Total(Weights(held), Where("sector", x)) <= Policy["sector"]
           /\ \A pair \in Correlated :
                 (\A s \in pair : held[s] > 0)
                     => Total(Weights(held), pair) <= Policy["pair"]

\* What a review of the portfolio advises and what a decision of the same day
\* does agree on the exits: a position is advised to EXIT exactly when the
\* decision sells the whole of it (contracts.py:291, decision.py:84).
AdviceExitIsPlanned ==
    Fresh /\ synced => \A m \in Markets : ~Raises(m, snap) =>
        \A s \in Symbols : snap[s] > 0 =>
            (Advice(s, m, snap) = "EXIT" <=> s \in Exits(m, snap))

\* From target_portfolio.py:13, "失败 → 拟议新仓归零，保留现有持仓": a failed review
\* leaves a position alone that no signal asks to leave.
UntouchedStays ==
    \A p \in Plans : plan[p].status # "none" /\ ~plan[p].passed =>
        \A s \in Symbols \ plan[p].exits : plan[p].order[s] = 0

\* From decision.py:203, "相对真实持仓和挂单的差额订单": a decision orders what is
\* missing to its target after what is held and what the orders sent will add.
Sent == {q \in Plans : Live(q) /\ plan[q].status = "sent"}
PendingCounted ==
    [][\A p \in Plans :
          plan[p].status = "none" /\ plan'[p].status = "proposed" /\ synced /\ snap = held =>
          \A s \in Symbols :
              held[s] + Total([q \in Plans |-> plan[q].left[s]], Sent) + plan'[p].order[s]
                = plan'[p].goal[s]]_vars
=============================================================================
