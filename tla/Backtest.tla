------------------------------- MODULE Backtest -------------------------------
(***************************************************************************)
(* The strategy rules (shared/strategy_evaluator.py), the indicators they   *)
(* read (shared/indicators.py) and the backtest engine (shared/backtest.py) *)
(* as functions of a history of completed daily bars. There is no state     *)
(* here: WalkForward runs these functions over the windows of a research.   *)
(*                                                                         *)
(* A history is a function on 0 .. n-1 to bars [open, high, low, close,     *)
(* volume, adx, bull]; the last two stand for adx_di, which like the other  *)
(* indicators reads only bars up to its own: ADX and "+DI above -DI". A     *)
(* moving average of period P is kept as the sum of its P closes, prices    *)
(* are integers, and the division of the ATR, of money and of a percentage  *)
(* rounds down, where the code keeps floats.                                *)
(***************************************************************************)
EXTENDS Integers, Sequences, FiniteSets, FiniteSetsExt, Functions

CONSTANTS AtrPeriod,      \* ATR_PERIOD
          SlopeLookback,  \* MA_SLOPE_PERIOD
          FastPeriod, SlowPeriod,   \* MA_CROSS_FAST_DEFAULT, MA_CROSS_SLOW_DEFAULT
          Unit,           \* one share is Unit units of a position
          InitialCash,
          CostWindow, FeeAndSpread, OrderNotional   \* of estimate_cost

ASSUME Settings ==
    /\ {AtrPeriod, SlopeLookback, FastPeriod, SlowPeriod, Unit} \subseteq Nat \ {0}
    /\ {InitialCash, CostWindow, FeeAndSpread, OrderNotional} \subseteq Nat

Flat == -1     \* entry_idx of an engine without a position
MaxOf(a, b) == IF a >= b THEN a ELSE b
MinOf(a, b) == IF a <= b THEN a ELSE b
Abs(a) == MaxOf(a, -a)
SquareRoot(v) == CHOOSE r \in 0 .. v : r * r <= v /\ v < (r + 1) * (r + 1)

(***************************** indicators **********************************)

Closes(h) == [i \in DOMAIN h |-> h[i].close]

\* P times the simple average of the last P values, 0 before there are P.
Sma(f, P) == [i \in DOMAIN f |-> IF i < P - 1 THEN 0 ELSE SumFunction([j \in (i - P + 1) .. i |-> f[j]])]

\* The sign of the regression slope of an average over the last bars: the
\* bars before the average starts count as 0.
Slope(ma) ==
    LET L == SlopeLookback
    IN [i \in DOMAIN ma |->
          IF i < L - 1 THEN 0
          ELSE SumFunction([k \in 0 .. (L - 1) |-> (2 * k - (L - 1)) * ma[i - L + 1 + k]])]

TrueRange(h, i) ==
    MaxOf(h[i].high - h[i].low, MaxOf(Abs(h[i].high - h[i - 1].close), Abs(h[i].low - h[i - 1].close)))

\* Wilder's average of the true range: 0 up to bar P - 1, the plain average
\* at bar P, the recurrence after it.
Atr(h) ==
    LET P == AtrPeriod
        rma[i \in DOMAIN h] ==
            IF i < P THEN 0
            ELSE IF i = P THEN SumFunction([j \in 1 .. P |-> TrueRange(h, j)]) \div P
            ELSE (rma[i - 1] * (P - 1) + TrueRange(h, i)) \div P
    IN rma

\* What one StrategyEvaluator precomputes, for every period of a grid.
Prepare(h, periods) ==
    LET mas == [P \in periods |-> Sma(Closes(h), P)]
    IN [mas |-> mas, slopes |-> [P \in periods |-> Slope(mas[P])],
        fast |-> Sma(Closes(h), FastPeriod), slow |-> Sma(Closes(h), SlowPeriod),
        atr |-> Atr(h)]

(*************************** the strategy rules *****************************)

AboveMa(h, x, P, i) == P * h[i].close > x.mas[P][i]
NearMa(h, x, p, i) ==
    LET S == x.mas[p.ma_period][i]
    IN S > 0 /\ 100 * Abs(p.ma_period * h[i].close - S) <= p.buffer * S

Pullback(h, x, p, i) ==
    /\ \E j \in MaxOf(1, i - 4) .. i : x.mas[p.ma_period][j] > 0 /\ AboveMa(h, x, p.ma_period, j)
    /\ x.slopes[p.ma_period][i] > 0
    /\ NearMa(h, x, p, i)

Breakout(h, x, p, i) ==
    LET P == p.ma_period
    IN /\ x.mas[P][i - 1] > 0
       /\ P * h[i - 1].close < x.mas[P][i - 1]
       /\ AboveMa(h, x, P, i) \/ NearMa(h, x, p, i)

Momentum(h, x, p, i) ==
    x.mas[p.ma_period][i] > 0 /\ x.slopes[p.ma_period][i] > 0 /\ AboveMa(h, x, p.ma_period, i)

Donchian(h, p, i) ==
    i >= p.ma_period /\ \A j \in (i - p.ma_period) .. (i - 1) : h[i].close > h[j].close

\* The averages a (period A) and b (period B), compared at bars i and i - 1.
CrossesUp(a, A, b, B, i) ==
    /\ \A j \in {i - 1, i} : a[j] > 0 /\ b[j] > 0
    /\ a[i] * B > b[i] * A
    /\ a[i - 1] * B <= b[i - 1] * A

EntryRule(h, x, p, i) ==
    /\ i >= 1
    /\ CASE p.entry_mode = "pullback" -> Pullback(h, x, p, i)
         [] p.entry_mode = "breakout" -> Breakout(h, x, p, i)
         [] p.entry_mode = "hybrid" -> NearMa(h, x, p, i)
         [] p.entry_mode = "momentum" -> Momentum(h, x, p, i)
         [] p.entry_mode = "donchian" -> Donchian(h, p, i)
         [] p.entry_mode = "golden_cross" ->
                CrossesUp(x.fast, FastPeriod, x.mas[p.ma_period], p.ma_period, i)

DeadCross(x, i) ==
    /\ \A j \in {i - 1, i} : x.fast[j] > 0 /\ x.slow[j] > 0
    /\ x.fast[i] * SlowPeriod < x.slow[i] * FastPeriod
    /\ x.fast[i - 1] * SlowPeriod >= x.slow[i - 1] * FastPeriod

\* The bars from start to end - 1 at which the rule-based alpha model signals.
AlphaSignals(h, x, p, start, end) ==
    {i \in MaxOf(0, start) .. (MinOf(Cardinality(DOMAIN h), end) - 1) : EntryRule(h, x, p, i)}

\* The alpha model's candidates pass the ADX and direction filters too. The
\* keys adx_filter, adx_threshold, adx_period and adx_direction of a parameter
\* set are its tuple adx, empty when the set has none of them.
EvaluateEntry(h, p, i, candidates) ==
    /\ i \in candidates
    /\ p.adx # <<>> => /\ p.adx[1] => h[i].adx > p.adx[2]
                       /\ p.adx[4] => h[i].bull

\* The chandelier stop of a position: 0 when there is none.
CurrentStop(x, p, i, peak) ==
    IF p.exit_mode = "ma_cross" THEN 0 ELSE MaxOf(0, peak - p.atr_multiple * x.atr[i])

StopHit(h, x, p, i, peak) ==
    CurrentStop(x, p, i, peak) > 0 /\ h[i].low <= CurrentStop(x, p, i, peak)

CrossHit(x, p, i) == p.exit_mode # "chandelier" /\ DeadCross(x, i)

(******************************* the engine *********************************)

\* The cost of a side is per mille.
Buy(cash, price, cost) == (cash * 1000 * Unit) \div (price * (1000 + cost))
Sell(position, price, cost) == (position * price * (1000 - cost)) \div (1000 * Unit)

\* A stop sells as a stop-limit one ATR below the stop: it fills when the bar
\* reaches the limit and is missed, the position kept, when it does not.
Limit(x, p, i, peak) == CurrentStop(x, p, i, peak) - x.atr[i]
LimitFills(h, x, p, i, peak) == h[i].low <= Limit(x, p, i, peak)

\* A bug: a bar that opens below the limit still sells at the limit.
BugStopPrice(h, x, p, i, peak) == Limit(x, p, i, peak)

StopPrice(h, x, p, i, peak) == MinOf(h[i].open, Limit(x, p, i, peak))

Fresh == [cash |-> InitialCash, position |-> 0, entry |-> Flat, peak |-> 0,
          missed |-> FALSE, trades |-> <<>>, equity |-> <<>>]

Enter(h, cost, s, i) ==
    [s EXCEPT !.position = Buy(s.cash, h[i].close, cost), !.cash = 0, !.entry = i,
              !.peak = h[i].high, !.missed = FALSE]

\* Exit_reason is overwritten here: that a stop was missed is not in a trade.
\* "missed" remembers it for the properties.
Exit(h, cost, s, i, price, why) ==
    [s EXCEPT !.cash = Sell(s.position, price, cost), !.position = 0, !.entry = Flat,
              !.trades = Append(@, [in |-> s.entry, out |-> i, buy |-> h[s.entry].close,
                                    sell |-> price, why |-> why, missed |-> s.missed])]

PeakAt(h, s, i) == MaxOf(s.peak, h[i - 1].high)

Hold(h, x, p, cost, s, i) ==
    LET peak == PeakAt(h, s, i)
        held == [s EXCEPT !.peak = peak]
    IN IF StopHit(h, x, p, i, peak)
       THEN IF LimitFills(h, x, p, i, peak)
            THEN Exit(h, cost, held, i, StopPrice(h, x, p, i, peak), "stp_lmt_fill")
            ELSE [held EXCEPT !.missed = TRUE]
       ELSE IF CrossHit(x, p, i) THEN Exit(h, cost, held, i, h[i].close, "ma_cross")
       ELSE held

Mark(h, s, i) ==
    [s EXCEPT !.equity = Append(@, s.cash + (s.position * h[i].close) \div Unit)]

Bar(h, x, p, cost, candidates, s, i) ==
    Mark(h, IF s.entry # Flat THEN Hold(h, x, p, cost, s, i)
            ELSE IF EvaluateEntry(h, p, i, candidates) THEN Enter(h, cost, s, i)
            ELSE s, i)

\* A bug: the curve keeps the last mark, before the cost of selling.
BugSettle(h, cost, s, end) ==
    IF s.entry = Flat THEN s ELSE Exit(h, cost, s, end - 1, h[end - 1].close, "end_of_window")

\* A position held at the end of the window is sold at its last close.
Settle(h, cost, s, end) ==
    IF s.entry = Flat THEN s
    ELSE LET sold == Exit(h, cost, s, end - 1, h[end - 1].close, "end_of_window")
         IN [sold EXCEPT !.equity[Len(sold.equity)] = sold.cash]

\* run_backtest over the bars start .. end - 1 of a history; the rules read
\* the indicators of the bars before them too.
Engine(h, x, p, cost, start, end) ==
    LET first == MaxOf(1, start)
        candidates == AlphaSignals(h, x, p, first, end)
        run[i \in (first - 1) .. MaxOf(first - 1, end - 1)] ==
            IF i = first - 1 THEN Fresh ELSE Bar(h, x, p, cost, candidates, run[i - 1], i)
    IN Settle(h, cost, run[MaxOf(first - 1, end - 1)], end)

(******************************* statistics *********************************)

\* Percentages are kept per mille.
Pnl(t) == ((t.sell - t.buy) * 1000) \div t.buy
ReturnOf(e) == IF e[1] = 0 THEN 0 ELSE ((e[Len(e)] - e[1]) * 1000) \div e[1]
DrawdownOf(e) ==
    LET peak == [k \in DOMAIN e |-> Max({e[j] : j \in 1 .. k})]
    IN Max({IF peak[k] > 0 THEN ((peak[k] - e[k]) * 1000) \div peak[k] ELSE 0 : k \in DOMAIN e})

\* Mean over deviation of the daily returns, in hundredths.
SharpeOf(e) ==
    LET days == {k \in 1 .. (Len(e) - 1) : e[k] > 0}
        m == Cardinality(days)
        ret == [k \in days |-> ((e[k + 1] - e[k]) * 1000) \div e[k]]
        sum == SumFunction(ret)
        squares == SumFunction([k \in days |-> (ret[k] - sum \div m) * (ret[k] - sum \div m)])
        std == SquareRoot(squares \div (m - 1))
    IN IF m < 2 THEN 0 ELSE IF std > 0 THEN (100 * sum) \div (m * std) ELSE 0

\* p - (1 - p) / b in hundredths; 0 without a losing or a winning trade.
KellyOf(trades) ==
    LET n == Len(trades)
        pnl == [k \in 1 .. n |-> Pnl(trades[k])]
        wins == {k \in 1 .. n : pnl[k] > 0}
        losses == {k \in 1 .. n : pnl[k] < 0}
        w == Cardinality(wins)
        won == SumFunctionOnSet(pnl, wins)
        lost == Abs(SumFunctionOnSet(pnl, losses))
    IN IF losses = {} \/ won <= 0 THEN 0
       ELSE (100 * (w * Cardinality(losses) * won - (n - w) * lost * w))
                \div (n * Cardinality(losses) * won)

Stats(s) ==
    LET none == s.trades = <<>> \/ s.equity = <<>>
    IN [trades |-> s.trades, equity |-> s.equity, count |-> Len(s.trades),
        return |-> IF none THEN 0 ELSE ReturnOf(s.equity),
        maxdd |-> IF none THEN 0 ELSE DrawdownOf(s.equity),
        sharpe |-> IF none THEN 0 ELSE SharpeOf(s.equity),
        kelly |-> IF none THEN 0 ELSE KellyOf(s.trades)]

Run(h, x, p, cost, start, end) == Stats(Engine(h, x, p, cost, start, end))

(***************************** the cost model *******************************)

\* The value at place r, from 0, of f's values over S in ascending order.
Sorted(f, S, r) ==
    CHOOSE v \in {f[s] : s \in S} :
        Cardinality({s \in S : f[s] < v}) <= r /\ r < Cardinality({s \in S : f[s] <= v})

MedianOf(f, S) ==
    LET m == Cardinality(S) IN (Sorted(f, S, (m - 1) \div 2) + Sorted(f, S, m \div 2)) \div 2

\* Fees and half the spread in basis points, and the impact of an order of the
\* assumed size on the median turnover of the last bars traded, by the square root
\* and at most 60; 35 without a turnover. The cost of a side is cut to 5 .. 100
\* basis points, and here to whole per mille.
EstimateCost(h, n) ==
    LET traded == {i \in 0 .. (n - 1) : h[i].close > 0 /\ h[i].volume > 0}
        last == {i \in traded : Cardinality({j \in traded : j > i}) < CostWindow}
        adv == MedianOf([i \in last |-> h[i].close * h[i].volume], last)
        impact == IF last = {} THEN MaxOf(0, 35 - FeeAndSpread)
                  ELSE MinOf(60, SquareRoot(MinOf(3600, (6400 * OrderNotional) \div adv)))
    IN MinOf(100, MaxOf(5, FeeAndSpread + impact)) \div 10
=============================================================================
