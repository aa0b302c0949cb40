----------------------------- MODULE WalkForward -----------------------------
(***************************************************************************)
(* The computations of one research run: research_symbol divides a history  *)
(* into a development part and a final holdout (research/pipeline.py),      *)
(* run_walk_forward selects and tests parameters in four nested folds       *)
(* (research/walk_forward.py), decide_lifecycle and the robustness checks   *)
(* decide (research/score.py, research/robustness.py), and the locked       *)
(* candidate meets the holdout. How runs share the database, seal and       *)
(* consume a holdout is module ResearchRun.                                 *)
(*                                                                         *)
(* The same steps are taken for two histories in lockstep, "run" and "twin",*)
(* whose bars agree below the bar cut: what is decided from bars below cut  *)
(* has to be the same in both, or a later bar was looked at.                *)
(***************************************************************************)
EXTENDS Backtest

CONSTANTS Pairs,          \* of histories with their cut: [run, twin, cut]
          Grid,           \* params_grid, a sequence
          DefaultParams,  \* the candidate of a research without folds
          DefaultCost,    \* COST_BPS, per mille
          MinBars,        \* prefilter_min_bars
          MinHoldout,     \* FINAL_HOLDOUT_MIN_BARS; one tenth when that is more
          MinFirstTrain,  \* the 50 bars the first fold has to train on
          MinValidation,  \* INNER_VALIDATION_MIN_BARS
          ShortlistSize,  \* INNER_SHORTLIST_SIZE
          MinTradesFloor, \* MIN_VARIANTS_FLOOR
          MinOosTrades,   \* MIN_OOS_TRADES; one for a low-frequency choice
          LowFreqMa,      \* LOW_FREQ_MA_THRESHOLD
          Year,           \* TRADING_DAYS_PER_YEAR
          Penalty,        \* multiple_testing_diagnostic's, in hundredths
          MinVerifiedTrades,  \* MIN_VERIFIED_OOS_TRADES
          MinHoldoutTrades    \* FINAL_HOLDOUT_MIN_TRADES

Sides == {"run", "twin"}
Bars(h) == Cardinality(DOMAIN h)

ASSUME PairsAgree ==
    \A pair \in Pairs : /\ Bars(pair.run) \in Nat /\ pair.cut \in Nat
                        /\ DOMAIN pair.run = 0 .. (Bars(pair.run) - 1)
                        /\ DOMAIN pair.twin = DOMAIN pair.run
                        /\ \A i \in DOMAIN pair.run : i < pair.cut => pair.run[i] = pair.twin[i]

ASSUME Numbers ==
    /\ MinValidation \in Nat /\ MinFirstTrain \in Nat /\ MinFirstTrain > 1
    /\ MinBars \in Nat /\ MinHoldout \in Nat
    /\ ShortlistSize \in Nat \ {0} /\ DefaultCost \in 0 .. 1000

ASSUME PricesArePositive ==
    \A pair \in Pairs : \A h \in {pair.run, pair.twin} : \A i \in DOMAIN h :
        {h[i].open, h[i].high, h[i].low, h[i].close} \subseteq Nat \ {0} /\ h[i].volume \in Nat

\* The entry modes are ENTRY_MODES.
ASSUME ParamsAreSane ==
    /\ Grid \in Seq(Range(Grid)) /\ Grid # <<>>
    /\ \A p \in Range(Grid) \cup {DefaultParams} :
           /\ DOMAIN p = {"entry_mode", "ma_period", "atr_multiple", "buffer", "exit_mode", "adx"}
           /\ p.entry_mode \in {"pullback", "breakout", "hybrid", "momentum", "donchian", "golden_cross"}
           /\ p.ma_period \in Nat \ {0} /\ p.atr_multiple \in Nat

VARIABLES hist,    \* the two histories
          cut,
          stage,   \* load, train, validate, test, replay, decide,
                   \* holdout, measure, done, short
          dev,     \* the bars of the development part
          cost,    \* the estimated cost of a side
          prep,    \* the indicators of the development part
          cands,   \* train_candidates of the fold at hand, then the neighbours
          valid,   \* validation_candidates of the fold at hand
          folds,   \* the FoldResults so far
          result   \* the decision
vars == <<hist, cut, stage, dev, cost, prep, cands, valid, folds, result>>

(******************************* windows ************************************)

TrainEnd(n, k) == ((3 + k) * n) \div 8
\* A bug: a test of two eighths.
BugTestEnd(n, k) == MinOf(TrainEnd(n, k) + n \div 4, n)
TestEnd(n, k) == MinOf(TrainEnd(n, k) + n \div 8, n)

\* At least half of the training bars stay with the inner training.
InnerStart(n, k) ==
    MaxOf(TrainEnd(n, k) \div 2,
          TrainEnd(n, k) - MaxOf(MinValidation, TrainEnd(n, k) \div 5))

Windows(n, k) == [train_end |-> TrainEnd(n, k), inner_end |-> InnerStart(n, k),
                  test_start |-> TrainEnd(n, k), test_end |-> TestEnd(n, k)]

(******************************* selection **********************************)

\* Python's order of tuples, greatest first.
Precedes(u, v) == \E k \in DOMAIN u : u[k] > v[k] /\ \A j \in 1 .. (k - 1) : u[j] = v[j]

\* max(5, lower quartile of the trade counts).
MinTrades(cs) ==
    LET counts == [g \in DOMAIN cs |-> cs[g].count]
    IN MaxOf(MinTradesFloor, Sorted(counts, DOMAIN cs, Len(cs) \div 4))

\* The order of the inner training; an equal set keeps its place in the grid.
TrainRank(cs, g) ==
    LET r == cs[g] IN <<r.kelly, r.return, -r.maxdd, r.count, -g>>

Shortlist(cs) ==
    LET able == {g \in DOMAIN cs : cs[g].kelly > 0 /\ cs[g].count >= MinTrades(cs)}
        ranked == IF able = {} THEN DOMAIN cs ELSE able
    IN {g \in ranked : Cardinality({o \in ranked : Precedes(TrainRank(cs, o), TrainRank(cs, g))})
                         < ShortlistSize}

\* The order of the inner validation; max keeps the first of equals.
ValidationRank(r) ==
    <<IF r.count > 0 /\ r.return > 0 THEN 1 ELSE 0, r.sharpe, r.return, -r.maxdd, r.count>>

Selected(cs, vs) ==
    LET rank(g) == ValidationRank(vs[g]) \o TrainRank(cs, g)
    IN CHOOSE g \in DOMAIN vs : \A o \in (DOMAIN vs) \ {g} : Precedes(rank(g), rank(o))

\* Long averages, crossing exits and symbols that trade less than three times
\* a year are allowed a single out-of-sample trade.
LowFrequency(p, train, n, k) ==
    \/ p.exit_mode # "chandelier"
    \/ p.ma_period >= LowFreqMa
    \/ train.count * Year < 3 * TrainEnd(n, k)

Unfilled(trades) == \E t \in DOMAIN trades : trades[t].why = "stp_lmt_unfilled"

FoldPasses(oos, nocost, least) ==
    /\ oos.count >= least
    /\ oos.return > 0
    /\ oos.sharpe > 0
    /\ ~(nocost.return > 0 /\ oos.return <= 0)
    /\ ~Unfilled(oos.trades)

\* The three steps of a fold: every set of the grid on the inner training, the
\* shortlist on the inner validation, and the choice on the whole training and
\* out of sample.
Candidates(h, x, c, n, k) == [g \in DOMAIN Grid |-> Run(h, x, Grid[g], c, 0, InnerStart(n, k))]

\* A bug: the validation runs on into the test.
BugValidations(h, x, c, n, k, cs) ==
    [g \in Shortlist(cs) |-> Run(h, x, Grid[g], c, InnerStart(n, k), TestEnd(n, k))]

Validations(h, x, c, n, k, cs) ==
    [g \in Shortlist(cs) |-> Run(h, x, Grid[g], c, InnerStart(n, k), TrainEnd(n, k))]

Fold(h, x, c, n, k, cs, vs) ==
    LET w == Windows(n, k)
        chosen == Selected(cs, vs)
        p == Grid[chosen]
        train == Run(h, x, p, c, 0, w.train_end)
        oos == Run(h, x, p, c, w.test_start, w.test_end)
        nocost == Run(h, x, p, 0, w.test_start, w.test_end)
    IN [windows |-> w, params |-> p, inner |-> vs[chosen], train |-> train,
        oos |-> oos, nocost |-> nocost,
        passed |-> FoldPasses(oos, nocost,
                              IF LowFrequency(p, train, n, k) THEN 1 ELSE MinOosTrades)]

(******************************* decision ***********************************)

PassedFolds(fs) == Cardinality({k \in DOMAIN fs : fs[k].passed})
PositiveFolds(fs) == Cardinality({k \in DOMAIN fs : fs[k].nocost.return > 0})

\* The key of a variant leaves the ADX period and direction out.
Variants(fs) ==
    {LET p == fs[k].params
     IN <<p.entry_mode, p.ma_period, p.atr_multiple, p.buffer, p.exit_mode,
          IF p.adx = <<>> THEN <<FALSE, 0>> ELSE SubSeq(p.adx, 1, 2)>> : k \in DOMAIN fs}

TailRiskPassed(fs) == \A k \in DOMAIN fs : fs[k].oos.return >= -250 /\ fs[k].oos.maxdd <= 250

StructurallyRobust(fs) ==
    /\ PassedFolds(fs) >= 3
    /\ PositiveFolds(fs) >= 3
    /\ Cardinality(Variants(fs)) <= 3
    /\ TailRiskPassed(fs)

\* The choice of the last fold, with the ADX keys it may lack.
ProductionParams(fs) ==
    IF fs = <<>> THEN DefaultParams
    ELSE LET p == fs[Len(fs)].params
         IN IF p.adx = <<>> THEN [p EXCEPT !.adx = <<FALSE, 20, 14, FALSE>>] ELSE p

DeflatedSharpePasses(fs) == 
    MapThenSumSet(LAMBDA k: fs[k].oos.sharpe, DOMAIN fs) > Len(fs) * Penalty

ParametersStable(fs) ==
    LET chosen == [k \in DOMAIN fs |-> fs[k].params]
    IN /\ fs # <<>>
       /\ Cardinality({chosen[k] : k \in DOMAIN fs}) <= 3
       /\ \E k \in DOMAIN fs : 2 * Cardinality({j \in DOMAIN fs : chosen[j] = chosen[k]}) >= Len(fs)

\* How many keys differ; the four ADX keys all differ from absent ones.
BaseKeys == {"entry_mode", "ma_period", "atr_multiple", "buffer", "exit_mode"}
BaseDistance(p, q) == Cardinality({key \in BaseKeys : p[key] # q[key]})
Distance(p, q) ==
    BaseDistance(p, q)
      + (IF Len(p.adx) = Len(q.adx) THEN Cardinality({j \in DOMAIN p.adx : p.adx[j] # q.adx[j]}) ELSE 4)

Neighbours(p) == {g \in DOMAIN Grid : Distance(p, Grid[g]) = 1}

\* At most 12 neighbours in the code; no grid here has more. They and the
\* candidate see the whole development part, at the default cost.
Replays(h, x, p, n) ==
    [base |-> Run(h, x, p, DefaultCost, 0, n).return,
     near |-> [g \in Neighbours(p) |-> Run(h, x, Grid[g], DefaultCost, 0, n).return]]

NeighbourhoodPasses(r) ==
    LET near == DOMAIN r.near
        m == Cardinality(near)
    IN \/ m = 0
       \/ /\ 10 * Cardinality({g \in near : r.near[g] > 0}) >= 6 * m
          /\ r.base <= 0 \/ MedianOf(r.near, near) >= 0

OosTrades(fs) == MapThenSumSet(LAMBDA k: fs[k].oos.count, DOMAIN fs)

Decision(fs, r) ==
    [params |-> ProductionParams(fs),
     status |-> IF ~(StructurallyRobust(fs) /\ TailRiskPassed(fs)) THEN "degraded"
                ELSE IF DeflatedSharpePasses(fs) /\ ParametersStable(fs)
                        /\ NeighbourhoodPasses(r) /\ OosTrades(fs) >= MinVerifiedTrades
                THEN "verified" ELSE "research_only",
     holdout |-> <<>>, frozen |-> <<>>]

(******************************* holdout ************************************)

HoldoutBars(n) == MaxOf(MinHoldout, n \div 10)

HoldoutFails(r) ==
    {why \in {"trades", "return", "sharpe", "maxdd", "unfilled"} :
        \/ why = "trades" /\ r.count < MinHoldoutTrades
        \/ why = "return" /\ r.return <= 0
        \/ why = "sharpe" /\ r.sharpe <= 0
        \/ why = "maxdd" /\ r.maxdd > 250
        \/ why = "unfilled" /\ Unfilled(r.trades)}

\* The holdout of a verified decision, then the trades of the frozen candidate
\* since the last fold's test began: too few of either leave it in shadow.
AfterHoldout(h, x, c, fs, d) ==
    LET n == Bars(h)
        measured == Run(h, x, d.params, c, dev, n)
        frozen == Run(h, x, d.params, c, fs[Len(fs)].windows.test_start, n)
        fails == HoldoutFails(measured)
    IN [d EXCEPT !.holdout = <<measured>>,
                 !.frozen = IF fails = {} THEN <<frozen>> ELSE <<>>,
                 !.status = IF fails = {"trades"} \/ (fails = {} /\ frozen.count < MinVerifiedTrades)
                            THEN "shadow"
                            ELSE IF fails # {} THEN "degraded" ELSE @]

(******************************* the run ************************************)

Init ==
    /\ \E pair \in Pairs : hist = [s \in Sides |-> pair[s]] /\ cut = pair.cut
    /\ stage = "load"
    /\ dev = 0
    /\ cost = [s \in Sides |-> 0]
    /\ prep = <<>>
    /\ cands = <<>>
    /\ valid = <<>>
    /\ folds = [s \in Sides |-> <<>>]
    /\ result = <<>>

\* The slice [:n] of a history.
Slice(h, n) == [i \in 0 .. (n - 1) |-> h[i]]
Development(s) == Slice(hist[s], dev)
Length == Bars(hist["run"]) - HoldoutBars(Bars(hist["run"]))
Periods == {Grid[g].ma_period : g \in DOMAIN Grid}

TooShort ==
    /\ stage = "load"
    /\ Length < MinBars
    /\ stage' = "short"
    /\ UNCHANGED <<hist, cut, dev, cost, prep, cands, valid, folds, result>>

\* A bug: the cost is estimated from all bars.
BugDivide ==
    /\ stage = "load"
    /\ Length >= MinBars
    /\ dev' = Length
    /\ cost' = [s \in Sides |-> EstimateCost(hist[s], Bars(hist[s]))]
    /\ prep' = [s \in Sides |-> Prepare(Slice(hist[s], Length), Periods)]
    /\ stage' = IF Length \div 2 < MinFirstTrain THEN "replay" ELSE "train"
    /\ UNCHANGED <<hist, cut, cands, valid, folds, result>>

Divide ==
    /\ stage = "load"
    /\ Length >= MinBars
    /\ dev' = Length
    /\ cost' = [s \in Sides |-> EstimateCost(Slice(hist[s], Length), Length)]
    /\ prep' = [s \in Sides |-> Prepare(Slice(hist[s], Length), Periods)]
    /\ stage' = IF Length \div 2 < MinFirstTrain THEN "replay" ELSE "train"
    /\ UNCHANGED <<hist, cut, cands, valid, folds, result>>

FoldNo == Len(folds["run"]) + 1

TrainGrid ==
    /\ stage = "train"
    /\ cands' = [s \in Sides |-> Candidates(Development(s), prep[s], cost[s], dev, FoldNo)]
    /\ stage' = "validate"
    /\ UNCHANGED <<hist, cut, dev, cost, prep, valid, folds, result>>

Validate ==
    /\ stage = "validate"
    /\ valid' = [s \in Sides |-> Validations(Development(s), prep[s], cost[s], dev, FoldNo, cands[s])]
    /\ stage' = "test"
    /\ UNCHANGED <<hist, cut, dev, cost, prep, cands, folds, result>>

TestChoice ==
    /\ stage = "test"
    /\ folds' = [s \in Sides |-> Append(folds[s], Fold(Development(s), prep[s], cost[s], dev, FoldNo, cands[s], valid[s]))]
    /\ cands' = <<>>
    /\ valid' = <<>>
    /\ stage' = IF FoldNo = 4 THEN "replay" ELSE "train"
    /\ UNCHANGED <<hist, cut, dev, cost, prep, result>>

ReplayNeighbours ==
    /\ stage = "replay"
    /\ cands' = [s \in Sides |-> Replays(Development(s), prep[s], ProductionParams(folds[s]), dev)]
    /\ stage' = "decide"
    /\ UNCHANGED <<hist, cut, dev, cost, prep, valid, folds, result>>

Decide ==
    /\ stage = "decide"
    /\ result' = [s \in Sides |-> Decision(folds[s], cands[s])]
    /\ cands' = <<>>
    /\ stage' = IF \E s \in Sides : result'[s].status = "verified" THEN "holdout" ELSE "done"
    /\ UNCHANGED <<hist, cut, dev, cost, prep, valid, folds>>

\* Only a verified development opens the holdout; the rules now read the
\* indicators of the whole history.
Open ==
    /\ stage = "holdout"
    /\ prep' = [s \in Sides |-> Prepare(hist[s], {result[s].params.ma_period})]
    /\ stage' = "measure"
    /\ UNCHANGED <<hist, cut, dev, cost, cands, valid, folds, result>>

Measure ==
    /\ stage = "measure"
    /\ result' = [s \in Sides |-> IF result[s].status = "verified"
                                  THEN AfterHoldout(hist[s], prep[s], cost[s], folds[s], result[s]) ELSE result[s]]
    /\ stage' = "done"
    /\ UNCHANGED <<hist, cut, dev, cost, prep, cands, valid, folds>>

Next == TooShort \/ Divide \/ TrainGrid \/ Validate \/ TestChoice
        \/ ReplayNeighbours \/ Decide \/ Open \/ Measure
Spec == Init /\ [][Next]_vars

(****************************** properties **********************************)

Statuses == {"verified", "research_only", "degraded", "shadow"}

\* The stages follow one another and every fold and decision is of the two
\* histories.
TypeOK ==
    /\ DOMAIN hist = Sides /\ DOMAIN hist["run"] = DOMAIN hist["twin"]
    /\ \A i \in DOMAIN hist["run"] : i < cut => hist["run"][i] = hist["twin"][i]
    /\ stage \in {"load", "train", "validate", "test", "replay", "decide", "holdout",
                 "measure", "done", "short"}
    /\ dev \in Nat
    /\ DOMAIN folds = Sides
    /\ Len(folds["run"]) = Len(folds["twin"])
    /\ Len(folds["run"]) <= 4
    /\ stage \in {"holdout", "measure", "done"} => \A s \in Sides : result[s].status \in Statuses

\* There is a decision and the holdout has not been met.
Decided ==
    \/ stage \in {"holdout", "measure"}
    \/ stage = "done" /\ \A s \in Sides : result[s].holdout = <<>>

\* The choice of a fold whose test begins at or below the cut, and a fold whose
\* test ends there, are the same for both histories.
ChoicesAgree ==
    \A k \in DOMAIN folds["run"] :
        LET a == folds["run"][k]
            b == folds["twin"][k]
        IN /\ a.windows.train_end <= cut =>
                 a.params = b.params /\ a.inner = b.inner /\ a.train = b.train
           /\ a.windows.test_end <= cut => a = b

\* Nothing is chosen from bars that were not there: for a given cost, a fold's
\* choice depends on the bars before its test only, and a fold on the bars up
\* to the end of its test.
SelectionIsBlind == cost["run"] = cost["twin"] => ChoicesAgree

\* The holdout is unseen: the cost, the candidate and the decision that may open
\* it depend on the development part only.
HoldoutIsUnseen ==
    dev <= cut => /\ cost["run"] = cost["twin"]
                  /\ Decided => result["run"] = result["twin"]

\* The folds' windows are in order and apart: an inner training of at least
\* half the training, a validation that ends where the test begins, tests that
\* do not overlap, and no window that reaches into the holdout.
OosIsUnseen ==
    \A s \in Sides : \A k \in DOMAIN folds[s] :
        LET w == folds[s][k].windows
        IN /\ 0 < w.inner_end /\ w.train_end <= 2 * w.inner_end + 1
           /\ w.inner_end <= w.train_end /\ w.train_end <= w.test_start
           /\ w.test_start <= w.test_end /\ w.test_end <= dev
           /\ \A j \in 1 .. (k - 1) : folds[s][j].windows.test_end <= w.test_start

Results(s) ==
    (UNION {{f.inner, f.train, f.oos, f.nocost} : f \in {folds[s][k] : k \in DOMAIN folds[s]}})
      \cup (IF stage = "done" THEN {result[s].holdout[j] : j \in DOMAIN result[s].holdout} ELSE {})

\* The prefilter lets a history pass with a few bars that fail this.
OhlcValid(b) == b.high >= MaxOf(b.open, b.close) /\ b.low <= MinOf(b.open, b.close)

\* The trades of a backtest follow one another, each bought at a close and sold at
\* a price its last bar traded at, when that bar is a valid one. That price need not
\* be one the order allows: in a bar wholly below its limit a stop-limit is sold at
\* the open, which SkippedIsUnfilled below is about (backtest.py:241).
TradesAreReal ==
    \A s \in Sides : \A r \in Results(s) : \A t \in DOMAIN r.trades :
        LET trade == r.trades[t]
            bar == hist[s][trade.out]
        IN /\ trade.in <= trade.out
           /\ t > 1 => r.trades[t - 1].out < trade.in
           /\ trade.buy = hist[s][trade.in].close
           /\ OhlcValid(bar) => bar.low <= trade.sell /\ trade.sell <= bar.high

\* What a sequence of trades makes of the initial cash.
Compounded(trades, c) ==
    LET cash[k \in 0 .. Len(trades)] ==
            IF k = 0 THEN InitialCash
            ELSE Sell(Buy(cash[k - 1], trades[k].buy, c), trades[k].sell, c)
    IN cash[Len(trades)]

\* The equity curve ends with what the trades it reports made of the initial cash,
\* a position held over the end of the window included.
EquityIsTheTrades ==
    \A s \in Sides : \A k \in DOMAIN folds[s] :
        LET f == folds[s][k]
        IN /\ \A r \in {f.inner, f.train, f.oos} :
                 r.equity # <<>> => r.equity[Len(r.equity)] = Compounded(r.trades, cost[s])
           /\ f.nocost.equity # <<>> =>
                 f.nocost.equity[Len(f.nocost.equity)] = Compounded(f.nocost.trades, 0)

\* A verified strategy was earned: in at least three tests apart it traded and
\* its money grew after costs, it never lost more than a quarter of it in any
\* (per mille, rounded down), and the locked
\* candidate grew it in the holdout and traded enough since its selection.
VerifiedIsEarned ==
    \A s \in Sides : stage = "done" => (result[s].status = "verified" =>
        /\ Cardinality({k \in DOMAIN folds[s] :
              LET e == folds[s][k].oos.equity
              IN folds[s][k].oos.trades # <<>> /\ e[Len(e)] > e[1]}) >= 3
        /\ \A k \in DOMAIN folds[s] :
              LET e == folds[s][k].oos.equity
              IN \A i, j \in DOMAIN e : i < j => 1000 * (e[i] - e[j]) < 251 * e[i]
        /\ \A r \in {result[s].holdout[j] : j \in DOMAIN result[s].holdout} :
              r.equity[Len(r.equity)] > r.equity[1] /\ Len(r.trades) >= MinHoldoutTrades
        /\ result[s].frozen # <<>>
        /\ Len(result[s].frozen[1].trades) >= MinVerifiedTrades)

(******************** what the documentation says ***************************)

\* robustness.py: the candidate's one-dimensional neighbours are replayed.
NeighboursAreTried ==
    stage \in {"holdout", "measure", "done"} => \A s \in Sides :
        (\E g \in DOMAIN Grid : BaseDistance(result[s].params, Grid[g]) = 1)
            => Neighbours(result[s].params) # {}

\* walk_forward.py: a fold passes only when no stop-limit was left unfilled.
NoStopWasMissed ==
    \A s \in Sides : \A k \in DOMAIN folds[s] :
        folds[s][k].passed => \A t \in DOMAIN folds[s][k].oos.trades : ~folds[s][k].oos.trades[t].missed

\* walk_forward.py: the outer out-of-sample bars never take part in the choice
\* of parameters, not through the cost the folds are run with either.
CostIsBlind == ChoicesAgree

\* indicators.py: the stop of bar i is the peak up to bar i - 1 less the ATR of
\* bar i - 1, so that the price of a stop is known before the bar.
StopsWereKnown ==
    \A s \in Sides : \A k \in DOMAIN folds[s] :
        LET f == folds[s][k]
        IN \A t \in DOMAIN f.train.trades :
              LET trade == f.train.trades[t]
                  peak == Max({hist[s][i].high : i \in trade.in .. (trade.out - 1)})
              IN trade.why = "stp_lmt_fill" =>
                    trade.sell = MinOf(hist[s][trade.out].open, Limit(prep[s], f.params, trade.out - 1, peak))

\* indicators.py:241 and backtest.py:12: a stop whose bar skips the limit and does
\* not come back to it is recorded as not filled, so no stop-limit sells in a bar
\* that stays below its limit.
SkippedIsUnfilled ==
    \A s \in Sides : \A k \in DOMAIN folds[s] :
        LET f == folds[s][k]
        IN \A t \in DOMAIN f.train.trades :
              LET trade == f.train.trades[t]
                  peak == Max({hist[s][i].high : i \in trade.in .. (trade.out - 1)})
              IN trade.why = "stp_lmt_fill" =>
                    Limit(prep[s], f.params, trade.out, peak) <= hist[s][trade.out].high
=============================================================================
