# TradingCat in TLA+

TradingCat researches strategies, turns signals into immutable execution plans and
sends their orders, once a human has approved them, to the Longbridge broker. These
modules model the parts of it where order matters: what is stored before what is
sent, what a second process or a crash may do in between, and which evidence or
authorisation a later step relies on. TLC checks them on small instances; TLAPS
proves the central invariants for all sizes.

To check one run: `tlc -workers 2 -config PlanMix.cfg MCPlanExecution.tla`; a proof
module: `tlapm PlanExecutionProofs.tla`. `PROJECT.json` has the list of runs, the
source lines each definition stands for, the hazards and the theorems.

## 1. The system

Two SQLite stores, and processes that share them:

| store | tables that carry control | written by |
|---|---|---|
| Core | bars, data_manifest, lifecycle, research_holdout, strategy_version, signals and their outbox, trading_account, plans, audit | the `tc` commands: cron / systemd (`deploy/systemd/tc-scheduler.sh`), CLI |
| Execution | plan snapshot, confirmations, order intents, fills, live_canary and its usage, system_readiness | `executiond`, `tc trade`, `tc execution reconcile` |

`executiond` (execution/daemon.py) is a single-threaded Unix socket server: one
request at a time, Core store opened read-only. Each `tc` command is a process of its
own. The SDK's callback thread only appends pushes to a queue. A transaction is either
explicit (`immediate_transaction`, shared/db.py:717) or one auto-committed statement,
so everything between two of them can be interleaved with another process or lost in a
crash.

| component | its state | operations | what makes it correct |
|---|---|---|---|
| confirmations, order manager, executiond | confirmation and intent rows, the position in the submit loop | request, approve, reject, cancel, execute, consume, recover, submit | one decision authorises one plan, each order is sent at most once, an unknown outcome is never retried |
| live broker | the push queue, what the broker has | submit, drain, poll | nothing is sent before it is written down; what is recorded was executed |
| fills and intent states | intent status, fills, dedupe keys | apply a snapshot, fill, set status, reconcile | no overfill, terminal states are final, polling catches up |
| LIVE canary | canaries, reservations, readiness | create, authorise, close, expire | limits hold, a reservation is idempotent and exact |
| account state | sync_status and its times | sync, position sync, ensure, reconcile | a mismatch is not forgotten, a failed reconciliation blocks LIVE, nobody is locked out |
| research run | lifecycle row, holdout, latest version, manifest | research, cache update | a holdout is looked at once, verified means tested, failures count once |
| walk-forward, indicators, backtest | a history of bars, folds, candidates, the verdict | divide, train, validate, test, replay, decide, open the holdout | no choice depends on a bar it may not see, trades are possible, equity is what they made |
| market data | bars, manifest, calendar, API quota | first fetch, increment, manifest, gate | a history that passes the gate has no holes, a version names its content |
| decision and portfolio | holdings, the last snapshot, plans and what became of their orders | sync, decide, send, fill, end | orders are the difference, exits happen, never more is sold than held, limits hold when all is settled |
| approval | two copies of a plan, confirmations, signed proofs, keys and nonces | request, sign, check, decide, ask and answer in a session, consume | a decision is what was signed, once, of that content; what is consumed LIVE is what was signed |
| monitor and signal outbox | alert claims, signal events, outbox entries | intraday, post-market, decision, deliver, dispatch | a claimed alert once a day, none lost, SENT means delivered |
| factors and IC, providers, backup, feature experiments, configuration | none that another part relies on | numeric functions, I/O | outside this project, see section 6 |

Who calls whom: a research run makes a symbol `verified`; `collect_signals` trades
it when the latest version was accepted; `target_to_execution_plan` stores a plan;
`executiond` (LIVE, PAPER) or a `tc trade` session (PAPER) takes it through a
confirmation to the broker, after `PreTradeRisk` has read the account row, the
intents and the expiry times; a LIVE order also needs a canary. Snapshots of the
broker's orders come back through pushes (`drain_events`) and polling (`tc execution
reconcile`), whose verdict is written to the account row that gates the next order.

The hard behaviour is therefore: crashes between two transactions, lost answers of
the broker, two processes on one row, statuses read before and written after a broker
call, late and repeated pushes, and verdicts that outlive the evidence they rest on.
Every such place we know of is a hazard in `PROJECT.json`, with the property that
covers it or the reason why none does.

## 2. The modules

| module | models | its actions stand for |
|---|---|---|
| `PlanExecution` | execution/order_manager.py, service.py, submit path of broker_live.py, trade session of tc.py, `Reconciliation` of execution/broker.py | one transaction or statement each, of `executiond` ("daemon"), of a trade session ("cli") and of a reconciliation beside them |
| `OrderPromise` | the abstract promise: a plan's orders are authorised together, an authorised order is sent once | `PlanExecution` implements it (`ImplementsPromise`) |
| `Approval` | execution/approval_wechat.py, request, approve and reject of service.py, the confirmation table, the writes of a trade session of tc.py on it | the statements of clients that request, of the gateway that signs, of processes that check a proof and then decide, and of a session that decides without one and writes its answer over what the row became |
| `LiveCanary` | canary tables of shared/db.py, one transaction per action | create, authorise (its sweep of expired ones, choice, closure), close, expire |
| `OrderEvents` | one LIVE order after its ack: `_apply_order_snapshot`, `_on_filled`, `set_intent_status`, poll, reconcile | steps of `executiond` and of a reconciliation on the same rows |
| `AccountSync` | shared/account.py and `reconcile_runtime` | the reads, queries and writes of each command |
| `Portfolio` | production/decision.py, position.py, target_portfolio.py, portfolio_risk.py, the holding checks of execution/pretrade_risk.py | a sync, a whole decision from the day's data to a stored plan, the last check before sending, fills, the end of a plan |
| `SignalOutbox` | `record_signal_with_outbox`, production/notification.py | one commit or one delivery each |
| `Monitor` (extends `SignalOutbox`) | production/monitor.py and the signals `collect_signals` records | one symbol of a command, one delivery, and the data, the account and the day that change meanwhile |
| `DataSync` | `cache_symbol` of research/pipeline.py, manifest, calendar and quota of shared/db.py, the data gate | one commit or one API call each |
| `ResearchRun` | `research_symbol`, the holdout functions, `set_lifecycle`, `incremental_update` | the statements of a run that read or write shared state |
| `Backtest` | shared/indicators.py, strategy_evaluator.py, backtest.py, cost_model.py | no actions: recursive functions of a history |
| `WalkForward` (extends `Backtest`) | research/walk_forward.py, robustness.py, score.py's decision, the split of `research_symbol` | one stage of a research, taken for two histories in lockstep |
| `MC*` | instances: functions that a .cfg cannot write down, and the choice of whether processes overlap | |
| `*Proofs` | theorems and inductive invariants | |

How they fit together: `PlanExecution` takes the canary's answer, the approval and the
order's fills as one step each, which `LiveCanary`, `Approval` and `OrderEvents` open
up; it reads the account row `AccountSync` writes, and sends the plan `Portfolio` makes.
`Portfolio` and `Monitor` read data behind the gate `DataSync` models, and trade the
verdicts `ResearchRun` stores and `WalkForward` computes.

State and code. `PlanExecution`: `conf` and `channel` are the columns of
trading_confirmation, `intent`, `boid`, `by` those of trading_order_intent, `canary`
and `usage` the canary tables as the submit path sees them, `calls` and `bstat` what
the broker has seen, `queue` the list the SDK callback appends to, and `pc`, `run`,
`seen`, `todo`, `cur` the local variables of the submit call of each process;
`reconciling`, `doubted`, `differs` are those of `tc execution reconcile`, whose list of
rows is read once and written from later.
`OrderEvents`: `status`, `total`, `keys` are the intent row, the sum of its fills and
the dedupe markers; `snap`, `delta`, `target` are what a process has in hand.
`AccountSync`: `status`, `assets`, `updated`, `success` are one row; `found`,
`covered`, `failing` are history for the properties. `ResearchRun`: a data set is the
number of its bars (bars are only appended), the manifest the number that was hashed,
a candidate its grid, and the outcomes of a walk forward and of a holdout are picked
once for each data set and grid since both are deterministic; `looks`, `passes`,
`failed` are history.

`Approval`: `core` and `snapshot` are the plan in the two stores, `conf` the row,
`client` and `decider` what a process holds between its lookup or check and its
transaction, `session` what a trade session still does with its confirmation, `executed`
the plans that have intents, `answered` history. `Portfolio`: `held` is the broker's book, `snap` and
`synced` what the Core store knows of it, `plan` the stored plans with their orders and
fills. `Monitor`: `claimed` is monitor_alert_dedupe, `proc` a command with the symbols
it has still to go through, the alerts it is about to claim and those it will deliver;
`heard` (deliveries per alert) and `due` are history. An alert is a symbol, the command that
raises it, its kind and its day; `Claimed` are the kinds `monitor intra` claims first. `DataSync`: `bars` maps a
session to the bar stored for it with its adjustment basis and whether the session had
ended when it was fetched, `manifest` holds the content it hashed instead of a hash.
`WalkForward`: `hist` is a pair of histories that agree below `cut`, everything else
is kept per history; what is decided from bars below `cut` must be equal in both.

What the modules leave out on purpose:
- consecutive reads of one call with nothing written in between are one step, when
  nothing that another process changes between them matters to the result; where it
  does matter they are two (`ApproveCheck`/`ApproveCommit`, `Fetch`/`Write`,
  `SetRead`/`SetWrite`, `Judge`/`Reread`/`Record`);
- `PlanExecution` knows one account and one ACTIVE canary, DRY_RUN plans, nonces,
  idempotency keys and fills not at all; `set_intent_status` is one step there
  (`OrderEvents` splits it); the commits of one `recover`, and the two stores a
  reconciliation writes to when it is done with a plan, are one step each; a reconciliation
  has a broker to ask, may take a plan more
  than once and leaves the account to `AccountMoves` when it ends; quotes, slippage, buying
  power and limits may refuse at any time;
- a snapshot without a price, which aborts a poll with `LiveBrokerError`, is left out
  of `OrderEvents`;
- `ResearchRun` leaves out the archive, the subscription and the research manifest,
  which no property here reads;
- `Approval` does not let anyone forge a signature and takes the content of a plan for
  its hash; the gateway signs only for confirmations that wait; a confirmation expires with
  its plan, where the code may let it expire earlier (service.py:179);
- `Portfolio` keeps prices constant and trades nothing outside the code; the PAPER book
  is not followed; parameters are there or not, for a decision and for an advice alike,
  while the decision also asks for four keys (decision.py:29) and the advice does not;
- `Monitor` makes the rules of the strategy one of a few outcomes per symbol and day; the
  signals of a decision carry the day of the process, those of the code the day of the last
  bar (decision.py:80); of the alerts no claim protects, the instance has `stop_breached` and
  `data_blocked`;
- `DataSync` has one symbol, the API returns the bar of a session that goes on, and no
  sync lasts longer than a night; the last day a manifest names is that of the bars the
  sync stored itself (pipeline.py:503), its count and content are what is stored then; of
  the quota only the count of calls is kept;
- `Backtest` and `WalkForward` compute in integers that round down, take ADX and DI as
  attributes of a bar, know the anchored windows only, and leave out `compute_score`,
  which no decision reads. Prices are positive (`PricesArePositive`): the prefilter lets a
  bar or 0.2 % of them with a price of zero or less pass, on which the code, were it to
  enter there, would divide by zero. The same tolerance lets bars pass whose open or close
  lies outside their low and high; these are modelled (`OhlcValid`), and at such a bar a
  stop may sell at a price the bar never traded at.

## 3. The runs

Passing runs:

| run | question | instance and why it is enough |
|---|---|---|
| `plan_mix` | Is each LIVE order sent under its own authorisation, and a plan consumed once and by one confirmation, when executiond and a session contend? Does every submit call end? Does the code implement `OrderPromise`? | a LIVE plan of 2 orders, a PAPER plan with one confirmation from each side: half a plan, a wrong reservation and a double consumption all need just these; one push, one canary of 2 |
| `plan_two` | At most one call per order, written down first, over two LIVE plans and beside a reconciliation? Without one, is none sent while anything is unknown? | 2 plans of 1 order, 3 confirmations (two for one plan, one cancellable), 2 canaries of 1, 2 pushes, expiry, a cap of 2 pending: a second plan is needed for the cross-plan gate. One reconciliation, for which one plan, one canary and no push are enough (`FewBeside`): it meets the submit call at each of its steps |
| `approval` | Is a decision what the owner signed, once, and a consumed LIVE plan the one that was signed? Do retries get one confirmation? | a LIVE and a PAPER plan with 2 possible contents, 2 confirmations, one key, one nonce, 2 clients, 2 deciders, 2 proofs, a trade session: a replay needs a second confirmation, a race a second process |
| `live_canary` | Do limits and reservations agree? | 3 canaries (two overlapping of one account), 5 requests, some too large: choice by age, refusal with closure, idempotent retry and exhaustion by either limit all occur |
| `events` | Is FILLED full? In turns: is what is recorded what was executed, are terminal states final, does polling catch up? | quantity 4 executed at 1, 2, 4, moving average prices; in turns 2 pushes and 2 troubles, overlapping 1 of each: unequal increments computed from stale totals need one |
| `account_all` | Does a mismatch stand, does a reconciliation that failed or died block, does the account recover? | one command at a time, 3 crashes or failed queries: a mismatch, a failed query and a crash can meet |
| `research` | One exposure of a holdout, verified means tested; alone, does a verified symbol rest on a clean holdout? | one run with a cache command on two data sets, or two overlapping runs with different grids, 3 runs, crashes |
| `portfolio` | Do two decisions in turn sell too much, overshoot a target, buy on a failed review or leave a policy broken? Is every advised exit planned? | 3 symbols, two of one group and correlated, one leveraged; prices and limits (the policy's defaults, in percent) chosen so that two entries reach each limit; 7 days with one symbol out of order each, 5 initial portfolios |
| `monitor` | Is a claimed alert heard twice, or any never; does SENT mean delivered when dispatchers overlap? | 2 processes, 2 dispatchers, 2 symbols of which one is held, 2 days, 2 revisions of the bars, one trouble, in 12 scenes (`MCScenes`): what is in use together. Both dispatchers are at work beside signals without revisions, one beside revised ones; alerts with and without a claim meet in the two scenes that have both |
| `data_sync` | Does a gate that passes stand on a history without holes; does the version name its content? | 2 processes, 3 sessions, one split, first fetch 3 bars, increment 1, lag 1, quota 2, one crash; MinBars 1 and an increment of 1 make being too late possible |
| `walk_forward` | Does any choice look at a bar it may not see; do trades follow one another at prices of their bars, and is equity what they made? | every history of 5 waves of 6 bars out of 4 kinds with 3 cuts (3072 pairs) and 16 that are too short; a grid of 7 sets with every entry and exit mode; periods and minima scaled to 30 bars, keeping their order. The verdicts verified, research_only, degraded and shadow all occur |

Each property of a passing run is broken by a mutant of the code's model (listed in
`PROJECT.json`), so none holds for lack of opportunity.

Properties that the modules state and no run of the list checks, most of them proved
instead (section 5) or held in the same instances; add the name to the INVARIANTS or
PROPERTIES line of the configuration to check one: `WholePlanConsumed`,
`CallsWithinCanaries` (PlanExecution);
`ActiveHasRoom`, `ReservedRightly`, `ClosedIsFrozen` (LiveCanary); `NeverOverfilled`
(OrderEvents); `ContaminatedStays`, `FailsNeverDropAlone` (ResearchRun); `ExitSells`
(Portfolio); `EveryEventIsQueued`, `EventsAreFacts`, `SentStays` (SignalOutbox);
`ManifestIsStored`, `HashedHistoryStays` (DataSync); `OosIsUnseen`, `VerifiedIsEarned` (WalkForward);
`DecisionStays` (Approval); and the type invariant of each (`TypeOK`; `CanaryTypeOK` in
`LiveCanary`, `SyncTypeOK` in `DataSync`).

The disagreement of code and documentation that TLC demonstrates as a run:

| run | what happens |
|---|---|
| `events_equal_fills` | two executions of the same size at the same price have one fingerprint (broker.py:118); the second is dropped at every poll and the order stays SUBMITTED, although polling is there for eventual consistency (broker_live.py:358) |

Further counterexamples are kept as configurations of their own (same modules, not
in the list of runs). Each property is expected to be violated; where a configuration
names several, TLC stops at the first, so remove it to see the next:

| configuration | property | what happens |
|---|---|---|
| `PlanUnknown` | `UnknownNeverRetried` | a reconciliation lists an order in flight (SUBMITTING, no broker id yet) and makes it UNKNOWN (broker.py:223); the submit call read its row last before it asked for the canary (broker_live.py:198) and sends the order all the same |
| | `NoCallWhileUnknown` | the same; and with `MaxReconciles = 0`: a pushed status outside the state machine makes an order UNKNOWN inside `drain_events` and the next order is sent (broker_live.py:428). README.md:163 of the repository forbids both |
| `PlanBlindCancel` | `ConsumedIsFinal` | a session answered N writes CANCELLED over CONSUMED (tc.py:347; models.py:15) |
| `PlanStranded` | `PendingResumed` | after a crash between consume and the submit loop no command takes the PENDING order up again (service.py:394, order_manager.py:148; order_manager.py:15) |
| `EventsRace` | `TerminalStays` | the read and the write of `set_intent_status` straddle another process's terminal status (state.py:35) |
| `EventsOvercount` | `RecordedWasExecuted` | two processes compute increments from the same total (broker_live.py:404) |
| `AccountLaunder` | `MismatchHolds` | MISMATCH, a reconciliation whose query fails (RECONCILING is written over it, operations.py:99), a sync: SYNCED with no comparison that succeeded |
| `AccountOverlap` | `MismatchHolds` | an overlapping command writes an older status over a new MISMATCH |
| `AccountNoAssets` | `SyncedHasAssets` | two position syncs make an account SYNCED without cash (account.py:408-411) |
| `ResearchRerun` | `RerunKeepsVerdict` | `research_symbol` writes "backtesting" before the previous status is read (pipeline.py:740), so rerunning the evidence that removed a symbol makes it degraded again |
| `ResearchOverlap` | `FailsNeverDrop` | a failure counted by another run is lost (db.py:891) |
| `ResearchDocs` | `RemovedByTwo` | one failing evidence counts twice when another ran in between (db.py:913) |
| | `ReservedOnce` | one more bar makes a new holdout of nearly the same bars (pipeline.py:768) |
| | `VersionOfItsData` | the manifest is read after the walk forward (pipeline.py:792) |
| | `Traceable` | a crash between lifecycle and version: the gate trades the old version (pipeline.py:956) |
| `WalkDocs` | `NeighboursAreTried` | the four ADX keys the grid adds are no keys of a neighbour, so the neighbourhood check of a verdict has nothing to look at (robustness.py:61, pipeline.py:617-639) |
| | `NoStopWasMissed` | `stp_lmt_unfilled` is overwritten by the exit that follows, and nothing counts it (backtest.py:243, walk_forward.py:350) |
| | `StopsWereKnown` | the trailing stop of a bar uses the ATR of that bar, known at its close (indicators.py:8 speaks of the bar before) |
| | `CostIsBlind` | the cost of every fold is estimated from the whole development part (pipeline.py:773, walk_forward.py:11) |
| | `SkippedIsUnfilled` | a bar that stays below the limit of a stop-limit order sells it at the open (backtest.py:240), where backtest.py:12 and indicators.py:241 say that it is recorded as not filled; `TradesAreReal` holds all the same, since the open is a price of the bar |
| `DataGate` | `GatePassesFinishedBars` | an increment takes only later sessions, so a bar fetched while its session went on stays as it was (docs/usage.md:133) |
| | `GatePassesOneBasis` | after a split old and new bars stand on different bases (longbridge_client.py:642) |
| `PortfolioDrift` | `UntouchedStays` | a holding nothing was decided about is turned into a weight and back by rounding, and one share too few results (target_portfolio.py:13) |
| `PortfolioTwice` | `PendingCounted` | a plan that is not consumed has no intents yet, so a second decision orders the same again (decision.py:203) |
| `MonitorDocs` | `OnceADay` | `stop_breached` is raised without a claim and delivered by every intraday run while the price stays below the stop (monitor.py:304), and so are `data_blocked` (monitor.py:277) and all that `monitor pre` finds; monitor.py:11 says the same condition is alerted once a day |
| | `KeptForTheNext` | a dispatcher that dies while an entry is SENDING loses it: only PENDING and FAILED entries are listed (notification.py:122) |

What the modules say of the code besides: where an alert is claimed, it is claimed before
it is delivered, so that a crash or a failed notification loses it for the day (`DueIsHeard`
is about days without); where it is not, nothing keeps it from coming again; one symbol without sound data blocks the whole intraday command; a
signal computed again from other data raises and ends the command before its other
symbols (`PostRaises`, `CollectRaises`); unknown metadata of one holding end a whole
decision, exits included; a pending order counts with its full quantity although a part
of it is in the holdings already; and syncs that overlap hash each other's rows.

Bounds, all CONSTANTS: `MaxCanaries`, `MaxPushes`, `MaxReconciles`, `Lapsing` (what may expire),
`MaxPending` (the code has 10), `MaxTroubles` and `MaxCrashes` (crashes, failed or odd
answers), `MaxStarts` (research runs), `MaxBars`, `MaxNow`, `MaxProofs`, `MaxSends`,
`MaxDay`, `MaxSplits`, `MaxRevisions`, `Starts`, `Markets`, `Powers`, `Pairs`,
`Conditions`, `Scenes`, `MaxHeard`. They limit the environment or how often
something is started, never what a step of the code may do. Others are assumptions about
scheduling and not about size: `Overlap` (do commands meet?), `CacheOverlaps` (may
a cache command run beside a research?), and the variables `turns` (`MCOrderEvents`)
and `overlap` (`MCResearchRun`), chosen at the start, that let one run look at both:
the properties with "InTurns" or "Alone" in their names are about the one (for
`PlanExecution`, about behaviours without a reconciliation so far).
systemd runs the scheduled commands as
oneshot services at times of their own, so they do not meet each other; a command
typed by hand may, and nothing in the code prevents it. The constraint `Bounded` of
`MCApproval` looks at what shares nothing apart: a request without a key is under way
alone and for the LIVE plan, one confirmation without a key is stored, by a request or by a
trade session, and no request is about to store its row while a proof is in a decider's
hands; `FewBeside` of `MCPlanExecution` bounds what else may happen beside a reconciliation; symmetry is used where the members of a set are interchangeable and no liveness is
checked (`approval`, `data_sync`, `monitor`). Deadlock checking is off
where a finished system has nothing left to do: an order terminal on both sides, a
symbol whose runs are used up, a research that is done, days and proofs that have run
out.

## 4. Fairness

- `PlanExecution!FairSpec`: weak fairness of the steps of a submit call under way
  (a process that is up keeps running). Nothing about operators, broker or time.
  `RetrySpec` adds an operator who keeps requesting, approving and executing; it
  makes the `PlanStranded` counterexample stronger.
- `OrderEvents!FairSpec` and `MCFairSpec`: weak fairness of starting a poll and of its
  steps. The
  scheduler runs `execution reconcile` at 19:50 and 06:40 (tc-scheduler.sh). Crashes
  and failed queries are bounded, as an order that is never answered for cannot be
  caught up with.
- `AccountSync!FairSpec`: weak fairness of the steps of a command and strong fairness
  of starting the scheduled `account sync` (19:40, 06:30): other commands may run in
  between again and again. `Ageing` (30 minutes pass) happens only between commands.
- The other modules need none. For a signal nothing in production runs the dispatcher
  (only application/golden_path.py does), so that every task is sent some day is
  not something the code can promise.

## 5. The proofs

Every theorem is for arbitrary constants that satisfy the module's named ASSUME
(typing, bounds in Nat, the processes, dispatchers and requests finite sets, orders of one
plan have distinct ranks, canaries distinct ages, the holdout shorter than the first data
set, prices positive and leverages integers, the windows of a sync at least one bar long,
the two histories of a pair equal below their cut, the periods of the indicators positive,
the grid a nonempty sequence of parameters with a known entry mode). What a theorem assumes besides is in its
statement: `~Overlap`, for commands that do not meet. `NoCallBesideUnknown` is about
`OddSpec`, the specification with a history variable `odd` that holds no step back: the
orders that are UNKNOWN because a push carried a status outside the machine.

- `PlanExecutionProofs`: `TypeCorrect`, `OneCall`, `WrittenAhead`, `Authorised` and
  the refinement `Implements`. None of the safety properties is inductive: that an
  order is called once follows from where its caller is, so `IInv` adds for each
  process what it holds at each step: whose confirmation it runs, that an order
  before its call has `calls = 0` and a row SUBMITTING under this run's confirmation,
  that only one process is in a LIVE run (executiond), that a called order's row can
  never look unsent again, that queue and broker only speak of called orders, and that a
  reconciliation only doubts orders with a row. The theorems hold beside any number of
  reconciliations: `ReconcileRows` says that these make no row appear, vanish or look
  unsent.
  One lemma per part of `IInv`, one step per action. `Implements` shows that
  `ConsumeTxn` is `Authorise`, `Send` is `SendOnce`, and all else stutters.
  More invariants stand on top of `IInv`. `HandInv`: while no reconciliation has run, a LIVE
  run that comes to recover inserted its rows itself, and the row of the order it has in hand
  is as it left it; hence `UnknownNotRetried`, and with `CleanInv` (a LIVE run past its
  admission has no UNKNOWN beside it but one that a push made so with an odd status)
  `NoCallBesideUnknown`: the loop goes on beside an UNKNOWN in that case only, of which
  `PlanUnknown` is the instance. `PlanInv`: a row names its confirmation, which is used up, a
  plan has all its rows from one confirmation or none, and a CONSUMED confirmation owns the
  rows of its plan; hence `ConsumedWhole`, `ConsumedOnce`. `RoomInv`: what
  was reserved and what is left are no more than the canaries opened gave; hence
  `CanariesBound`.
- `ApprovalProofs`: `TypeCorrect`, `SignedDecisions`, `NoReplay`, `OneAnswer`,
  `LiveAsSigned`, `DecisionsStay`. `IInv` adds that a copied plan is the plan, a waiting
  confirmation carries no decision, a decider holds a proof that was signed, a key names
  one row, and a client answered under a key was answered with that row. What a decider
  checked before may be stale when it decides: the proof rests on what the deciding
  transaction compares again. `DecisionsStay` names the only changes of a decided row: an
  approval is consumed, or the trade session that asked for the confirmation writes CANCELLED
  or REJECTED over it. `LiveAsSigned` needs no row to stay: that a plan has intents is kept
  in `executed`, and its confirmation keeps the signed content.
- `LimitsProofs`, for canaries and portfolios, the two that add up. The library's induction
  cannot be used (its theorems take an operator as a parameter), so the lemmas about sums
  go by a least counterexample: a set of naturals that is not empty has a least member
  (`NatMin`, from the well-foundedness of < on Nat), so a wrong statement about the sum
  over a finite set has a smallest set it is wrong of (`LeastSet`), and the fold unfolds
  there once. This gives `SumGrows` and `SumWithout`.
  Canaries: `LimitsHold`, `RoomLeft`, `Frozen`, `AccountedExactly` (the counters are what
  the usage rows add up to), `ReservesOldest` (the request
  fits the canary it is given, and each older one in its scope had expired or could not fit
  it). `CanaryInv` adds that an unopened canary is unused.
  Portfolio: `TypeCorrect`, `FailedReviewBuysNothing`, `ExitsAreSold`, `AdviceAgrees`, and,
  when a decision waits for the plan before it and a sync (`~Overlap`), `NoShortSale`,
  `OnTheWay` and `SettledIsWithinPolicy`.
  `ShapeInv` says of a plan that its orders are the differences of what it was made
  from; `ProgressInv` that at most one plan is out, that its fills are what moved the
  holdings since, and that a snapshot is exact when none is. What is settled is symbol by
  symbol at most a target that was reviewed, so each sum of the policy is too.
- `OrderEventsProofs`: `Capped`, `FilledFull`, with two writers. `EventsInv` adds
  that `set_intent_status` is never called with FILLED: only a fill transaction,
  which caps what it adds, writes that status. For the processes in turns,
  `RecordedInTurns` and `TerminalInTurns`: the snapshot, the total and the status one of
  them holds are those of the row, and what it would add was executed.
- `ResearchRunProofs`: `TypeCorrect`, `SeenOnce`, `ContaminatedForGood`. `IInv` adds:
  a run past sealing has its holdout in the table; a sealed holdout has not been
  looked at; whoever has it open is its owner and alone; and while it is open and not
  yet evaluated, nobody has looked. `NeverVerifiedUntested` holds whatever overlaps
  (`TestedInv`: a pass is remembered before it can count, and a decision verified only comes
  from a pass, whoever obtained it); `VerifiedAlone`, when no two runs overlap, from
  `AloneInv`: the run under way is the only one to touch a holdout.
- `MonitorProofs`: `TypeCorrect`, `HeardAtMostOnce` (of the alerts that are claimed: a claim
  is taken before a delivery and
  by one process, so what is delivered and what is still in hands is at most one),
  `DueWasHeard` (while nothing fails, what is claimed is what was found due, and is heard or
  somebody's to deliver), and of the outbox `MarkedWasDelivered`, `SignalsAreQueued`,
  `SignalsAreFacts`, `SentStaysSent`.
- `SyncProofs`, for the account row and for the daily bars.
  Account: `TypeCorrect` for any overlap; `MismatchIsKept` (but for a MISMATCH that a
  reconciliation wrote over and did not put back, `AccountLaunder`) and
  `FailureBlocks` (of one that failed or died) for commands that do not overlap (`~Overlap`), which they need: a
  command restores or degrades the status it read, so `IInv` says that the row is still
  as the one command under way read it, that a mismatch not covered up is in the row,
  and that a reconciliation after a failure has no SYNCED to restore.
  Bars: `BarsTypeCorrect`, `GateIsWhole`, `PromisedIsStored` for any number of syncs that
  overlap and die, `VersionNamesContent` and `HashedStays` with one at a time. A history
  without holes is not inductive, as two syncs may store what they fetched on different
  days: `StoredInv` says that a sync holds the last bars up to a day not before yesterday,
  that a manifest, read or set, names a day that is stored and at least `MinBars` bars, and
  that, unless the store was too late once, the newest bar is within an increment's reach;
  then whatever either stores meets what is there (`StoreIsWhole`). `AloneInv` adds that
  the content hashed is the content stored and the day named the last of it, which overlapping
  syncs do not keep; equal counts then mean equal days (`MoreDays`).
- `WalkForwardProofs`, for any histories, grid and numbers: `WindowsAreApart` from
  `WindowInv` (four folds in order within the development part) and the arithmetic of a
  window, and `HoldoutStaysUnseen` from `BlindInv`: as long as the development part ends at
  or before the cut, cost, candidates, folds and verdict of the two histories are equal,
  whatever the strategy rules, the engine and the score compute, of which the proof uses
  only the bars they are given. The other three need what these compute. A recursive
  function is unfolded once (`AtrUnfold`, `CashUnfold`, `EngineUnfold`), and what holds of
  all its values is shown at the least bar where it might not. On the indicators and rules this gives that
  they read the bars up to their own (`PreparedAlike`, `EntryAlike`), on the engine that
  its books balance after every bar (`Books`, `RunBooks`: its trades could have been made,
  its cash or position is what they made of the initial cash), so that a backtest reads
  the bars before its end (`EngineAlike`) and settles at what its trades made
  (`EngineFinishes`). That the shortlist is of the grid and the choice of the shortlist
  needs Python's order of tuples to be total, transitive and strict, and every statistic
  to be a number (`RunReported`, `ShortlistIn`, `SelectedIn`). `MadeInv` then says that
  all a state has computed is what these functions make of the development part, the
  cost and the number of the fold; hence `SelectionBlind`, `TradesHappened` and
  `EquityExplained`.

Model-checked only: liveness (`EveryRunEnds`, `CatchesUpInTurns`, `Recovers`), which
needs fairness.

## 6. Not modelled, and the plan

Not modelled, and why:
- factor research, IC and the batch scripts: statistics over floating point panels
  without state, about which a bounded integer instance shows nothing;
- the SDK client, the data providers, datahub: conversions of answers whose partner is
  not in the repository; their failures are choices of the modules that call them;
- backup, migrations, configuration, acceptance scripts, service files: single
  processes that nothing else reads, or no program;
- feature_lab: no modelled decision reads its snapshots;
- follow and unsubscribe: single statements; the rolling walk-forward mode, the batch
  prefilter, the alternative engines;
- cancel and replace of a LIVE order, which no command reaches.

Open, in this order:
1. executiond's own `reconcile` request (as its `main` sets it up it serves PAPER plans
   only: a LIVE one needs a LiveBroker, which it does not configure), and several reconciliations at once.
2. Counting and consuming the pending intents by several plans, accounts and modes.
