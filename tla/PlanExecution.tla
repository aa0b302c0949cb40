----------------------------- MODULE PlanExecution -----------------------------
(***************************************************************************)
(* The execution store and the processes that drive an ExecutionPlan from  *)
(* its Confirmation to the broker: ExecutionService and OrderManager       *)
(* (execution/service.py, execution/order_manager.py), the submit path of  *)
(* LiveBroker (execution/broker_live.py) and the interactive trade command *)
(* (tc.py).                                                                *)
(*                                                                         *)
(* Two processes share the SQLite execution store: "daemon", the single    *)
(* threaded executiond, which alone may run LIVE plans, and "cli", a       *)
(* `tc trade` session, which runs PAPER plans.  Beside them `tc execution  *)
(* reconcile` compares the store with the broker.  Every step is one       *)
(* transaction or one auto-committed statement, so a crash or another      *)
(* process may come between any two of them.                               *)
(***************************************************************************)
EXTENDS Naturals, FiniteSets, Sequences

CONSTANTS
    Plans,          \* plan ids
    LivePlans,      \* the plans whose execution_mode is LIVE; the rest is PAPER
    Orders,         \* client_request_ids: one for each PlanOrder of each plan
    PlanOf,         \* [Orders -> Plans]
    Rank,           \* [Orders -> Nat]: position by plan_order_id
    Confs,          \* confirmation ids
    ConfPlan,       \* [Confs -> Plans]
    CliConfs,       \* confirmations created by a `tc trade` session
    MaxPending,     \* MAX_PENDING_INTENTS
    CanaryOrders,   \* max_orders of a canary
    MaxCanaries,    \* bound: canaries the operator opens
    PushStatuses,   \* normalized statuses a broker push may carry
    MaxPushes,      \* bound: order pushes the broker delivers
    Lapsing,        \* bound: the confirmations and plans that may expire
    MaxReconciles   \* bound: reconciliations that are started

NoConf == "no confirmation"
NoOrder == "no order"
Procs == {"daemon", "cli"}
Terminal == {"FILLED", "REJECTED", "CANCELLED"}
IntentStatus == Terminal \cup {"PENDING", "SUBMITTING", "SUBMITTED", "UNKNOWN"}
ConfStatus == {"NONE", "PENDING", "APPROVED", "CONSUMED", "REJECTED", "CANCELLED"}
Steps == {"idle", "risk", "load", "admit", "look", "consume", "recover", "next", "mark",
          "gate", "reserve", "reread", "send", "ack", "drain", "failed", "close"}

ASSUME PlanAssumption ==
    /\ LivePlans \subseteq Plans
    /\ CliConfs \subseteq Confs
    /\ PlanOf \in [Orders -> Plans]
    /\ ConfPlan \in [Confs -> Plans]
    /\ Rank \in [Orders -> Nat]
    /\ \A o, q \in Orders : PlanOf[o] = PlanOf[q] /\ Rank[o] = Rank[q] => o = q
    /\ NoConf \notin Confs
    /\ NoOrder \notin Orders
    /\ MaxPending \in Nat /\ CanaryOrders \in Nat /\ MaxCanaries \in Nat /\ MaxPushes \in Nat
    /\ MaxReconciles \in Nat
    /\ Lapsing \subseteq Confs \cup Plans
    /\ PushStatuses \subseteq Terminal \cup {"SUBMITTED", "UNKNOWN"}

VARIABLES
    conf,       \* trading_confirmation.status
    channel,    \* trading_confirmation.approval_channel
    checked,    \* confirmations whose approve() passed its checks, not yet written
    prompt,     \* CLI confirmations whose session waits for the owner's y/N
    lapsed,     \* confirmations and plans whose expires_at has passed
    intent,     \* trading_order_intent.status, "NONE" while there is no row
    boid,       \* whether broker_order_id is stored
    by,         \* trading_order_intent.confirmation_id
    canary,     \* orders left on the ACTIVE canary; 0 when none is ACTIVE
    opened,     \* canaries opened so far
    usage,      \* live_canary_usage: orders that hold a reservation
    synced,     \* the account snapshot says SYNCED
    calls,      \* broker side: how often client.order was called for the order
    bstat,      \* broker side: status of the order there
    queue,      \* pushes the SDK callback appended and drain_events has not read
    pushed,     \* pushes delivered so far
    reconciling,    \* where the reconciliation under way is
    doubted,        \* orders of the plan at hand it is going to make UNKNOWN
    differs,        \* mode of that plan if store and broker were found to differ
    reconciled,     \* reconciliations started so far
    pc, run, seen, todo, cur   \* per process: next step, its confirmation, whether
                               \* the account it loaded was SYNCED, orders to submit

confVars == <<conf, channel, checked, prompt, lapsed>>
intentVars == <<intent, boid, by>>
canaryVars == <<canary, opened, usage>>
brokerVars == <<calls, bstat, queue, pushed>>
reconVars == <<reconciling, doubted, differs, reconciled>>
procVars == <<pc, run, seen, todo, cur>>
vars == <<confVars, intentVars, canaryVars, synced, brokerVars, reconVars, procVars>>

LiveOrders == {o \in Orders : PlanOf[o] \in LivePlans}
OrdersOf(plan) == {o \in Orders : PlanOf[o] = plan}
Existing(plan) == {o \in OrdersOf(plan) : intent[o] # "NONE"}
WithStatus(S) == {o \in Orders : intent[o] \in S}
PlanRun(p) == ConfPlan[run[p]]
IsLive(p) == PlanRun(p) \in LivePlans

Pushes == [order : Orders, status : PushStatuses]

ConfTypeOK ==
    /\ conf \in [Confs -> ConfStatus]
    /\ channel \in [Confs -> {"none", "proof", "cli"}]
    /\ checked \subseteq Confs
    /\ prompt \subseteq CliConfs
    /\ lapsed \subseteq Lapsing

IntentTypeOK ==
    /\ intent \in [Orders -> IntentStatus \cup {"NONE"}]
    /\ boid \in [Orders -> BOOLEAN]
    /\ by \in [Orders -> Confs \cup {NoConf}]

CanaryTypeOK ==
    /\ canary \in 0..CanaryOrders
    /\ opened \in 0..MaxCanaries
    /\ usage \subseteq Orders
    /\ synced \in BOOLEAN

BrokerTypeOK ==
    /\ calls \in [Orders -> Nat]
    /\ bstat \in [Orders -> Terminal \cup {"NONE", "SUBMITTED"}]
    /\ queue \in Seq(Pushes)
    /\ pushed \in 0..MaxPushes

ProcTypeOK ==
    /\ pc \in [Procs -> Steps]
    /\ run \in [Procs -> Confs \cup {NoConf}]
    /\ seen \in [Procs -> BOOLEAN]
    /\ todo \in [Procs -> SUBSET Orders]
    /\ cur \in [Procs -> Orders \cup {NoOrder}]

ReconTypeOK ==
    /\ reconciling \in {"no", "poll", "list", "doubt"}
    /\ doubted \subseteq Orders
    /\ differs \in {"no", "LIVE", "PAPER"}
    /\ reconciled \in 0..MaxReconciles

\* Types of the stores, the broker and the processes.
TypeOK == ConfTypeOK /\ IntentTypeOK /\ CanaryTypeOK /\ BrokerTypeOK /\ ProcTypeOK /\ ReconTypeOK

Init ==
    /\ conf = [c \in Confs |-> "NONE"]
    /\ channel = [c \in Confs |-> "none"]
    /\ checked = {} /\ prompt = {} /\ lapsed = {}
    /\ intent = [o \in Orders |-> "NONE"]
    /\ boid = [o \in Orders |-> FALSE]
    /\ by = [o \in Orders |-> NoConf]
    /\ canary = 0 /\ opened = 0 /\ usage = {}
    /\ synced = TRUE
    /\ calls = [o \in Orders |-> 0]
    /\ bstat = [o \in Orders |-> "NONE"]
    /\ queue = <<>> /\ pushed = 0
    /\ reconciling = "no" /\ doubted = {} /\ differs = "no" /\ reconciled = 0
    /\ pc = [p \in Procs |-> "idle"]
    /\ run = [p \in Procs |-> NoConf]
    /\ seen = [p \in Procs |-> FALSE]
    /\ todo = [p \in Procs |-> {}]
    /\ cur = [p \in Procs |-> NoOrder]

(***************************************************************************)
(* execution/state.py: a terminal status never changes into another one.   *)
(***************************************************************************)
SetStatus(old, new) == IF old \in Terminal THEN old ELSE new

Goto(p, step) == pc' = [pc EXCEPT ![p] = step] /\ UNCHANGED <<run, seen, todo, cur>>

\* The submit call of p returns or raises: the process forgets its run.
Finish(p) ==
    /\ pc' = [pc EXCEPT ![p] = "idle"]
    /\ run' = [run EXCEPT ![p] = NoConf]
    /\ seen' = [seen EXCEPT ![p] = FALSE]
    /\ todo' = [todo EXCEPT ![p] = {}]
    /\ cur' = [cur EXCEPT ![p] = NoOrder]

\* executiond serves one request at a time.
DaemonFree == pc["daemon"] = "idle" /\ checked = {}

(***************************************************************************)
(* Confirmations                                                           *)
(***************************************************************************)
\* request_confirmation (RPC) or ConfirmationService.create (trade session).
RequestConfirmation(c) ==
    /\ conf[c] = "NONE"
    /\ c \in CliConfs \/ DaemonFree
    /\ conf' = [conf EXCEPT ![c] = "PENDING"]
    /\ prompt' = IF c \in CliConfs THEN prompt \cup {c} ELSE prompt
    /\ UNCHANGED <<reconVars, channel, checked, lapsed, intentVars, canaryVars, synced, brokerVars, procVars>>

\* ExecutionService.approve up to the proof verification: reads, no transaction.
ApproveCheck(c) ==
    /\ DaemonFree
    /\ conf[c] = "PENDING"
    /\ {c, ConfPlan[c]} \cap lapsed = {}
    /\ checked' = checked \cup {c}
    /\ UNCHANGED <<reconVars, conf, channel, prompt, lapsed, intentVars, canaryVars, synced, brokerVars, procVars>>

\* dbm.approve_confirmation under the approval-proof channel: PENDING or it raises.
ApproveCommit(c) ==
    /\ c \in checked
    /\ checked' = checked \ {c}
    /\ \/ /\ conf[c] = "PENDING"
          /\ conf' = [conf EXCEPT ![c] = "APPROVED"]
          /\ channel' = [channel EXCEPT ![c] = "proof"]
       \/ /\ conf[c] # "PENDING"
          /\ UNCHANGED <<conf, channel>>
    /\ UNCHANGED <<reconVars, prompt, lapsed, intentVars, canaryVars, synced, brokerVars, procVars>>

Reject(c) ==
    /\ DaemonFree
    /\ conf[c] = "PENDING"
    /\ conf' = [conf EXCEPT ![c] = "REJECTED"]
    /\ UNCHANGED <<reconVars, channel, checked, prompt, lapsed, intentVars, canaryVars, synced, brokerVars, procVars>>

\* The trade session times out, gets "N", or the LIVE phrase does not match:
\* set_confirmation_status writes CANCELLED whatever the status is by now.
CliCancel(c) ==
    /\ c \in prompt
    /\ prompt' = prompt \ {c}
    /\ conf' = [conf EXCEPT ![c] = "CANCELLED"]
    /\ UNCHANGED <<reconVars, channel, checked, lapsed, intentVars, canaryVars, synced, brokerVars, procVars>>

\* "y" and the right phrase for a LIVE plan: the session only prints that
\* executiond has to verify an ApprovalProof.
CliYesLive(c) ==
    /\ c \in prompt /\ ConfPlan[c] \in LivePlans
    /\ prompt' = prompt \ {c}
    /\ UNCHANGED <<reconVars, conf, channel, checked, lapsed, intentVars, canaryVars, synced, brokerVars, procVars>>

\* "y" for a PAPER plan: ApprovalAdapter.approve, then _post_approval.
CliYesPaper(c) ==
    /\ c \in prompt /\ ConfPlan[c] \notin LivePlans
    /\ pc["cli"] = "idle"
    /\ conf[c] = "PENDING"
    /\ prompt' = prompt \ {c}
    /\ conf' = [conf EXCEPT ![c] = "APPROVED"]
    /\ channel' = [channel EXCEPT ![c] = "cli"]
    /\ run' = [run EXCEPT !["cli"] = c]
    /\ pc' = [pc EXCEPT !["cli"] = "risk"]
    /\ UNCHANGED <<reconVars, checked, lapsed, intentVars, canaryVars, synced, brokerVars, seen, todo, cur>>

(***************************************************************************)
(* PreTradeRisk and admission                                              *)
(***************************************************************************)
\* evaluate(): what of it depends on the stores.  Quotes, slippage, buying
\* power and limits may reject besides (see the reject disjuncts).
BugUnknownPasses(p, account, pendingStatuses) ==
    /\ {run[p], PlanRun(p)} \cap lapsed = {}
    /\ account
    /\ Cardinality(WithStatus(pendingStatuses)) < MaxPending

RiskOK(p, account, pendingStatuses) ==
    /\ {run[p], PlanRun(p)} \cap lapsed = {}
    /\ account
    /\ Cardinality(WithStatus(pendingStatuses)) < MaxPending
    /\ WithStatus({"UNKNOWN"}) = {}

\* _post_approval: its own PreTradeRisk pass; a REJECT is written blindly.
CliRisk ==
    /\ pc["cli"] = "risk"
    /\ \/ /\ RiskOK("cli", synced, {"PENDING", "SUBMITTED"})
          /\ Goto("cli", "load") /\ UNCHANGED conf
       \/ /\ conf' = [conf EXCEPT ![run["cli"]] = "REJECTED"]
          /\ Finish("cli")
    /\ UNCHANGED <<reconVars, channel, checked, prompt, lapsed, intentVars, canaryVars, synced, brokerVars>>

\* It loads the account again for OrderManager.submit.
CliLoad ==
    /\ pc["cli"] = "load"
    /\ seen' = [seen EXCEPT !["cli"] = synced]
    /\ pc' = [pc EXCEPT !["cli"] = "admit"]
    /\ UNCHANGED <<reconVars, confVars, intentVars, canaryVars, synced, brokerVars, run, todo, cur>>

\* ExecutionService.execute up to OrderManager.submit.
DaemonExecute(c) ==
    /\ DaemonFree
    /\ conf[c] = "APPROVED" /\ channel[c] = "proof"
    /\ \A o \in OrdersOf(ConfPlan[c]) : intent[o] # "UNKNOWN"
    /\ run' = [run EXCEPT !["daemon"] = c]
    /\ seen' = [seen EXCEPT !["daemon"] = synced]
    /\ pc' = [pc EXCEPT !["daemon"] = "admit"]
    /\ UNCHANGED <<reconVars, confVars, intentVars, canaryVars, synced, brokerVars, todo, cur>>

\* The canaries a submit call leaves at admission: for a LIVE plan it first closes the
\* expired ones.
AfterExpiry(p) == {canary} \cup {closed \in {0} : IsLive(p)}

\* A failed admission of a LIVE plan closes them all when the account is not SYNCED or
\* some intent is UNKNOWN.
CanaryAfterRefusal(p) ==
    IF IsLive(p) /\ (~seen[p] \/ WithStatus({"UNKNOWN"}) # {}) THEN {0} ELSE AfterExpiry(p)

\* OrderManager.submit before consume.
Admit(p) ==
    /\ pc[p] = "admit"
    /\ \/ /\ RiskOK(p, seen[p], {"PENDING", "SUBMITTING", "SUBMITTED"})
          /\ IsLive(p) => channel[run[p]] = "proof"
          /\ canary' \in AfterExpiry(p)
          /\ Goto(p, "look")
       \/ /\ canary' \in CanaryAfterRefusal(p)
          /\ Finish(p)
    /\ UNCHANGED <<reconVars, confVars, intentVars, opened, usage, synced, brokerVars>>

(***************************************************************************)
(* OrderManager.consume and recover                                        *)
(***************************************************************************)
\* The idempotency check before the transaction: intents of the plan are only
\* handed back to the confirmation that was consumed.
ConsumeLook(p) ==
    /\ pc[p] = "look"
    /\ IF Existing(PlanRun(p)) = {} THEN Goto(p, "consume")
       ELSE IF conf[run[p]] = "CONSUMED" THEN Goto(p, "recover")
       ELSE Finish(p)
    /\ UNCHANGED <<reconVars, confVars, intentVars, canaryVars, synced, brokerVars>>

\* The row sets the transaction may leave: insert_intent does not commit.
BugAutoCommit(c) == SUBSET OrdersOf(ConfPlan[c])
Inserted(c) == {OrdersOf(ConfPlan[c])}

\* What the transaction reads again: the plan has no rows yet.
BugTrustTheLook(plan) == TRUE
StillNew(plan) == Existing(plan) = {}

\* The transaction: every intent and CONSUMED, or nothing.  When the plan got its
\* intents meanwhile they are returned and the confirmation stays APPROVED.
ConsumeTxn(p) ==
    LET c == run[p]
    IN /\ pc[p] = "consume"
       /\ \/ /\ conf[c] = "APPROVED"
             /\ {c, ConfPlan[c]} \cap lapsed = {}
             /\ IF StillNew(ConfPlan[c])
                THEN /\ \E rows \in Inserted(c) :
                          /\ intent' = [o \in Orders |-> IF o \in rows THEN "PENDING" ELSE intent[o]]
                          /\ by' = [o \in Orders |-> IF o \in rows THEN c ELSE by[o]]
                     /\ conf' = [conf EXCEPT ![c] = "CONSUMED"]
                ELSE UNCHANGED <<intent, by, conf>>
             /\ Goto(p, "recover")
          \/ /\ conf[c] # "APPROVED" \/ {c, ConfPlan[c]} \cap lapsed # {}
             /\ Finish(p)
             /\ UNCHANGED <<intent, by, conf>>
       /\ UNCHANGED <<reconVars, channel, checked, prompt, lapsed, boid, canaryVars, synced, brokerVars>>

\* An order found SUBMITTING without a broker id may have been sent: UNKNOWN.
Recover(p) ==
    LET doubtful == {o \in OrdersOf(PlanRun(p)) : intent[o] = "SUBMITTING" /\ ~boid[o]}
    IN /\ pc[p] = "recover"
       /\ intent' = [o \in Orders |-> IF o \in doubtful THEN "UNKNOWN" ELSE intent[o]]
       /\ canary' = IF IsLive(p) /\ doubtful # {} THEN 0 ELSE canary
       /\ pc' = [pc EXCEPT ![p] = "next"]
       /\ todo' = [todo EXCEPT ![p] = OrdersOf(PlanRun(p))]
       /\ UNCHANGED <<reconVars, confVars, boid, by, opened, usage, synced, brokerVars, run, seen, cur>>

(***************************************************************************)
(* The submit loop of OrderManager.submit                                  *)
(***************************************************************************)
IsNext(p, o) == o \in todo[p] /\ \A q \in todo[p] : Rank[o] <= Rank[q]

\* Take the next order; one that is not PENDING any more is skipped.
Fetch(p) ==
    /\ pc[p] = "next"
    /\ \/ todo[p] = {} /\ Finish(p)
       \/ \E o \in Orders :
            /\ IsNext(p, o)
            /\ todo' = [todo EXCEPT ![p] = @ \ {o}]
            /\ IF intent[o] = "PENDING"
               THEN pc' = [pc EXCEPT ![p] = "mark"] /\ cur' = [cur EXCEPT ![p] = o]
               ELSE UNCHANGED <<pc, cur>>
            /\ UNCHANGED <<run, seen>>
    /\ UNCHANGED <<reconVars, confVars, intentVars, canaryVars, synced, brokerVars>>

BugMarkAfterCall(p) ==
    /\ pc[p] = "mark"
    /\ Goto(p, "gate")
    /\ UNCHANGED <<reconVars, confVars, intentVars, canaryVars, synced, brokerVars>>

\* SUBMITTING is stored before the broker hears of the order.
Mark(p) ==
    /\ pc[p] = "mark"
    /\ intent' = [intent EXCEPT ![cur[p]] = SetStatus(@, "SUBMITTING")]
    /\ Goto(p, "gate")
    /\ UNCHANGED <<reconVars, confVars, boid, by, canaryVars, synced, brokerVars>>

\* PaperBroker.submit_order; LiveBroker.submit up to the canary.
GateOpen(p) ==
    /\ conf[run[p]] = "CONSUMED"
    /\ IsLive(p) => by[cur[p]] = run[p] /\ intent[cur[p]] \in {"PENDING", "SUBMITTING"}

\* The kill switch may refuse a LIVE order.
Gate(p) ==
    /\ pc[p] = "gate"
    /\ \/ GateOpen(p) /\ Goto(p, IF IsLive(p) THEN "reserve" ELSE "ack")
       \/ (~GateOpen(p) \/ IsLive(p)) /\ Goto(p, "failed")
    /\ UNCHANGED <<reconVars, confVars, intentVars, canaryVars, synced, brokerVars>>

\* authorize_live_canary looks a reservation up by client_request_id.
BugReservedByPlan(o) == \E q \in OrdersOf(PlanOf[o]) : q \in usage
Reserved(o) == o \in usage

\* used_orders < max_orders on the ACTIVE canary.
CanaryHasRoom == canary > 0

\* authorize_live_canary.  The reservation may exhaust the canary's notional, and
\* an order beyond its symbols or notional is refused, which may close it.
Reserve(p) ==
    /\ pc[p] = "reserve"
    /\ \/ /\ Reserved(cur[p])
          /\ Goto(p, "reread") /\ UNCHANGED <<usage, canary>>
       \/ /\ ~Reserved(cur[p]) /\ CanaryHasRoom
          /\ usage' = usage \cup {cur[p]}
          /\ canary' \in {canary - 1, 0}
          /\ Goto(p, "reread")
       \/ /\ ~Reserved(cur[p])
          /\ canary' \in {canary, 0}
          /\ Goto(p, "failed") /\ UNCHANGED usage
    /\ UNCHANGED <<reconVars, confVars, intentVars, opened, synced, brokerVars>>

\* _submit_live reads the confirmation again; the client may be unavailable.
Reread(p) ==
    /\ pc[p] = "reread"
    /\ \/ conf[run[p]] = "CONSUMED" /\ Goto(p, "send")
       \/ Goto(p, "failed")
    /\ UNCHANGED <<reconVars, confVars, intentVars, canaryVars, synced, brokerVars>>

\* client.order: accepted and answered, accepted with the answer lost, refused by
\* the broker, or given up before the call.
Send(p) ==
    LET called == calls' = [calls EXCEPT ![cur[p]] = @ + 1]
        accepted == bstat' = [bstat EXCEPT ![cur[p]] = "SUBMITTED"]
    IN /\ pc[p] = "send"
       /\ \/ called /\ accepted /\ Goto(p, "ack")
          \/ called /\ accepted /\ Goto(p, "failed")
          \/ called /\ UNCHANGED bstat /\ Goto(p, "failed")
          \/ UNCHANGED <<calls, bstat>> /\ Goto(p, "failed")
       /\ UNCHANGED <<reconVars, confVars, intentVars, canaryVars, synced, queue, pushed>>

Ack(p) ==
    /\ pc[p] = "ack"
    /\ intent' = [intent EXCEPT ![cur[p]] = SetStatus(@, "SUBMITTED")]
    /\ boid' = [boid EXCEPT ![cur[p]] = TRUE]
    /\ Goto(p, IF IsLive(p) THEN "drain" ELSE "next")
    /\ UNCHANGED <<reconVars, confVars, by, canaryVars, synced, brokerVars>>

BugDrainPeeks(p) ==
    /\ pc[p] = "drain"
    /\ IF queue = <<>> THEN Goto(p, "next") ELSE UNCHANGED procVars
    /\ UNCHANGED <<reconVars, confVars, intentVars, canaryVars, synced, brokerVars>>

\* drain_events: each queued push is applied to the intent it names.  A status
\* outside the state machine makes the intent UNKNOWN; no canary is closed.
Drain(p) ==
    /\ pc[p] = "drain"
    /\ \/ queue = <<>> /\ Goto(p, "next") /\ UNCHANGED <<intent, boid, queue>>
       \/ /\ queue # <<>>
          /\ intent' = [intent EXCEPT ![Head(queue).order] = SetStatus(@, Head(queue).status)]
          /\ boid' = [boid EXCEPT ![Head(queue).order] = TRUE]
          /\ queue' = Tail(queue)
          /\ UNCHANGED procVars
    /\ UNCHANGED <<reconVars, confVars, by, canaryVars, synced, calls, bstat, pushed>>

BugRetriesUnknown(p) ==
    /\ pc[p] = "failed"
    /\ intent' = [intent EXCEPT ![cur[p]] = SetStatus(@, "UNKNOWN")]
    /\ Goto(p, "send")
    /\ UNCHANGED <<reconVars, confVars, boid, by, canaryVars, synced, brokerVars>>

\* The handler of a failed submit: UNKNOWN first, the canaries in a second
\* transaction; the exception leaves the rest of the plan PENDING.
Fail(p) ==
    /\ pc[p] = "failed"
    /\ intent' = [intent EXCEPT ![cur[p]] = SetStatus(@, "UNKNOWN")]
    /\ Goto(p, "close")
    /\ UNCHANGED <<reconVars, confVars, boid, by, canaryVars, synced, brokerVars>>

CloseCanary(p) ==
    /\ pc[p] = "close"
    /\ canary' = 0
    /\ Finish(p)
    /\ UNCHANGED <<reconVars, confVars, intentVars, opened, usage, synced, brokerVars>>

(***************************************************************************)
(* Crashes, the broker, the operator and time                              *)
(***************************************************************************)
Crash(p) ==
    /\ pc[p] # "idle" \/ (p = "daemon" /\ (queue # <<>> \/ checked # {}))
    /\ Finish(p)
    /\ IF p = "daemon" THEN queue' = <<>> /\ checked' = {} ELSE UNCHANGED <<queue, checked>>
    /\ UNCHANGED <<reconVars, conf, channel, prompt, lapsed, intentVars, canaryVars, synced, calls, bstat, pushed>>

BrokerMoves(o) ==
    /\ bstat[o] = "SUBMITTED"
    /\ bstat' \in {[bstat EXCEPT ![o] = s] : s \in Terminal}
    /\ UNCHANGED <<reconVars, confVars, intentVars, canaryVars, synced, calls, queue, pushed, procVars>>

\* A push may be late (an earlier status), duplicated, or carry an odd status.
BrokerPush(o) ==
    /\ bstat[o] # "NONE" /\ pushed < MaxPushes
    /\ \E s \in {bstat[o], "SUBMITTED", "UNKNOWN"} \cap PushStatuses :
         queue' = Append(queue, [order |-> o, status |-> s])
    /\ pushed' = pushed + 1
    /\ UNCHANGED <<reconVars, confVars, intentVars, canaryVars, synced, calls, bstat, procVars>>

\* create_live_canary, one ACTIVE at a time (module LiveCanary has several).
OpenCanary ==
    /\ canary = 0 /\ opened < MaxCanaries
    /\ canary' = CanaryOrders
    /\ opened' = opened + 1
    /\ UNCHANGED <<reconVars, confVars, intentVars, usage, synced, brokerVars, procVars>>

\* The Core store's account snapshot moves in and out of SYNCED.
AccountMoves ==
    /\ synced' = ~synced
    /\ UNCHANGED <<reconVars, confVars, intentVars, canaryVars, brokerVars, procVars>>

\* expires_at of a confirmation or a plan passes.
Lapse(x) ==
    /\ x \notin lapsed
    /\ lapsed' = lapsed \cup {x}
    /\ UNCHANGED <<reconVars, conf, channel, checked, prompt, intentVars, canaryVars, synced, brokerVars, procVars>>

(***************************************************************************)
(* tc execution reconcile (reconcile_runtime): a process of its own        *)
(***************************************************************************)
\* RECONCILING is written over the account's status.
ReconcileStart ==
    /\ reconciling = "no" /\ reconciled < MaxReconciles
    /\ reconciling' = "poll" /\ reconciled' = reconciled + 1
    /\ synced' = FALSE
    /\ UNCHANGED <<confVars, intentVars, canaryVars, brokerVars, doubted, differs, procVars>>

\* poll_active_orders: the broker's snapshot, which may be old when it is written, or
\* UNKNOWN when there is none (module OrderEvents has the fills of a snapshot).
PollOrder(o) ==
    /\ reconciling = "poll"
    /\ PlanOf[o] \in LivePlans /\ boid[o] /\ intent[o] \in {"SUBMITTING", "SUBMITTED", "UNKNOWN"}
    /\ \E s \in {bstat[o], "SUBMITTED", "UNKNOWN"} \ {"NONE"} :
         intent' = [intent EXCEPT ![o] = SetStatus(@, s)]
    /\ UNCHANGED <<confVars, boid, by, canaryVars, synced, brokerVars, reconVars, procVars>>

\* The rows of a plan with no broker id that reconcile_plan makes UNKNOWN.
Doubtful(plan) ==
    {o \in Existing(plan) : /\ ~boid[o]
                            /\ IF plan \in LivePlans THEN intent[o] # "PENDING"
                               ELSE intent[o] \in {"SUBMITTING", "SUBMITTED"}}

\* The rows of a plan it asks the broker about.
Asked(plan) == IF plan \in LivePlans THEN {o \in Existing(plan) : boid[o]} ELSE {}

\* A difference it reports without touching the row.
Unlike(o) ==
    IF PlanOf[o] \in LivePlans
    THEN boid[o] /\ intent[o] # bstat[o] /\ ~(intent[o] = "SUBMITTING" /\ bstat[o] = "SUBMITTED")
    ELSE intent[o] = "UNKNOWN"

\* reconcile_plan reads the rows of a plan once.  The broker may not know an order
\* it is asked about, and may have moved on by then.
ReconcileList(plan) ==
    /\ reconciling \in {"poll", "list"}
    /\ \E unheard \in SUBSET Asked(plan) : doubted' = Doubtful(plan) \cup unheard
    /\ LET found == doubted' # {} \/ \E o \in Existing(plan) : Unlike(o)
           mayFind == \E o \in Asked(plan) : bstat[o] = "SUBMITTED"
           mode == IF plan \in LivePlans THEN "LIVE" ELSE "PAPER"
       IN  differs' \in IF found THEN {mode} ELSE IF mayFind THEN {"no", mode} ELSE {"no"}
    /\ reconciling' = "doubt"
    /\ UNCHANGED <<confVars, intentVars, canaryVars, synced, brokerVars, reconciled, procVars>>

\* One set_intent_status each, whatever the row says by now.
ReconcileDoubt(o) ==
    /\ o \in doubted
    /\ doubted' = doubted \ {o}
    /\ intent' = [intent EXCEPT ![o] = SetStatus(@, "UNKNOWN")]
    /\ UNCHANGED <<confVars, boid, by, canaryVars, synced, brokerVars, reconciling, differs,
                    reconciled, procVars>>

\* A difference closes the canaries, and in a LIVE plan makes the account MISMATCH.
ReconcilePlanDone ==
    /\ reconciling = "doubt" /\ doubted = {}
    /\ reconciling' = "list" /\ differs' = "no"
    /\ synced' = (synced /\ differs # "LIVE")
    /\ canary' = IF differs = "no" THEN canary ELSE 0
    /\ UNCHANGED <<confVars, intentVars, opened, usage, brokerVars, doubted, reconciled, procVars>>

\* It ends or dies, with or without the status the account had (AccountMoves).
ReconcileLeave ==
    /\ reconciling # "no"
    /\ reconciling' = "no" /\ doubted' = {} /\ differs' = "no"
    /\ UNCHANGED <<confVars, intentVars, canaryVars, synced, brokerVars, reconciled, procVars>>

ReconcileStep ==
    \/ ReconcileStart \/ ReconcilePlanDone \/ ReconcileLeave
    \/ \E o \in Orders : PollOrder(o) \/ ReconcileDoubt(o)
    \/ \E plan \in Plans : ReconcileList(plan)

\* The steps of a submit call under way.
SubmitStep(p) ==
    \/ Admit(p) \/ ConsumeLook(p) \/ ConsumeTxn(p) \/ Recover(p)
    \/ Fetch(p) \/ Mark(p) \/ Gate(p) \/ Reserve(p) \/ Reread(p) \/ Send(p)
    \/ Ack(p) \/ Drain(p) \/ Fail(p) \/ CloseCanary(p)

Next ==
    \/ \E c \in Confs :
         \/ RequestConfirmation(c) \/ ApproveCheck(c) \/ ApproveCommit(c) \/ Reject(c)
         \/ CliCancel(c) \/ CliYesLive(c) \/ CliYesPaper(c) \/ DaemonExecute(c)
    \/ CliRisk \/ CliLoad
    \/ \E p \in Procs : SubmitStep(p) \/ Crash(p)
    \/ \E o \in Orders : BrokerMoves(o) \/ BrokerPush(o)
    \/ OpenCanary \/ AccountMoves
    \/ ReconcileStep
    \/ \E x \in Lapsing : Lapse(x)

Spec == Init /\ [][Next]_vars

\* A process that is up keeps running its call; nothing else is promised.
Fairness == WF_vars(CliRisk \/ CliLoad) /\ \A p \in Procs : WF_vars(SubmitStep(p))

FairSpec == Spec /\ Fairness

\* An operator who never gives up: every confirmation is requested, approved and,
\* as long as execute() takes it, executed again.
Retries(c) == /\ WF_vars(RequestConfirmation(c)) /\ WF_vars(ApproveCheck(c))
              /\ WF_vars(ApproveCommit(c)) /\ SF_vars(DaemonExecute(c))

RetrySpec == FairSpec /\ \A c \in Confs : Retries(c)

(***************************************************************************)
(* Properties                                                              *)
(***************************************************************************)
\* The client_request_id of a LIVE order reaches client.order at most once,
\* whatever crashes, lost answers and re-executions come between.
AtMostOneCall == \A o \in LiveOrders : calls[o] <= 1

\* The broker never hears of a LIVE order whose row does not say so: no crash can
\* leave a sent order with a row that looks unsent (none, or PENDING).
WriteAhead == \A o \in LiveOrders : calls[o] > 0 => intent[o] \notin {"NONE", "PENDING"}

\* A LIVE order is sent under a confirmation of its own plan that executiond
\* approved on a proof, and under a canary reservation made for that order.
CallsAuthorised ==
    \A o \in LiveOrders : calls[o] > 0 =>
        /\ o \in usage
        /\ by[o] \in Confs /\ ConfPlan[by[o]] = PlanOf[o] /\ channel[by[o]] = "proof"

\* The canaries opened bound the LIVE orders sent.
CallsWithinCanaries ==
    Cardinality({o \in LiveOrders : calls[o] > 0}) <= opened * CanaryOrders

\* consume() is all or nothing: the orders of a plan have rows together and all
\* under one confirmation, however many confirmations are executed concurrently.
WholePlanConsumed ==
    \A o, q \in Orders : PlanOf[o] = PlanOf[q] =>
        /\ (intent[o] = "NONE") = (intent[q] = "NONE")
        /\ by[o] = by[q]

\* A plan is consumed once.  A CONSUMED confirmation owns every row of its plan, so two
\* confirmations of a plan are never both consumed, whoever executes them; and one
\* that owns rows is not APPROVED again, so it cannot authorise a second run.
NotConsumedTwice ==
    /\ \A c \in Confs : conf[c] = "CONSUMED" => \A o \in OrdersOf(ConfPlan[c]) : by[o] = c
    /\ \A o \in Orders : by[o] \in Confs => conf[by[o]] # "APPROVED"

\* The outcome of an order that became UNKNOWN is never settled by sending it, as long
\* as no reconciliation runs beside the submit calls: the loop skips UNKNOWN rows.
UnknownNeverRetriedAlone ==
    [][\A o \in LiveOrders : reconciled = 0 /\ intent[o] = "UNKNOWN" => calls'[o] = calls[o]]_vars

\* With one it is not so.  It makes an order UNKNOWN that a submit call has in hand,
\* and the call, which reads the row last before it asks for the canary, sends it.
UnknownNeverRetried ==
    [][\A o \in LiveOrders : intent[o] = "UNKNOWN" => calls'[o] = calls[o]]_vars

\* No LIVE order is sent while some LIVE intent is UNKNOWN.  README.md:163 promises
\* it; the submit loop keeps it as long as pushes carry known statuses only and no
\* reconciliation runs beside it.
NoCallWhileUnknown ==
    [][calls' # calls => \A o \in LiveOrders : intent[o] # "UNKNOWN"]_vars
NoCallWhileUnknownAlone ==
    [][reconciled = 0 /\ calls' # calls => \A o \in LiveOrders : intent[o] # "UNKNOWN"]_vars

\* A consumed confirmation stays CONSUMED (models.py:15), although trade sessions
\* and executiond may act on the same confirmation.
ConsumedIsFinal == [][\A c \in Confs : conf[c] = "CONSUMED" => conf'[c] = "CONSUMED"]_vars

\* A submit call returns or raises: no step of it waits for the other process or
\* for the broker's pushes for ever.
EveryRunEnds == \A p \in Procs : pc[p] # "idle" ~> pc[p] = "idle"

\* Refinement of OrderPromise: an order with a row is authorised, and sent once the
\* broker was called for it; a second call has no counterpart there.
OrderState(o) ==
    CASE calls[o] > 1 -> "sent again"
      [] calls[o] = 1 -> "sent"
      [] calls[o] = 0 /\ intent[o] = "NONE" -> "idle"
      [] calls[o] = 0 /\ intent[o] # "NONE" -> "authorised"

Promise == INSTANCE OrderPromise WITH Orders <- LiveOrders,
                                      state <- [o \in LiveOrders |-> OrderState(o)]

\* Every behaviour of the processes, crashes included, is one OrderPromise allows:
\* a whole plan is authorised in one step, and each of its orders is sent once.
ImplementsPromise == Promise!PromiseSpec

\* Once consumed, an order does not stay PENDING: recover() resumes it after a
\* crash (order_manager.py:15), at least for an operator who keeps trying.
PendingResumed == \A o \in Orders : intent[o] = "PENDING" ~> intent[o] # "PENDING"
===============================================================================
