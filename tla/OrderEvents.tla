------------------------------ MODULE OrderEvents ------------------------------
(***************************************************************************)
(* What the execution store learns of one LIVE order after its ack: order  *)
(* snapshots with a cumulative executed quantity arrive as SDK pushes,     *)
(* which executiond drains, and as answers to the queries of `tc execution *)
(* reconcile`; _apply_order_snapshot (execution/broker_live.py) turns them *)
(* into fills and statuses (execution/broker.py, execution/state.py).      *)
(*                                                                         *)
(* The two processes write the same rows.  A fill is one transaction, but  *)
(* the quantity it adds was computed before, and set_intent_status reads   *)
(* the row and writes it in two statements.                                *)
(***************************************************************************)
EXTENDS Naturals, Sequences

CONSTANTS
    Procs,          \* a subset of {"daemon", "reconcile"}
    Overlap,        \* whether one may take a snapshot up while the other is at one
    Quantity,       \* quantity of the order
    Levels,         \* cumulative quantities at which it may be executed
    Price,          \* [Levels -> prices]: average price up to that level
    MaxPushes,      \* bound: pushes delivered
    MaxTroubles     \* bound: crashes, and queries that fail or answer oddly

ASSUME EventsAssumption ==
    /\ Procs \subseteq {"daemon", "reconcile"} /\ Overlap \in BOOLEAN
    /\ Quantity \in Nat \ {0}
    /\ Levels \subseteq 1..Quantity /\ Quantity \in Levels
    /\ DOMAIN Price = Levels
    /\ MaxPushes \in Nat /\ MaxTroubles \in Nat

Terminal == {"FILLED", "REJECTED", "CANCELLED"}
Active == {"SUBMITTED", "UNKNOWN"}
NoSnapshot == [cum |-> 0, status |-> "none"]
Statuses == Terminal \cup Active
Snapshots == [cum : Levels \cup {0}, status : Statuses]

VARIABLES
    executed,   \* broker side: cumulative executed quantity
    bstat,      \* broker side: status
    past,       \* snapshots the order has had at the broker
    queue,      \* pushes that executiond has not drained
    pushed,     \* pushes delivered so far
    troubles,   \* crashes and bad answers so far
    status,     \* trading_order_intent.status
    total,      \* sum of the order's trading_fill rows
    keys,       \* dedupe keys in the audit log
    pc,         \* per process: next step
    snap,       \* per process: the snapshot it applies
    delta,      \* per process: the quantity of its fill event
    target      \* per process: the status it is about to write

brokerVars == <<executed, bstat, past>>
pushVars == <<queue, pushed, troubles>>
storeVars == <<status, total, keys>>
vars == <<brokerVars, pushVars, storeVars, pc, snap, delta, target>>

\* Types of the broker, the store and the processes.
TypeOK ==
    /\ executed \in Levels \cup {0}
    /\ bstat \in Terminal \cup {"SUBMITTED"}
    /\ past \subseteq Snapshots
    /\ queue \in Seq(Snapshots) /\ pushed \in 0..MaxPushes /\ troubles \in 0..MaxTroubles
    /\ status \in Statuses
    /\ total \in Nat
    /\ keys \subseteq Nat \X {Price[l] : l \in Levels}
    /\ pc \in [Procs -> {"idle", "query", "apply", "fill", "read", "write", "compare"}]
    /\ snap \in [Procs -> Snapshots \cup {NoSnapshot}]
    /\ delta \in [Procs -> Nat]
    /\ target \in [Procs -> Statuses]

Init ==
    /\ executed = 0 /\ bstat = "SUBMITTED"
    /\ past = {[cum |-> 0, status |-> "SUBMITTED"]}
    /\ queue = <<>> /\ pushed = 0 /\ troubles = 0
    /\ status = "SUBMITTED" /\ total = 0 /\ keys = {}
    /\ pc = [p \in Procs |-> "idle"]
    /\ snap = [p \in Procs |-> NoSnapshot]
    /\ delta = [p \in Procs |-> 0]
    /\ target = [p \in Procs |-> "UNKNOWN"]

(***************************************************************************)
(* The broker and its pushes                                               *)
(***************************************************************************)
BecomesAtBroker(cum, s) ==
    /\ bstat = "SUBMITTED"
    /\ executed' = cum /\ bstat' = s
    /\ past' = past \cup {[cum |-> cum, status |-> s]}
    /\ UNCHANGED <<pushVars, storeVars, pc, snap, delta, target>>

Execute ==
    \E l \in Levels :
        l > executed /\ BecomesAtBroker(l, IF l = Quantity THEN "FILLED" ELSE "SUBMITTED")

Withdraw ==
    \/ BecomesAtBroker(executed, "CANCELLED")
    \/ executed = 0 /\ BecomesAtBroker(0, "REJECTED")

\* What normalize_broker_status makes of a snapshot: its status may be one that
\* function does not know.
Observed(s) == {s, [s EXCEPT !.status = "UNKNOWN"]}

\* A push may be late, repeated and out of order.
Push ==
    /\ "daemon" \in Procs /\ pushed < MaxPushes
    /\ \E s \in past : \E o \in Observed(s) : queue' = Append(queue, o)
    /\ pushed' = pushed + 1
    /\ UNCHANGED <<brokerVars, troubles, storeVars, pc, snap, delta, target>>

(***************************************************************************)
(* Taking a snapshot up                                                    *)
(***************************************************************************)
Goto(p, step) == pc' = [pc EXCEPT ![p] = step]

\* Where a process goes when a snapshot or a status write is done with: the daemon
\* to its queue, the reconciler from the poll to reconcile_plan, and from there,
\* where it holds no snapshot, out.
Continue(p) ==
    Goto(p, IF p = "reconcile" /\ snap[p] # NoSnapshot THEN "compare" ELSE "idle")

\* Nothing in the code keeps the two apart; Overlap is FALSE where they are taken not
\* to meet.
MayStart(p) == pc[p] = "idle" /\ (Overlap \/ \A q \in Procs : pc[q] = "idle")

\* drain_events takes the oldest push.
Take ==
    /\ "daemon" \in Procs /\ MayStart("daemon") /\ queue # <<>>
    /\ snap' = [snap EXCEPT !["daemon"] = Head(queue)]
    /\ queue' = Tail(queue)
    /\ Goto("daemon", "apply")
    /\ UNCHANGED <<brokerVars, pushed, troubles, storeVars, delta, target>>

\* poll_active_orders lists the intents; one in a terminal state is not polled.
BugSkipsUnknown == {"SUBMITTED"}
Polled == {"SUBMITTED", "UNKNOWN"}

PollList ==
    /\ "reconcile" \in Procs /\ MayStart("reconcile")
    /\ status \in Polled
    /\ Goto("reconcile", "query")
    /\ UNCHANGED <<brokerVars, pushVars, storeVars, snap, delta, target>>

Trouble == troubles < MaxTroubles /\ troubles' = troubles + 1

\* order_state answers.
PollAnswered ==
    LET now == [cum |-> executed, status |-> bstat]
    IN /\ "reconcile" \in Procs /\ pc["reconcile"] = "query"
       /\ \E s \in Observed(now) :
            /\ snap' = [snap EXCEPT !["reconcile"] = s]
            /\ IF s = now THEN UNCHANGED troubles ELSE Trouble
       /\ Goto("reconcile", "apply")
       /\ UNCHANGED <<brokerVars, queue, pushed, storeVars, delta, target>>

\* order_state swallows an error and returns None: the intent becomes UNKNOWN.
PollFailed ==
    /\ "reconcile" \in Procs /\ pc["reconcile"] = "query"
    /\ Trouble
    /\ snap' = [snap EXCEPT !["reconcile"] = [cum |-> 0, status |-> "UNKNOWN"]]
    /\ target' = [target EXCEPT !["reconcile"] = "UNKNOWN"]
    /\ Goto("reconcile", "read")
    /\ UNCHANGED <<brokerVars, queue, pushed, storeVars, delta>>

\* reconcile_plan lists the intents of the plan, terminal ones included, and queries
\* again; only a failed or unknown answer writes.  Its verdict goes to the account
\* (module AccountSync).
Reconcile ==
    /\ "reconcile" \in Procs /\ pc["reconcile"] = "compare"
    /\ snap' = [snap EXCEPT !["reconcile"] = NoSnapshot]
    /\ \/ Goto("reconcile", "idle") /\ UNCHANGED <<target, troubles>>
       \/ /\ Trouble
          /\ target' = [target EXCEPT !["reconcile"] = "UNKNOWN"]
          /\ Goto("reconcile", "read")
    /\ UNCHANGED <<brokerVars, queue, pushed, storeVars, delta>>

(***************************************************************************)
(* _apply_order_snapshot and what it dispatches                            *)
(***************************************************************************)
\* The increment is what the snapshot has beyond the fills recorded by now.
BugCumulative(p) == snap[p].cum
Increment(p) == snap[p].cum - total

\* A FILLED snapshot that adds nothing is dropped; any other status is written.
Apply(p) ==
    /\ pc[p] = "apply"
    /\ \/ /\ snap[p].cum > total
          /\ delta' = [delta EXCEPT ![p] = Increment(p)]
          /\ Goto(p, "fill") /\ UNCHANGED target
       \/ /\ snap[p].cum <= total /\ snap[p].status # "FILLED"
          /\ target' = [target EXCEPT ![p] = snap[p].status]
          /\ Goto(p, "read") /\ UNCHANGED delta
       \/ /\ snap[p].cum <= total /\ snap[p].status = "FILLED"
          /\ Continue(p) /\ UNCHANGED <<delta, target>>
    /\ UNCHANGED <<brokerVars, pushVars, storeVars, snap>>

\* The events made here carry no execution id and no time, so the fingerprint is
\* the increment and the price.
Fingerprint(p) == <<delta[p], Price[snap[p].cum]>>

\* A fill is refused after a withdrawal, twice, or on a full order.
Ignored(p) ==
    \/ status \in {"REJECTED", "CANCELLED"}
    \/ Fingerprint(p) \in keys
    \/ total >= Quantity

Accepted(p) == IF delta[p] > Quantity - total THEN Quantity - total ELSE delta[p]

BugAnyFillFills(p) == "FILLED"
FillStatus(p) ==
    IF status = "FILLED" \/ total + Accepted(p) >= Quantity THEN "FILLED" ELSE "SUBMITTED"

\* _on_filled, one transaction.
Fill(p) ==
    /\ pc[p] = "fill"
    /\ IF Ignored(p) THEN UNCHANGED storeVars
       ELSE /\ total' = total + Accepted(p)
            /\ keys' = keys \cup {Fingerprint(p)}
            /\ status' = FillStatus(p)
    /\ Continue(p)
    /\ UNCHANGED <<brokerVars, pushVars, snap, delta, target>>

\* set_intent_status (execution/state.py): the row is read ...
BugNoGuard(p) == TRUE
MayWrite(p) == status \notin Terminal

SetRead(p) ==
    /\ pc[p] = "read"
    /\ IF MayWrite(p) THEN Goto(p, "write") ELSE Continue(p)
    /\ UNCHANGED <<brokerVars, pushVars, storeVars, snap, delta, target>>

\* ... and then written by its id, whatever it has become.
SetWrite(p) ==
    /\ pc[p] = "write"
    /\ status' = target[p]
    /\ Continue(p)
    /\ UNCHANGED <<brokerVars, pushVars, total, keys, snap, delta, target>>

\* A process dies; pushes it had queued are lost.
Crash(p) ==
    /\ pc[p] # "idle" \/ (p = "daemon" /\ queue # <<>>)
    /\ Trouble
    /\ Goto(p, "idle")
    /\ snap' = [snap EXCEPT ![p] = NoSnapshot]
    /\ queue' = IF p = "daemon" THEN <<>> ELSE queue
    /\ UNCHANGED <<brokerVars, pushed, storeVars, delta, target>>

Step(p) == Apply(p) \/ Fill(p) \/ SetRead(p) \/ SetWrite(p)

Next ==
    \/ Execute \/ Withdraw \/ Push \/ Take
    \/ PollList \/ PollAnswered \/ PollFailed \/ Reconcile
    \/ \E p \in Procs : Step(p) \/ Crash(p)

Spec == Init /\ [][Next]_vars

\* The schedule runs `tc execution reconcile` again and again, and a run that is
\* neither killed nor left without an answer takes its steps.
Fairness ==
    WF_vars(PollList \/ PollAnswered \/ Reconcile) /\ \A p \in Procs : WF_vars(Step(p))

FairSpec == Spec /\ Fairness

(***************************************************************************)
(* Properties                                                              *)
(***************************************************************************)
\* The fills recorded never exceed the order, even when both processes record what
\* they computed from stale totals.
NeverOverfilled == total <= Quantity

\* FILLED is only said of an order whose fills add up to its quantity.
FilledIsFull == status = "FILLED" => total = Quantity

\* No fill is recorded that the broker did not execute: applying a cumulative
\* snapshot is idempotent (docstring of _apply_order_snapshot).
RecordedWasExecuted == total <= executed

\* Every caller of set_intent_status sees terminal states for good (state.py:4-6).
TerminalStays == [][(status \in Terminal) => status' = status]_vars

\* Polling recovers what pushes lost: once the order is terminal at the broker the
\* store has the same status and all of its fills (broker_live.py:358).
CatchesUp == \A s \in Terminal : bstat = s ~> (status = s /\ total = executed)
===============================================================================
