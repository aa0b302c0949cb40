-------------------------- MODULE PlanExecutionProofs --------------------------
(***************************************************************************)
(* Proofs about PlanExecution, for every set of plans, orders and          *)
(* confirmations and every value of the limits.  The inductive invariant   *)
(* follows an order through the submit loop: who may be in the loop with a *)
(* LIVE order, that such an order was not sent before, and what has been   *)
(* stored about it by each step.                                           *)
(***************************************************************************)
EXTENDS PlanExecution, FiniteSetTheorems, TLAPS

BeforeCall == {"mark", "gate", "reserve", "reread", "send"}
HoldsOrder == BeforeCall \cup {"ack", "failed", "close"}

\* A process inside a submit call runs a confirmation that left PENDING; only the
\* daemon runs LIVE plans, on a proof; its orders are those of the plan.
RunOK(p) ==
    /\ run[p] \in Confs
    /\ conf[run[p]] \notin {"NONE", "PENDING"}
    /\ todo[p] \subseteq OrdersOf(PlanRun(p))
    /\ IsLive(p) => p = "daemon" /\ channel[run[p]] = "proof"
    /\ pc[p] = "drain" => IsLive(p)
    /\ pc[p] \in HoldsOrder => cur[p] \in OrdersOf(PlanRun(p)) /\ intent[cur[p]] # "NONE"

\* What has been stored about a LIVE order that is about to be sent.
ReadyOK(p) ==
    /\ calls[cur[p]] = 0
    /\ pc[p] # "mark" => intent[cur[p]] \notin {"NONE", "PENDING"}
    /\ pc[p] \in {"reserve", "reread", "send"} => by[cur[p]] = run[p]
    /\ pc[p] \in {"reread", "send"} => cur[p] \in usage

\* What holds of a LIVE order the broker was called for.
CalledOK(o) ==
    /\ calls[o] = 1
    /\ intent[o] \notin {"NONE", "PENDING"}
    /\ o \in usage
    /\ by[o] \in Confs
    /\ ConfPlan[by[o]] = PlanOf[o]
    /\ channel[by[o]] = "proof"
    /\ conf[by[o]] \notin {"NONE", "PENDING"}

\* Only orders the broker was called for are known there or pushed from there.
BrokerOK ==
    /\ \A o \in LiveOrders : bstat[o] # "NONE" => calls[o] # 0
    /\ \A i \in 1..Len(queue) : bstat[queue[i].order] # "NONE"

\* A reconciliation only doubts orders that have a row.
DoubtOK == \A o \in doubted : intent[o] # "NONE"

IInv ==
    /\ TypeOK
    /\ \A p \in Procs : IF pc[p] = "idle" THEN todo[p] = {} ELSE RunOK(p)
    /\ \A p \in Procs : pc[p] \in BeforeCall /\ IsLive(p) => ReadyOK(p)
    /\ \A o \in LiveOrders : calls[o] # 0 => CalledOK(o)
    /\ BrokerOK
    /\ DoubtOK

(***************************************************************************)
(* Lemmas on the shared operators                                          *)
(***************************************************************************)
\* The queue of pushes: its first element and what remains after it.
LEMMA QueueHead ==
  ASSUME BrokerTypeOK, queue # <<>>
  PROVE  /\ Head(queue) \in Pushes
         /\ Head(queue) = queue[1]
         /\ Tail(queue) \in Seq(Pushes)
         /\ Len(Tail(queue)) = Len(queue) - 1
         /\ \A i \in 1..Len(Tail(queue)) : Tail(queue)[i] = queue[i + 1]
<1>1. queue \in Seq(Pushes)
  BY DEF BrokerTypeOK
<1>2. QED BY <1>1

\* A crash empties the queue.
LEMMA EmptyQueue == <<>> \in Seq(Pushes)
OBVIOUS

\* A queued push names an order.
LEMMA QueueOrders ==
  ASSUME BrokerTypeOK, NEW i \in 1..Len(queue)
  PROVE  queue[i] \in Pushes /\ queue[i].order \in Orders
<1>1. queue[i] \in Pushes
  BY DEF BrokerTypeOK
<1>2. QED BY <1>1 DEF Pushes

\* A drained push never makes a row look absent or unsent.
LEMMA DrainRows ==
  ASSUME TypeOK, NEW p \in Procs, Drain(p), NEW q \in Orders
  PROVE  /\ intent[q] # "NONE" => intent'[q] # "NONE"
         /\ intent[q] \notin {"NONE", "PENDING"} => intent'[q] \notin {"NONE", "PENDING"}
<1>1. CASE queue = <<>>
  BY <1>1 DEF Drain
<1>2. CASE queue # <<>>
  <2>1. Head(queue).status \in PushStatuses
    BY <1>2, QueueHead DEF Pushes, TypeOK
  <2>2. intent' = [intent EXCEPT ![Head(queue).order] = SetStatus(@, Head(queue).status)]
    BY <1>2 DEF Drain
  <2>3. QED BY <2>1, <2>2, PlanAssumption DEF SetStatus, Terminal, TypeOK, IntentTypeOK
<1>3. QED BY <1>1, <1>2

\* Returning from a submit call leaves the processes well typed.
LEMMA FinishType == ASSUME NEW p \in Procs, ProcTypeOK, Finish(p) PROVE ProcTypeOK'
BY DEF Finish, ProcTypeOK, Steps

\* So does going on to another step.
LEMMA GotoType ==
  ASSUME NEW p \in Procs, NEW step \in Steps, ProcTypeOK, Goto(p, step) PROVE ProcTypeOK'
BY DEF Goto, ProcTypeOK

\* The initial state satisfies the inductive invariant.
LEMMA InitInv == Init => IInv
BY PlanAssumption DEF Init, IInv, TypeOK, ConfTypeOK, IntentTypeOK, CanaryTypeOK, BrokerTypeOK,
     ProcTypeOK, ReconTypeOK, ConfStatus, IntentStatus, Procs, Steps, BrokerOK, BeforeCall,
     LiveOrders, DoubtOK

\* A reconciliation touches the status of rows that exist, never makes one look unsent,
\* and may close the canaries and the account; nothing else.
LEMMA ReconcileRows ==
  ASSUME IInv, ReconcileStep
  PROVE  /\ UNCHANGED <<confVars, boid, by, opened, usage, brokerVars, procVars>>
         /\ canary' \in {canary, 0} /\ synced' \in BOOLEAN
         /\ IntentTypeOK' /\ ReconTypeOK' /\ DoubtOK'
         /\ \A q \in Orders : intent'[q] = "NONE" <=> intent[q] = "NONE"
         /\ \A q \in Orders : intent[q] \notin {"NONE", "PENDING"} =>
                                 intent'[q] \notin {"NONE", "PENDING"}
<1> DEFINE Rows == /\ \A q \in Orders : intent'[q] = "NONE" <=> intent[q] = "NONE"
                   /\ \A q \in Orders : intent[q] \notin {"NONE", "PENDING"} =>
                                           intent'[q] \notin {"NONE", "PENDING"}
           Kept == UNCHANGED <<confVars, boid, by, opened, usage, brokerVars, procVars>>
           Closes == canary' \in {canary, 0} /\ synced' \in BOOLEAN
           Typed == IntentTypeOK' /\ ReconTypeOK' /\ DoubtOK'
<1>0. IntentTypeOK /\ CanaryTypeOK /\ BrokerTypeOK /\ ReconTypeOK /\ DoubtOK
  BY DEF IInv, TypeOK
<1>1. CASE UNCHANGED intentVars /\ ReconTypeOK' /\ DoubtOK' /\ Kept /\ Closes
  BY <1>0, <1>1 DEF IntentTypeOK, intentVars
<1>2. CASE ReconcileStart
  <2>1. ReconTypeOK' /\ DoubtOK'
    BY <1>0, <1>2, PlanAssumption DEF ReconcileStart, ReconTypeOK, DoubtOK, intentVars
  <2>2. Kept /\ Closes /\ UNCHANGED intentVars
    BY <1>0, <1>2 DEF ReconcileStart, intentVars, canaryVars, CanaryTypeOK
  <2>3. QED BY <1>1, <2>1, <2>2
<1>3. ASSUME NEW o \in Orders, PollOrder(o) PROVE Kept /\ Closes /\ Typed /\ Rows
  <2>1. PICK s \in {bstat[o], "SUBMITTED", "UNKNOWN"} \ {"NONE"} :
          intent' = [intent EXCEPT ![o] = SetStatus(@, s)]
    BY <1>3 DEF PollOrder
  <2>2. s \in Terminal \cup {"SUBMITTED", "UNKNOWN"}
    BY <1>0, <2>1 DEF BrokerTypeOK
  <2>3. intent[o] \in {"SUBMITTING", "SUBMITTED", "UNKNOWN"}
    BY <1>3 DEF PollOrder
  <2>4. Rows /\ intent' \in [Orders -> IntentStatus \cup {"NONE"}]
    BY <1>0, <2>1, <2>2, <2>3 DEF SetStatus, Terminal, IntentTypeOK, IntentStatus
  <2>5. UNCHANGED reconVars /\ UNCHANGED <<boid, by>>
    BY <1>3 DEF PollOrder
  <2>6. Typed
    BY <1>0, <2>4, <2>5 DEF IntentTypeOK, ReconTypeOK, DoubtOK, reconVars
  <2>7. Kept /\ Closes
    BY <1>0, <1>3 DEF PollOrder, canaryVars, CanaryTypeOK
  <2>8. QED BY <2>4, <2>6, <2>7
<1>4. ASSUME NEW plan \in Plans, ReconcileList(plan) PROVE Kept /\ Closes /\ Typed /\ Rows
  <2>1. doubted' \subseteq Existing(plan)
    BY <1>4 DEF ReconcileList, Doubtful, Asked
  <2>2. UNCHANGED <<intentVars, reconciled>> /\ reconciling' = "doubt"
    BY <1>4 DEF ReconcileList
  <2>3. differs' \in {"no", "LIVE", "PAPER"}
    BY <1>4 DEF ReconcileList
  <2>4. Typed
    BY <1>0, <2>1, <2>2, <2>3 DEF IntentTypeOK, ReconTypeOK, DoubtOK, Existing, OrdersOf, intentVars
  <2>5. Kept /\ Closes
    BY <1>0, <1>4 DEF ReconcileList, intentVars, canaryVars, CanaryTypeOK
  <2>6. QED BY <2>2, <2>4, <2>5 DEF intentVars
<1>5. ASSUME NEW o \in Orders, ReconcileDoubt(o) PROVE Kept /\ Closes /\ Typed /\ Rows
  <2>1. intent' = [intent EXCEPT ![o] = SetStatus(@, "UNKNOWN")] /\ intent[o] # "NONE"
    BY <1>0, <1>5 DEF ReconcileDoubt, DoubtOK
  <2>2. Rows /\ intent' \in [Orders -> IntentStatus \cup {"NONE"}]
    BY <1>0, <2>1 DEF SetStatus, Terminal, IntentTypeOK, IntentStatus
  <2>3. doubted' \subseteq doubted /\ UNCHANGED <<boid, by, reconciling, differs, reconciled>>
    BY <1>5 DEF ReconcileDoubt
  <2>4. Typed
    BY <1>0, <2>2, <2>3 DEF IntentTypeOK, ReconTypeOK, DoubtOK
  <2>5. Kept /\ Closes
    BY <1>0, <1>5 DEF ReconcileDoubt, canaryVars, CanaryTypeOK
  <2>6. QED BY <2>2, <2>4, <2>5
<1>6. CASE ReconcilePlanDone
  <2>1. UNCHANGED <<intentVars, doubted, reconciled>> /\ reconciling' = "list" /\ differs' = "no"
    BY <1>6 DEF ReconcilePlanDone
  <2>2. ReconTypeOK' /\ DoubtOK'
    BY <1>0, <2>1 DEF ReconTypeOK, DoubtOK, intentVars
  <2>3. Kept /\ Closes
    BY <1>0, <1>6 DEF ReconcilePlanDone, intentVars, CanaryTypeOK
  <2>4. QED BY <1>1, <2>1, <2>2, <2>3
<1>7. CASE ReconcileLeave
  <2>1. ReconTypeOK' /\ DoubtOK'
    BY <1>0, <1>7 DEF ReconcileLeave, ReconTypeOK, DoubtOK
  <2>2. Kept /\ Closes /\ UNCHANGED intentVars
    BY <1>0, <1>7 DEF ReconcileLeave, intentVars, canaryVars, CanaryTypeOK
  <2>3. QED BY <1>1, <2>1, <2>2
<1>8. QED
  BY <1>2, <1>3, <1>4, <1>5, <1>6, <1>7 DEF ReconcileStep

(***************************************************************************)
(* Each conjunct of the inductive invariant is kept by every action.       *)
(***************************************************************************)
\* Confirmations keep their type.
LEMMA ConfStep == ASSUME IInv, [Next]_vars PROVE ConfTypeOK'
<1>0. ASSUME ReconcileStep PROVE ConfTypeOK'
  BY <1>0, ReconcileRows DEF IInv, TypeOK, ConfTypeOK, confVars
<1> USE PlanAssumption DEF IInv, TypeOK, ConfTypeOK, ProcTypeOK, RunOK, ConfStatus,
      Procs, confVars
<1>1. ASSUME NEW c \in Confs, RequestConfirmation(c) PROVE ConfTypeOK'
  BY <1>1 DEF RequestConfirmation
<1>2. ASSUME NEW c \in Confs, ApproveCheck(c) PROVE ConfTypeOK'
  BY <1>2 DEF ApproveCheck
<1>3. ASSUME NEW c \in Confs, ApproveCommit(c) PROVE ConfTypeOK'
  <2>1. CASE conf[c] = "PENDING"
    BY <1>3, <2>1 DEF ApproveCommit
  <2>2. CASE conf[c] # "PENDING"
    BY <1>3, <2>2 DEF ApproveCommit
  <2>3. QED BY <2>1, <2>2
<1>4. ASSUME NEW c \in Confs, Reject(c) PROVE ConfTypeOK'
  BY <1>4 DEF Reject
<1>5. ASSUME NEW c \in Confs, CliCancel(c) PROVE ConfTypeOK'
  BY <1>5 DEF CliCancel
<1>6. ASSUME NEW c \in Confs, CliYesLive(c) PROVE ConfTypeOK'
  BY <1>6 DEF CliYesLive
<1>7. ASSUME NEW c \in Confs, CliYesPaper(c) PROVE ConfTypeOK'
  BY <1>7 DEF CliYesPaper
<1>8. ASSUME NEW c \in Confs, DaemonExecute(c) PROVE ConfTypeOK'
  BY <1>8 DEF DaemonExecute
<1>9. CASE CliRisk
  BY <1>9 DEF CliRisk, Finish, Goto
<1>10. CASE CliLoad
  BY <1>10 DEF CliLoad
<1>11. ASSUME NEW p \in Procs, Admit(p) PROVE ConfTypeOK'
  BY <1>11 DEF Admit, CanaryAfterRefusal, AfterExpiry, Finish, Goto
<1>12. ASSUME NEW p \in Procs, ConsumeLook(p) PROVE ConfTypeOK'
  BY <1>12 DEF ConsumeLook, Goto, Finish
<1>13. ASSUME NEW p \in Procs, ConsumeTxn(p) PROVE ConfTypeOK'
  <2>1. conf' = conf \/ conf' = [conf EXCEPT ![run[p]] = "CONSUMED"]
    BY <1>13 DEF ConsumeTxn
  <2>2. UNCHANGED <<channel, checked, prompt, lapsed>>
    BY <1>13 DEF ConsumeTxn
  <2>3. QED BY <2>1, <2>2
<1>14. ASSUME NEW p \in Procs, Recover(p) PROVE ConfTypeOK'
  BY <1>14 DEF Recover
<1>15. ASSUME NEW p \in Procs, Fetch(p) PROVE ConfTypeOK'
  BY <1>15 DEF Fetch, Finish, IsNext
<1>16. ASSUME NEW p \in Procs, Mark(p) PROVE ConfTypeOK'
  BY <1>16 DEF Mark, Goto, SetStatus
<1>17. ASSUME NEW p \in Procs, Gate(p) PROVE ConfTypeOK'
  BY <1>17 DEF Gate, Goto, GateOpen
<1>18. ASSUME NEW p \in Procs, Reserve(p) PROVE ConfTypeOK'
  BY <1>18 DEF Reserve, Goto, Reserved, CanaryHasRoom
<1>19. ASSUME NEW p \in Procs, Reread(p) PROVE ConfTypeOK'
  BY <1>19 DEF Reread, Goto
<1>20. ASSUME NEW p \in Procs, Send(p) PROVE ConfTypeOK'
  BY <1>20 DEF Send, Goto
<1>21. ASSUME NEW p \in Procs, Ack(p) PROVE ConfTypeOK'
  BY <1>21 DEF Ack, Goto, SetStatus
<1>22. ASSUME NEW p \in Procs, Drain(p) PROVE ConfTypeOK'
  BY <1>22 DEF Drain, Goto, SetStatus
<1>23. ASSUME NEW p \in Procs, Fail(p) PROVE ConfTypeOK'
  BY <1>23 DEF Fail, Goto, SetStatus
<1>24. ASSUME NEW p \in Procs, CloseCanary(p) PROVE ConfTypeOK'
  BY <1>24 DEF CloseCanary, Finish
<1>25. ASSUME NEW p \in Procs, Crash(p) PROVE ConfTypeOK'
  BY <1>25 DEF Crash, Finish
<1>26. ASSUME NEW o \in Orders, BrokerMoves(o) PROVE ConfTypeOK'
  BY <1>26 DEF BrokerMoves
<1>27. ASSUME NEW o \in Orders, BrokerPush(o) PROVE ConfTypeOK'
  BY <1>27 DEF BrokerPush
<1>28. CASE OpenCanary
  BY <1>28 DEF OpenCanary
<1>29. CASE AccountMoves
  BY <1>29 DEF AccountMoves
<1>30. ASSUME NEW x \in Lapsing, Lapse(x) PROVE ConfTypeOK'
  BY <1>30 DEF Lapse
<1>31. CASE UNCHANGED vars
  BY <1>31 DEF vars, confVars, intentVars, canaryVars, brokerVars, procVars
<1> HIDE DEF IInv, TypeOK, ConfTypeOK, ProcTypeOK, RunOK, ConfStatus, Procs, confVars
<1>32. QED
  BY <1>1, <1>2, <1>3, <1>4, <1>5, <1>6, <1>7, <1>8, <1>9, <1>10, <1>11, <1>12, <1>13, <1>14, <1>15, <1>16,
     <1>17, <1>18, <1>19, <1>20, <1>21, <1>22, <1>23, <1>24, <1>25, <1>26, <1>27, <1>28, <1>29, <1>30, <1>31, <1>0
  DEF Next, SubmitStep

\* Order rows keep their type.
LEMMA IntentStep == ASSUME IInv, [Next]_vars PROVE IntentTypeOK'
<1>0. ASSUME ReconcileStep PROVE IntentTypeOK'
  BY <1>0, ReconcileRows 
<1> USE PlanAssumption DEF IInv, TypeOK, ConfTypeOK, ProcTypeOK, IntentTypeOK,
      BrokerTypeOK, RunOK, IntentStatus, Terminal, Procs, intentVars
<1>1. ASSUME NEW c \in Confs, RequestConfirmation(c) PROVE IntentTypeOK'
  BY <1>1 DEF RequestConfirmation
<1>2. ASSUME NEW c \in Confs, ApproveCheck(c) PROVE IntentTypeOK'
  BY <1>2 DEF ApproveCheck
<1>3. ASSUME NEW c \in Confs, ApproveCommit(c) PROVE IntentTypeOK'
  BY <1>3 DEF ApproveCommit
<1>4. ASSUME NEW c \in Confs, Reject(c) PROVE IntentTypeOK'
  BY <1>4 DEF Reject
<1>5. ASSUME NEW c \in Confs, CliCancel(c) PROVE IntentTypeOK'
  BY <1>5 DEF CliCancel
<1>6. ASSUME NEW c \in Confs, CliYesLive(c) PROVE IntentTypeOK'
  BY <1>6 DEF CliYesLive
<1>7. ASSUME NEW c \in Confs, CliYesPaper(c) PROVE IntentTypeOK'
  BY <1>7 DEF CliYesPaper
<1>8. ASSUME NEW c \in Confs, DaemonExecute(c) PROVE IntentTypeOK'
  BY <1>8 DEF DaemonExecute
<1>9. CASE CliRisk
  BY <1>9 DEF CliRisk, Finish, Goto
<1>10. CASE CliLoad
  BY <1>10 DEF CliLoad
<1>11. ASSUME NEW p \in Procs, Admit(p) PROVE IntentTypeOK'
  BY <1>11 DEF Admit, CanaryAfterRefusal, AfterExpiry, Finish, Goto
<1>12. ASSUME NEW p \in Procs, ConsumeLook(p) PROVE IntentTypeOK'
  BY <1>12 DEF ConsumeLook, Goto, Finish
<1>13. ASSUME NEW p \in Procs, ConsumeTxn(p) PROVE IntentTypeOK'
  <2>1. run[p] \in Confs
    BY <1>13 DEF ConsumeTxn
  <2>2. CASE UNCHANGED <<intent, by>>
    BY <1>13, <2>2 DEF ConsumeTxn
  <2>3. CASE \E rows \in Inserted(run[p]) :
               /\ intent' = [o \in Orders |-> IF o \in rows THEN "PENDING" ELSE intent[o]]
               /\ by' = [o \in Orders |-> IF o \in rows THEN run[p] ELSE by[o]]
    BY <1>13, <2>1, <2>3 DEF ConsumeTxn
  <2>4. QED BY <1>13, <2>2, <2>3 DEF ConsumeTxn
<1>14. ASSUME NEW p \in Procs, Recover(p) PROVE IntentTypeOK'
  BY <1>14 DEF Recover
<1>15. ASSUME NEW p \in Procs, Fetch(p) PROVE IntentTypeOK'
  BY <1>15 DEF Fetch, Finish, IsNext
<1>16. ASSUME NEW p \in Procs, Mark(p) PROVE IntentTypeOK'
  BY <1>16 DEF Mark, Goto, SetStatus
<1>17. ASSUME NEW p \in Procs, Gate(p) PROVE IntentTypeOK'
  BY <1>17 DEF Gate, Goto, GateOpen
<1>18. ASSUME NEW p \in Procs, Reserve(p) PROVE IntentTypeOK'
  BY <1>18 DEF Reserve, Goto, Reserved, CanaryHasRoom
<1>19. ASSUME NEW p \in Procs, Reread(p) PROVE IntentTypeOK'
  BY <1>19 DEF Reread, Goto
<1>20. ASSUME NEW p \in Procs, Send(p) PROVE IntentTypeOK'
  BY <1>20 DEF Send, Goto
<1>21. ASSUME NEW p \in Procs, Ack(p) PROVE IntentTypeOK'
  BY <1>21 DEF Ack, Goto, SetStatus
<1>22. ASSUME NEW p \in Procs, Drain(p) PROVE IntentTypeOK'
  <2>1. CASE queue = <<>>
    BY <1>22, <2>1 DEF Drain
  <2>2. CASE queue # <<>>
    <3>1. Head(queue).status \in PushStatuses
      BY <2>2, QueueHead DEF Pushes
    <3>2. /\ intent' = [intent EXCEPT ![Head(queue).order] = SetStatus(@, Head(queue).status)]
          /\ boid' = [boid EXCEPT ![Head(queue).order] = TRUE]
          /\ by' = by
      BY <1>22, <2>2 DEF Drain
    <3>3. QED BY <3>1, <3>2 DEF SetStatus
  <2>3. QED BY <2>1, <2>2
<1>23. ASSUME NEW p \in Procs, Fail(p) PROVE IntentTypeOK'
  BY <1>23 DEF Fail, Goto, SetStatus
<1>24. ASSUME NEW p \in Procs, CloseCanary(p) PROVE IntentTypeOK'
  BY <1>24 DEF CloseCanary, Finish
<1>25. ASSUME NEW p \in Procs, Crash(p) PROVE IntentTypeOK'
  BY <1>25 DEF Crash, Finish
<1>26. ASSUME NEW o \in Orders, BrokerMoves(o) PROVE IntentTypeOK'
  BY <1>26 DEF BrokerMoves
<1>27. ASSUME NEW o \in Orders, BrokerPush(o) PROVE IntentTypeOK'
  BY <1>27 DEF BrokerPush
<1>28. CASE OpenCanary
  BY <1>28 DEF OpenCanary
<1>29. CASE AccountMoves
  BY <1>29 DEF AccountMoves
<1>30. ASSUME NEW x \in Lapsing, Lapse(x) PROVE IntentTypeOK'
  BY <1>30 DEF Lapse
<1>31. CASE UNCHANGED vars
  BY <1>31 DEF vars, confVars, intentVars, canaryVars, brokerVars, procVars
<1> HIDE DEF IInv, TypeOK, ConfTypeOK, ProcTypeOK, IntentTypeOK, BrokerTypeOK, RunOK,
      IntentStatus, Terminal, Procs, intentVars
<1>32. QED
  BY <1>1, <1>2, <1>3, <1>4, <1>5, <1>6, <1>7, <1>8, <1>9, <1>10, <1>11, <1>12, <1>13, <1>14, <1>15, <1>16,
     <1>17, <1>18, <1>19, <1>20, <1>21, <1>22, <1>23, <1>24, <1>25, <1>26, <1>27, <1>28, <1>29, <1>30, <1>31, <1>0
  DEF Next, SubmitStep

\* The canary, its reservations and the account keep their type.
LEMMA CanaryStep == ASSUME IInv, [Next]_vars PROVE CanaryTypeOK'
<1>0. ASSUME ReconcileStep PROVE CanaryTypeOK'
  BY <1>0, ReconcileRows, PlanAssumption DEF IInv, TypeOK, CanaryTypeOK
<1> USE PlanAssumption DEF IInv, TypeOK, ConfTypeOK, ProcTypeOK, CanaryTypeOK, RunOK,
      HoldsOrder, BeforeCall, OrdersOf, Procs, canaryVars
<1>1. ASSUME NEW c \in Confs, RequestConfirmation(c) PROVE CanaryTypeOK'
  BY <1>1 DEF RequestConfirmation
<1>2. ASSUME NEW c \in Confs, ApproveCheck(c) PROVE CanaryTypeOK'
  BY <1>2 DEF ApproveCheck
<1>3. ASSUME NEW c \in Confs, ApproveCommit(c) PROVE CanaryTypeOK'
  BY <1>3 DEF ApproveCommit
<1>4. ASSUME NEW c \in Confs, Reject(c) PROVE CanaryTypeOK'
  BY <1>4 DEF Reject
<1>5. ASSUME NEW c \in Confs, CliCancel(c) PROVE CanaryTypeOK'
  BY <1>5 DEF CliCancel
<1>6. ASSUME NEW c \in Confs, CliYesLive(c) PROVE CanaryTypeOK'
  BY <1>6 DEF CliYesLive
<1>7. ASSUME NEW c \in Confs, CliYesPaper(c) PROVE CanaryTypeOK'
  BY <1>7 DEF CliYesPaper
<1>8. ASSUME NEW c \in Confs, DaemonExecute(c) PROVE CanaryTypeOK'
  BY <1>8 DEF DaemonExecute
<1>9. CASE CliRisk
  BY <1>9 DEF CliRisk, Finish, Goto
<1>10. CASE CliLoad
  BY <1>10 DEF CliLoad
<1>11. ASSUME NEW p \in Procs, Admit(p) PROVE CanaryTypeOK'
  BY <1>11 DEF Admit, CanaryAfterRefusal, AfterExpiry, Finish, Goto
<1>12. ASSUME NEW p \in Procs, ConsumeLook(p) PROVE CanaryTypeOK'
  BY <1>12 DEF ConsumeLook, Goto, Finish
<1>13. ASSUME NEW p \in Procs, ConsumeTxn(p) PROVE CanaryTypeOK'
  BY <1>13 DEF ConsumeTxn, Goto, Finish, Existing, StillNew, Inserted
<1>14. ASSUME NEW p \in Procs, Recover(p) PROVE CanaryTypeOK'
  BY <1>14 DEF Recover
<1>15. ASSUME NEW p \in Procs, Fetch(p) PROVE CanaryTypeOK'
  BY <1>15 DEF Fetch, Finish, IsNext
<1>16. ASSUME NEW p \in Procs, Mark(p) PROVE CanaryTypeOK'
  BY <1>16 DEF Mark, Goto, SetStatus
<1>17. ASSUME NEW p \in Procs, Gate(p) PROVE CanaryTypeOK'
  BY <1>17 DEF Gate, Goto, GateOpen
<1>18. ASSUME NEW p \in Procs, Reserve(p) PROVE CanaryTypeOK'
  BY <1>18 DEF Reserve, Goto, Reserved, CanaryHasRoom
<1>19. ASSUME NEW p \in Procs, Reread(p) PROVE CanaryTypeOK'
  BY <1>19 DEF Reread, Goto
<1>20. ASSUME NEW p \in Procs, Send(p) PROVE CanaryTypeOK'
  BY <1>20 DEF Send, Goto
<1>21. ASSUME NEW p \in Procs, Ack(p) PROVE CanaryTypeOK'
  BY <1>21 DEF Ack, Goto, SetStatus
<1>22. ASSUME NEW p \in Procs, Drain(p) PROVE CanaryTypeOK'
  BY <1>22 DEF Drain, Goto, SetStatus
<1>23. ASSUME NEW p \in Procs, Fail(p) PROVE CanaryTypeOK'
  BY <1>23 DEF Fail, Goto, SetStatus
<1>24. ASSUME NEW p \in Procs, CloseCanary(p) PROVE CanaryTypeOK'
  BY <1>24 DEF CloseCanary, Finish
<1>25. ASSUME NEW p \in Procs, Crash(p) PROVE CanaryTypeOK'
  BY <1>25 DEF Crash, Finish
<1>26. ASSUME NEW o \in Orders, BrokerMoves(o) PROVE CanaryTypeOK'
  BY <1>26 DEF BrokerMoves
<1>27. ASSUME NEW o \in Orders, BrokerPush(o) PROVE CanaryTypeOK'
  BY <1>27 DEF BrokerPush
<1>28. CASE OpenCanary
  BY <1>28 DEF OpenCanary
<1>29. CASE AccountMoves
  BY <1>29 DEF AccountMoves
<1>30. ASSUME NEW x \in Lapsing, Lapse(x) PROVE CanaryTypeOK'
  BY <1>30 DEF Lapse
<1>31. CASE UNCHANGED vars
  BY <1>31 DEF vars, confVars, intentVars, canaryVars, brokerVars, procVars
<1> HIDE DEF IInv, TypeOK, ConfTypeOK, ProcTypeOK, CanaryTypeOK, RunOK, HoldsOrder,
      BeforeCall, OrdersOf, Procs, canaryVars
<1>32. QED
  BY <1>1, <1>2, <1>3, <1>4, <1>5, <1>6, <1>7, <1>8, <1>9, <1>10, <1>11, <1>12, <1>13, <1>14, <1>15, <1>16,
     <1>17, <1>18, <1>19, <1>20, <1>21, <1>22, <1>23, <1>24, <1>25, <1>26, <1>27, <1>28, <1>29, <1>30, <1>31, <1>0
  DEF Next, SubmitStep

\* The broker side keeps its type.
LEMMA BrokerTypeStep == ASSUME IInv, [Next]_vars PROVE BrokerTypeOK'
<1>0. ASSUME ReconcileStep PROVE BrokerTypeOK'
  BY <1>0, ReconcileRows DEF IInv, TypeOK, BrokerTypeOK, brokerVars
<1> USE PlanAssumption DEF IInv, TypeOK, ConfTypeOK, ProcTypeOK, BrokerTypeOK, Terminal,
      Procs, brokerVars
<1>1. ASSUME NEW c \in Confs, RequestConfirmation(c) PROVE BrokerTypeOK'
  BY <1>1 DEF RequestConfirmation
<1>2. ASSUME NEW c \in Confs, ApproveCheck(c) PROVE BrokerTypeOK'
  BY <1>2 DEF ApproveCheck
<1>3. ASSUME NEW c \in Confs, ApproveCommit(c) PROVE BrokerTypeOK'
  BY <1>3 DEF ApproveCommit
<1>4. ASSUME NEW c \in Confs, Reject(c) PROVE BrokerTypeOK'
  BY <1>4 DEF Reject
<1>5. ASSUME NEW c \in Confs, CliCancel(c) PROVE BrokerTypeOK'
  BY <1>5 DEF CliCancel
<1>6. ASSUME NEW c \in Confs, CliYesLive(c) PROVE BrokerTypeOK'
  BY <1>6 DEF CliYesLive
<1>7. ASSUME NEW c \in Confs, CliYesPaper(c) PROVE BrokerTypeOK'
  BY <1>7 DEF CliYesPaper
<1>8. ASSUME NEW c \in Confs, DaemonExecute(c) PROVE BrokerTypeOK'
  BY <1>8 DEF DaemonExecute
<1>9. CASE CliRisk
  BY <1>9 DEF CliRisk, Finish, Goto
<1>10. CASE CliLoad
  BY <1>10 DEF CliLoad
<1>11. ASSUME NEW p \in Procs, Admit(p) PROVE BrokerTypeOK'
  BY <1>11 DEF Admit, CanaryAfterRefusal, AfterExpiry, Finish, Goto
<1>12. ASSUME NEW p \in Procs, ConsumeLook(p) PROVE BrokerTypeOK'
  BY <1>12 DEF ConsumeLook, Goto, Finish
<1>13. ASSUME NEW p \in Procs, ConsumeTxn(p) PROVE BrokerTypeOK'
  BY <1>13 DEF ConsumeTxn, Goto, Finish, Existing, StillNew, Inserted
<1>14. ASSUME NEW p \in Procs, Recover(p) PROVE BrokerTypeOK'
  BY <1>14 DEF Recover
<1>15. ASSUME NEW p \in Procs, Fetch(p) PROVE BrokerTypeOK'
  BY <1>15 DEF Fetch, Finish, IsNext
<1>16. ASSUME NEW p \in Procs, Mark(p) PROVE BrokerTypeOK'
  BY <1>16 DEF Mark, Goto, SetStatus
<1>17. ASSUME NEW p \in Procs, Gate(p) PROVE BrokerTypeOK'
  BY <1>17 DEF Gate, Goto, GateOpen
<1>18. ASSUME NEW p \in Procs, Reserve(p) PROVE BrokerTypeOK'
  BY <1>18 DEF Reserve, Goto, Reserved, CanaryHasRoom
<1>19. ASSUME NEW p \in Procs, Reread(p) PROVE BrokerTypeOK'
  BY <1>19 DEF Reread, Goto
<1>20. ASSUME NEW p \in Procs, Send(p) PROVE BrokerTypeOK'
  <2>1. calls' = calls \/ calls' = [calls EXCEPT ![cur[p]] = @ + 1]
    BY <1>20 DEF Send
  <2>2. bstat' = bstat \/ bstat' = [bstat EXCEPT ![cur[p]] = "SUBMITTED"]
    BY <1>20 DEF Send
  <2>3. UNCHANGED <<queue, pushed>>
    BY <1>20 DEF Send
  <2>0. cur[p] \in Orders
    BY <1>20 DEF Send, RunOK, HoldsOrder, BeforeCall, OrdersOf
  <2>4. calls' \in [Orders -> Nat]
    BY <2>1, <2>0
  <2>5. bstat' \in [Orders -> Terminal \cup {"NONE", "SUBMITTED"}]
    BY <2>2, <2>0
  <2>6. QED BY <2>3, <2>4, <2>5
<1>21. ASSUME NEW p \in Procs, Ack(p) PROVE BrokerTypeOK'
  BY <1>21 DEF Ack, Goto, SetStatus
<1>22. ASSUME NEW p \in Procs, Drain(p) PROVE BrokerTypeOK'
  <2>1. queue' \in Seq(Pushes)
    BY <1>22, QueueHead DEF Drain
  <2>2. QED BY <1>22, <2>1 DEF Drain
<1>23. ASSUME NEW p \in Procs, Fail(p) PROVE BrokerTypeOK'
  BY <1>23 DEF Fail, Goto, SetStatus
<1>24. ASSUME NEW p \in Procs, CloseCanary(p) PROVE BrokerTypeOK'
  BY <1>24 DEF CloseCanary, Finish
<1>25. ASSUME NEW p \in Procs, Crash(p) PROVE BrokerTypeOK'
  <2>1. queue' = queue \/ queue' = <<>>
    BY <1>25 DEF Crash
  <2>2. queue' \in Seq(Pushes)
    BY <2>1, EmptyQueue
  <2>3. QED BY <1>25, <2>2 DEF Crash
<1>26. ASSUME NEW o \in Orders, BrokerMoves(o) PROVE BrokerTypeOK'
  <2>1. PICK s \in Terminal : bstat' = [bstat EXCEPT ![o] = s]
    BY <1>26 DEF BrokerMoves
  <2>2. bstat' \in [Orders -> Terminal \cup {"NONE", "SUBMITTED"}]
    BY <2>1
  <2>3. QED BY <1>26, <2>2 DEF BrokerMoves
<1>27. ASSUME NEW o \in Orders, BrokerPush(o) PROVE BrokerTypeOK'
  <2>1. PICK s \in PushStatuses : queue' = Append(queue, [order |-> o, status |-> s])
    BY <1>27 DEF BrokerPush
  <2>2. [order |-> o, status |-> s] \in Pushes
    BY DEF Pushes
  <2>3. queue' \in Seq(Pushes)
    BY <2>1, <2>2
  <2>4. QED BY <1>27, <2>3 DEF BrokerPush
<1>28. CASE OpenCanary
  BY <1>28 DEF OpenCanary
<1>29. CASE AccountMoves
  BY <1>29 DEF AccountMoves
<1>30. ASSUME NEW x \in Lapsing, Lapse(x) PROVE BrokerTypeOK'
  BY <1>30 DEF Lapse
<1>31. CASE UNCHANGED vars
  BY <1>31 DEF vars, confVars, intentVars, canaryVars, brokerVars, procVars
<1> HIDE DEF IInv, TypeOK, ConfTypeOK, ProcTypeOK, BrokerTypeOK, Terminal, Procs,
      brokerVars
<1>32. QED
  BY <1>1, <1>2, <1>3, <1>4, <1>5, <1>6, <1>7, <1>8, <1>9, <1>10, <1>11, <1>12, <1>13, <1>14, <1>15, <1>16,
     <1>17, <1>18, <1>19, <1>20, <1>21, <1>22, <1>23, <1>24, <1>25, <1>26, <1>27, <1>28, <1>29, <1>30, <1>31, <1>0
  DEF Next, SubmitStep

\* The processes keep their type.
LEMMA ProcStep == ASSUME IInv, [Next]_vars PROVE ProcTypeOK'
<1>0. ASSUME ReconcileStep PROVE ProcTypeOK'
  BY <1>0, ReconcileRows DEF IInv, TypeOK, ProcTypeOK, procVars
<1> USE PlanAssumption DEF IInv, TypeOK, ConfTypeOK, ProcTypeOK, OrdersOf, Procs, Steps,
      procVars
<1>1. ASSUME NEW c \in Confs, RequestConfirmation(c) PROVE ProcTypeOK'
  BY <1>1 DEF RequestConfirmation
<1>2. ASSUME NEW c \in Confs, ApproveCheck(c) PROVE ProcTypeOK'
  BY <1>2 DEF ApproveCheck
<1>3. ASSUME NEW c \in Confs, ApproveCommit(c) PROVE ProcTypeOK'
  BY <1>3 DEF ApproveCommit
<1>4. ASSUME NEW c \in Confs, Reject(c) PROVE ProcTypeOK'
  BY <1>4 DEF Reject
<1>5. ASSUME NEW c \in Confs, CliCancel(c) PROVE ProcTypeOK'
  BY <1>5 DEF CliCancel
<1>6. ASSUME NEW c \in Confs, CliYesLive(c) PROVE ProcTypeOK'
  BY <1>6 DEF CliYesLive
<1>7. ASSUME NEW c \in Confs, CliYesPaper(c) PROVE ProcTypeOK'
  BY <1>7 DEF CliYesPaper
<1>8. ASSUME NEW c \in Confs, DaemonExecute(c) PROVE ProcTypeOK'
  <2>1. pc' = [pc EXCEPT !["daemon"] = "admit"] /\ run' = [run EXCEPT !["daemon"] = c]
    BY <1>8 DEF DaemonExecute
  <2>2. seen' = [seen EXCEPT !["daemon"] = synced] /\ synced \in BOOLEAN
    BY <1>8 DEF DaemonExecute, CanaryTypeOK
  <2>3. QED BY <1>8, <2>1, <2>2 DEF DaemonExecute
<1>9. CASE CliRisk
  <2>1. CASE Finish("cli")
    BY <2>1, FinishType
  <2>2. CASE \E step \in Steps : Goto("cli", step)
    BY <2>2, GotoType
  <2>3. QED BY <1>9, <2>1, <2>2 DEF CliRisk, Steps
<1>10. CASE CliLoad
  <2>1. pc' = [pc EXCEPT !["cli"] = "admit"] /\ seen' = [seen EXCEPT !["cli"] = synced]
    BY <1>10 DEF CliLoad
  <2>2. synced \in BOOLEAN
    BY DEF CanaryTypeOK
  <2>3. QED BY <1>10, <2>1, <2>2 DEF CliLoad
<1>11. ASSUME NEW p \in Procs, Admit(p) PROVE ProcTypeOK'
  <2>1. CASE Finish(p)
    BY <2>1, FinishType
  <2>2. CASE \E step \in Steps : Goto(p, step)
    BY <2>2, GotoType
  <2>3. QED BY <1>11, <2>1, <2>2 DEF Admit, Steps
<1>12. ASSUME NEW p \in Procs, ConsumeLook(p) PROVE ProcTypeOK'
  <2>1. CASE Finish(p)
    BY <2>1, FinishType
  <2>2. CASE \E step \in Steps : Goto(p, step)
    BY <2>2, GotoType
  <2>3. QED BY <1>12, <2>1, <2>2 DEF ConsumeLook, Steps
<1>13. ASSUME NEW p \in Procs, ConsumeTxn(p) PROVE ProcTypeOK'
  <2>1. CASE Finish(p)
    BY <2>1, FinishType
  <2>2. CASE \E step \in Steps : Goto(p, step)
    BY <2>2, GotoType
  <2>3. QED BY <1>13, <2>1, <2>2 DEF ConsumeTxn, Steps
<1>14. ASSUME NEW p \in Procs, Recover(p) PROVE ProcTypeOK'
  BY <1>14 DEF Recover
<1>15. ASSUME NEW p \in Procs, Fetch(p) PROVE ProcTypeOK'
  <2>1. CASE Finish(p)
    BY <2>1, FinishType
  <2>2. CASE todo[p] # {}
    <3>1. PICK o \in Orders :
            /\ todo' = [todo EXCEPT ![p] = @ \ {o}]
            /\ IF intent[o] = "PENDING"
               THEN pc' = [pc EXCEPT ![p] = "mark"] /\ cur' = [cur EXCEPT ![p] = o]
               ELSE UNCHANGED <<pc, cur>>
            /\ UNCHANGED <<run, seen>>
      BY <1>15, <2>2 DEF Fetch
    <3>2. QED BY <3>1
  <2>3. QED BY <1>15, <2>1, <2>2 DEF Fetch
<1>16. ASSUME NEW p \in Procs, Mark(p) PROVE ProcTypeOK'
  BY <1>16 DEF Mark, Goto, SetStatus
<1>17. ASSUME NEW p \in Procs, Gate(p) PROVE ProcTypeOK'
  BY <1>17 DEF Gate, Goto, GateOpen
<1>18. ASSUME NEW p \in Procs, Reserve(p) PROVE ProcTypeOK'
  BY <1>18 DEF Reserve, Goto, Reserved, CanaryHasRoom
<1>19. ASSUME NEW p \in Procs, Reread(p) PROVE ProcTypeOK'
  BY <1>19 DEF Reread, Goto
<1>20. ASSUME NEW p \in Procs, Send(p) PROVE ProcTypeOK'
  BY <1>20 DEF Send, Goto
<1>21. ASSUME NEW p \in Procs, Ack(p) PROVE ProcTypeOK'
  BY <1>21 DEF Ack, Goto, SetStatus
<1>22. ASSUME NEW p \in Procs, Drain(p) PROVE ProcTypeOK'
  BY <1>22 DEF Drain, Goto, SetStatus
<1>23. ASSUME NEW p \in Procs, Fail(p) PROVE ProcTypeOK'
  BY <1>23 DEF Fail, Goto, SetStatus
<1>24. ASSUME NEW p \in Procs, CloseCanary(p) PROVE ProcTypeOK'
  BY <1>24 DEF CloseCanary, Finish
<1>25. ASSUME NEW p \in Procs, Crash(p) PROVE ProcTypeOK'
  BY <1>25 DEF Crash, Finish
<1>26. ASSUME NEW o \in Orders, BrokerMoves(o) PROVE ProcTypeOK'
  BY <1>26 DEF BrokerMoves
<1>27. ASSUME NEW o \in Orders, BrokerPush(o) PROVE ProcTypeOK'
  BY <1>27 DEF BrokerPush
<1>28. CASE OpenCanary
  BY <1>28 DEF OpenCanary
<1>29. CASE AccountMoves
  BY <1>29 DEF AccountMoves
<1>30. ASSUME NEW x \in Lapsing, Lapse(x) PROVE ProcTypeOK'
  BY <1>30 DEF Lapse
<1>31. CASE UNCHANGED vars
  BY <1>31 DEF vars, confVars, intentVars, canaryVars, brokerVars, procVars
<1> HIDE DEF IInv, TypeOK, ConfTypeOK, ProcTypeOK, OrdersOf, Procs, Steps, procVars
<1>32. QED
  BY <1>1, <1>2, <1>3, <1>4, <1>5, <1>6, <1>7, <1>8, <1>9, <1>10, <1>11, <1>12, <1>13, <1>14, <1>15, <1>16,
     <1>17, <1>18, <1>19, <1>20, <1>21, <1>22, <1>23, <1>24, <1>25, <1>26, <1>27, <1>28, <1>29, <1>30, <1>31, <1>0
  DEF Next, SubmitStep

\* Every process inside a submit call is entitled to it.
LEMMA RunStep == ASSUME IInv, [Next]_vars PROVE \A q \in Procs : (IF pc[q] = "idle" THEN todo[q] = {} ELSE RunOK(q))'
<1>0. ASSUME ReconcileStep PROVE \A q \in Procs : (IF pc[q] = "idle" THEN todo[q] = {} ELSE RunOK(q))'
  <2>1. UNCHANGED <<conf, channel, procVars>> /\ \A q \in Orders : intent[q] # "NONE" => intent'[q] # "NONE"
    BY <1>0, ReconcileRows DEF confVars
  <2>2. QED
    BY <2>1 DEF IInv, RunOK, PlanRun, IsLive, OrdersOf, HoldsOrder, BeforeCall, procVars
<1> USE PlanAssumption DEF IInv, TypeOK, ConfTypeOK, ProcTypeOK, RunOK, BeforeCall,
      HoldsOrder, PlanRun, IsLive, OrdersOf, Procs, IntentTypeOK, Terminal, confVars,
      intentVars, procVars
<1>1. ASSUME NEW c \in Confs, RequestConfirmation(c) PROVE \A q \in Procs : (IF pc[q] = "idle" THEN todo[q] = {} ELSE RunOK(q))'
  BY <1>1 DEF RequestConfirmation
<1>2. ASSUME NEW c \in Confs, ApproveCheck(c) PROVE \A q \in Procs : (IF pc[q] = "idle" THEN todo[q] = {} ELSE RunOK(q))'
  BY <1>2 DEF ApproveCheck
<1>3. ASSUME NEW c \in Confs, ApproveCommit(c) PROVE \A q \in Procs : (IF pc[q] = "idle" THEN todo[q] = {} ELSE RunOK(q))'
  BY <1>3 DEF ApproveCommit
<1>4. ASSUME NEW c \in Confs, Reject(c) PROVE \A q \in Procs : (IF pc[q] = "idle" THEN todo[q] = {} ELSE RunOK(q))'
  BY <1>4 DEF Reject
<1>5. ASSUME NEW c \in Confs, CliCancel(c) PROVE \A q \in Procs : (IF pc[q] = "idle" THEN todo[q] = {} ELSE RunOK(q))'
  BY <1>5 DEF CliCancel
<1>6. ASSUME NEW c \in Confs, CliYesLive(c) PROVE \A q \in Procs : (IF pc[q] = "idle" THEN todo[q] = {} ELSE RunOK(q))'
  BY <1>6 DEF CliYesLive
<1>7. ASSUME NEW c \in Confs, CliYesPaper(c) PROVE \A q \in Procs : (IF pc[q] = "idle" THEN todo[q] = {} ELSE RunOK(q))'
  <2>1. conf'[c] = "APPROVED" /\ run'["cli"] = c /\ todo' = todo /\ pc'["cli"] = "risk"
    BY <1>7 DEF CliYesPaper
  <2>2. todo["cli"] = {}
    BY <1>7 DEF CliYesPaper
  <2>3. RunOK("cli")'
    BY <1>7, <2>1, <2>2 DEF CliYesPaper
  <2>4. (IF pc["daemon"] = "idle" THEN todo["daemon"] = {} ELSE RunOK("daemon"))'
    BY <1>7 DEF CliYesPaper
  <2>5. QED BY <2>1, <2>3, <2>4
<1>8. ASSUME NEW c \in Confs, DaemonExecute(c) PROVE \A q \in Procs : (IF pc[q] = "idle" THEN todo[q] = {} ELSE RunOK(q))'
  <2>1. todo["daemon"] = {} /\ pc'["daemon"] = "admit"
    BY <1>8 DEF DaemonExecute, DaemonFree
  <2>2. RunOK("daemon")'
    BY <1>8, <2>1 DEF DaemonExecute
  <2>3. (IF pc["cli"] = "idle" THEN todo["cli"] = {} ELSE RunOK("cli"))'
    BY <1>8 DEF DaemonExecute
  <2>4. QED BY <2>1, <2>2, <2>3
<1>9. CASE CliRisk
  BY <1>9 DEF CliRisk, Finish, Goto
<1>10. CASE CliLoad
  BY <1>10 DEF CliLoad
<1>11. ASSUME NEW p \in Procs, Admit(p) PROVE \A q \in Procs : (IF pc[q] = "idle" THEN todo[q] = {} ELSE RunOK(q))'
  BY <1>11 DEF Admit, CanaryAfterRefusal, AfterExpiry, Finish, Goto
<1>12. ASSUME NEW p \in Procs, ConsumeLook(p) PROVE \A q \in Procs : (IF pc[q] = "idle" THEN todo[q] = {} ELSE RunOK(q))'
  BY <1>12 DEF ConsumeLook, Goto, Finish
<1>13. ASSUME NEW p \in Procs, ConsumeTxn(p) PROVE \A q \in Procs : (IF pc[q] = "idle" THEN todo[q] = {} ELSE RunOK(q))'
  BY <1>13 DEF ConsumeTxn, Goto, Finish, Existing, StillNew, Inserted
<1>14. ASSUME NEW p \in Procs, Recover(p) PROVE \A q \in Procs : (IF pc[q] = "idle" THEN todo[q] = {} ELSE RunOK(q))'
  BY <1>14 DEF Recover
<1>15. ASSUME NEW p \in Procs, Fetch(p) PROVE \A q \in Procs : (IF pc[q] = "idle" THEN todo[q] = {} ELSE RunOK(q))'
  BY <1>15 DEF Fetch, Finish, IsNext
<1>16. ASSUME NEW p \in Procs, Mark(p) PROVE \A q \in Procs : (IF pc[q] = "idle" THEN todo[q] = {} ELSE RunOK(q))'
  BY <1>16 DEF Mark, Goto, SetStatus
<1>17. ASSUME NEW p \in Procs, Gate(p) PROVE \A q \in Procs : (IF pc[q] = "idle" THEN todo[q] = {} ELSE RunOK(q))'
  BY <1>17 DEF Gate, Goto, GateOpen
<1>18. ASSUME NEW p \in Procs, Reserve(p) PROVE \A q \in Procs : (IF pc[q] = "idle" THEN todo[q] = {} ELSE RunOK(q))'
  BY <1>18 DEF Reserve, Goto, Reserved, CanaryHasRoom
<1>19. ASSUME NEW p \in Procs, Reread(p) PROVE \A q \in Procs : (IF pc[q] = "idle" THEN todo[q] = {} ELSE RunOK(q))'
  BY <1>19 DEF Reread, Goto
<1>20. ASSUME NEW p \in Procs, Send(p) PROVE \A q \in Procs : (IF pc[q] = "idle" THEN todo[q] = {} ELSE RunOK(q))'
  BY <1>20 DEF Send, Goto
<1>21. ASSUME NEW p \in Procs, Ack(p) PROVE \A q \in Procs : (IF pc[q] = "idle" THEN todo[q] = {} ELSE RunOK(q))'
  BY <1>21 DEF Ack, Goto, SetStatus
<1>22. ASSUME NEW p \in Procs, Drain(p) PROVE \A q \in Procs : (IF pc[q] = "idle" THEN todo[q] = {} ELSE RunOK(q))'
  <2>1. UNCHANGED <<conf, channel, run, todo, cur>>
    BY <1>22 DEF Drain, Goto
  <2>2. \A q \in Procs : pc'[q] = pc[q] \/ (q = p /\ pc'[q] = "next")
    BY <1>22 DEF Drain, Goto
  <2>3. pc[p] = "drain"
    BY <1>22 DEF Drain
  <2>4. \A q \in Orders : intent[q] # "NONE" => intent'[q] # "NONE"
    BY <1>22, DrainRows
  <2>5. QED BY <2>1, <2>2, <2>3, <2>4
<1>23. ASSUME NEW p \in Procs, Fail(p) PROVE \A q \in Procs : (IF pc[q] = "idle" THEN todo[q] = {} ELSE RunOK(q))'
  BY <1>23 DEF Fail, Goto, SetStatus
<1>24. ASSUME NEW p \in Procs, CloseCanary(p) PROVE \A q \in Procs : (IF pc[q] = "idle" THEN todo[q] = {} ELSE RunOK(q))'
  BY <1>24 DEF CloseCanary, Finish
<1>25. ASSUME NEW p \in Procs, Crash(p) PROVE \A q \in Procs : (IF pc[q] = "idle" THEN todo[q] = {} ELSE RunOK(q))'
  BY <1>25 DEF Crash, Finish
<1>26. ASSUME NEW o \in Orders, BrokerMoves(o) PROVE \A q \in Procs : (IF pc[q] = "idle" THEN todo[q] = {} ELSE RunOK(q))'
  BY <1>26 DEF BrokerMoves
<1>27. ASSUME NEW o \in Orders, BrokerPush(o) PROVE \A q \in Procs : (IF pc[q] = "idle" THEN todo[q] = {} ELSE RunOK(q))'
  BY <1>27 DEF BrokerPush
<1>28. CASE OpenCanary
  BY <1>28 DEF OpenCanary
<1>29. CASE AccountMoves
  BY <1>29 DEF AccountMoves
<1>30. ASSUME NEW x \in Lapsing, Lapse(x) PROVE \A q \in Procs : (IF pc[q] = "idle" THEN todo[q] = {} ELSE RunOK(q))'
  BY <1>30 DEF Lapse
<1>31. CASE UNCHANGED vars
  BY <1>31 DEF vars, confVars, intentVars, canaryVars, brokerVars, procVars
<1> HIDE DEF IInv, TypeOK, ConfTypeOK, ProcTypeOK, RunOK, BeforeCall, HoldsOrder,
      PlanRun, IsLive, OrdersOf, Procs, IntentTypeOK, Terminal, confVars, intentVars,
      procVars
<1>32. QED
  BY <1>1, <1>2, <1>3, <1>4, <1>5, <1>6, <1>7, <1>8, <1>9, <1>10, <1>11, <1>12, <1>13, <1>14, <1>15, <1>16,
     <1>17, <1>18, <1>19, <1>20, <1>21, <1>22, <1>23, <1>24, <1>25, <1>26, <1>27, <1>28, <1>29, <1>30, <1>31, <1>0
  DEF Next, SubmitStep

\* A LIVE order in the submit loop is unsent and its row is up to date.
LEMMA ReadyStep == ASSUME IInv, [Next]_vars PROVE \A q \in Procs : (pc[q] \in BeforeCall /\ IsLive(q))' => ReadyOK(q)'
<1>0. ASSUME ReconcileStep PROVE \A q \in Procs : (pc[q] \in BeforeCall /\ IsLive(q))' => ReadyOK(q)'
  <2>1. /\ UNCHANGED <<by, usage, brokerVars, procVars>>
        /\ \A q \in Orders : intent[q] \notin {"NONE", "PENDING"} => intent'[q] \notin {"NONE", "PENDING"}
    BY <1>0, ReconcileRows
  <2>2. \A q \in Procs : pc[q] \in BeforeCall => cur[q] \in Orders
    BY DEF IInv, RunOK, OrdersOf, HoldsOrder, BeforeCall
  <2>3. QED
    BY <2>1, <2>2 DEF IInv, ReadyOK, PlanRun, IsLive, BeforeCall, brokerVars, procVars
<1> USE PlanAssumption DEF IInv, TypeOK, ConfTypeOK, ProcTypeOK, RunOK, BeforeCall,
      HoldsOrder, PlanRun, IsLive, OrdersOf, Procs, ReadyOK, CalledOK, IntentTypeOK,
      BrokerTypeOK, IntentStatus, Terminal, LiveOrders, ConfStatus, Steps, confVars,
      intentVars, canaryVars, brokerVars, procVars
<1>1. ASSUME NEW c \in Confs, RequestConfirmation(c) PROVE \A q \in Procs : (pc[q] \in BeforeCall /\ IsLive(q))' => ReadyOK(q)'
  BY <1>1 DEF RequestConfirmation
<1>2. ASSUME NEW c \in Confs, ApproveCheck(c) PROVE \A q \in Procs : (pc[q] \in BeforeCall /\ IsLive(q))' => ReadyOK(q)'
  BY <1>2 DEF ApproveCheck
<1>3. ASSUME NEW c \in Confs, ApproveCommit(c) PROVE \A q \in Procs : (pc[q] \in BeforeCall /\ IsLive(q))' => ReadyOK(q)'
  BY <1>3 DEF ApproveCommit
<1>4. ASSUME NEW c \in Confs, Reject(c) PROVE \A q \in Procs : (pc[q] \in BeforeCall /\ IsLive(q))' => ReadyOK(q)'
  BY <1>4 DEF Reject
<1>5. ASSUME NEW c \in Confs, CliCancel(c) PROVE \A q \in Procs : (pc[q] \in BeforeCall /\ IsLive(q))' => ReadyOK(q)'
  BY <1>5 DEF CliCancel
<1>6. ASSUME NEW c \in Confs, CliYesLive(c) PROVE \A q \in Procs : (pc[q] \in BeforeCall /\ IsLive(q))' => ReadyOK(q)'
  BY <1>6 DEF CliYesLive
<1>7. ASSUME NEW c \in Confs, CliYesPaper(c) PROVE \A q \in Procs : (pc[q] \in BeforeCall /\ IsLive(q))' => ReadyOK(q)'
  BY <1>7 DEF CliYesPaper
<1>8. ASSUME NEW c \in Confs, DaemonExecute(c) PROVE \A q \in Procs : (pc[q] \in BeforeCall /\ IsLive(q))' => ReadyOK(q)'
  BY <1>8 DEF DaemonExecute
<1>9. CASE CliRisk
  BY <1>9 DEF CliRisk, Finish, Goto
<1>10. CASE CliLoad
  BY <1>10 DEF CliLoad
<1>11. ASSUME NEW p \in Procs, Admit(p) PROVE \A q \in Procs : (pc[q] \in BeforeCall /\ IsLive(q))' => ReadyOK(q)'
  BY <1>11 DEF Admit, CanaryAfterRefusal, AfterExpiry, Finish, Goto
<1>12. ASSUME NEW p \in Procs, ConsumeLook(p) PROVE \A q \in Procs : (pc[q] \in BeforeCall /\ IsLive(q))' => ReadyOK(q)'
  BY <1>12 DEF ConsumeLook, Goto, Finish
<1>13. ASSUME NEW p \in Procs, ConsumeTxn(p) PROVE \A q \in Procs : (pc[q] \in BeforeCall /\ IsLive(q))' => ReadyOK(q)'
  <2>1. UNCHANGED <<canaryVars, brokerVars>>
    BY <1>13 DEF ConsumeTxn
  <2>2. ASSUME NEW q \in Procs, pc'[q] \in BeforeCall
        PROVE  q # p /\ pc'[q] = pc[q] /\ run'[q] = run[q] /\ cur'[q] = cur[q]
    BY <1>13, <2>2 DEF ConsumeTxn, Goto, Finish
  <2>3. ASSUME NEW q \in Procs, q # p, pc[q] \in BeforeCall, IsLive(q)
        PROVE  cur[q] \in Orders /\ intent'[cur[q]] = intent[cur[q]] /\ by'[cur[q]] = by[cur[q]]
    <3>1. ~IsLive(p)
      BY <1>13, <2>3 DEF ConsumeTxn
    <3>2. cur[q] \in Orders /\ cur[q] \notin OrdersOf(PlanRun(p))
      BY <2>3, <3>1
    <3>3. QED BY <1>13, <3>2 DEF ConsumeTxn, Inserted
  <2>4. ASSUME NEW q \in Procs, (pc[q] \in BeforeCall /\ IsLive(q))'
        PROVE  ReadyOK(q)'
    <3>1. pc[q] \in BeforeCall /\ IsLive(q) /\ q # p /\ pc'[q] = pc[q] /\ run'[q] = run[q] /\ cur'[q] = cur[q]
      BY <1>13, <2>2, <2>4 DEF ConsumeTxn, Goto, Finish
    <3>2. QED BY <2>1, <2>3, <3>1
  <2>5. QED BY <2>4
<1>14. ASSUME NEW p \in Procs, Recover(p) PROVE \A q \in Procs : (pc[q] \in BeforeCall /\ IsLive(q))' => ReadyOK(q)'
  BY <1>14 DEF Recover
<1>15. ASSUME NEW p \in Procs, Fetch(p) PROVE \A q \in Procs : (pc[q] \in BeforeCall /\ IsLive(q))' => ReadyOK(q)'
  <2>1. UNCHANGED <<confVars, intentVars, canaryVars, brokerVars>>
    BY <1>15 DEF Fetch
  <2>2. \A q \in Procs : q # p => pc'[q] = pc[q] /\ run'[q] = run[q] /\ cur'[q] = cur[q]
    BY <1>15 DEF Fetch, Finish
  <2>3. pc'[p] \in {"idle", "next", "mark"}
    BY <1>15 DEF Fetch, Finish
  <2>4. CASE pc'[p] = "mark"
    <3>1. PICK o \in Orders : o \in todo[p] /\ intent[o] = "PENDING" /\ cur'[p] = o /\ run' = run
      BY <1>15, <2>4 DEF Fetch, Finish, IsNext
    <3>2. IsLive(p) => calls[o] = 0
      BY <1>15, <3>1 DEF Fetch
    <3>3. QED BY <2>1, <2>2, <2>4, <3>1, <3>2
  <2>5. QED BY <2>1, <2>2, <2>3, <2>4
<1>16. ASSUME NEW p \in Procs, Mark(p) PROVE \A q \in Procs : (pc[q] \in BeforeCall /\ IsLive(q))' => ReadyOK(q)'
  BY <1>16 DEF Mark, Goto, SetStatus
<1>17. ASSUME NEW p \in Procs, Gate(p) PROVE \A q \in Procs : (pc[q] \in BeforeCall /\ IsLive(q))' => ReadyOK(q)'
  BY <1>17 DEF Gate, Goto, GateOpen
<1>18. ASSUME NEW p \in Procs, Reserve(p) PROVE \A q \in Procs : (pc[q] \in BeforeCall /\ IsLive(q))' => ReadyOK(q)'
  BY <1>18 DEF Reserve, Goto, Reserved, CanaryHasRoom
<1>19. ASSUME NEW p \in Procs, Reread(p) PROVE \A q \in Procs : (pc[q] \in BeforeCall /\ IsLive(q))' => ReadyOK(q)'
  BY <1>19 DEF Reread, Goto
<1>20. ASSUME NEW p \in Procs, Send(p) PROVE \A q \in Procs : (pc[q] \in BeforeCall /\ IsLive(q))' => ReadyOK(q)'
  BY <1>20 DEF Send, Goto
<1>21. ASSUME NEW p \in Procs, Ack(p) PROVE \A q \in Procs : (pc[q] \in BeforeCall /\ IsLive(q))' => ReadyOK(q)'
  BY <1>21 DEF Ack, Goto, SetStatus
<1>22. ASSUME NEW p \in Procs, Drain(p) PROVE \A q \in Procs : (pc[q] \in BeforeCall /\ IsLive(q))' => ReadyOK(q)'
  <2>1. UNCHANGED <<run, cur>> /\ pc'[p] \notin BeforeCall
    BY <1>22 DEF Drain, Goto
  <2>2. UNCHANGED <<by, usage, calls>> /\ \A q \in Procs : q # p => pc'[q] = pc[q]
    BY <1>22 DEF Drain, Goto
  <2>3. \A q \in Procs : q # p /\ pc[q] \in BeforeCall => ~IsLive(q)
    BY <1>22 DEF Drain
  <2>4. QED BY <2>1, <2>2, <2>3
<1>23. ASSUME NEW p \in Procs, Fail(p) PROVE \A q \in Procs : (pc[q] \in BeforeCall /\ IsLive(q))' => ReadyOK(q)'
  BY <1>23 DEF Fail, Goto, SetStatus
<1>24. ASSUME NEW p \in Procs, CloseCanary(p) PROVE \A q \in Procs : (pc[q] \in BeforeCall /\ IsLive(q))' => ReadyOK(q)'
  BY <1>24 DEF CloseCanary, Finish
<1>25. ASSUME NEW p \in Procs, Crash(p) PROVE \A q \in Procs : (pc[q] \in BeforeCall /\ IsLive(q))' => ReadyOK(q)'
  BY <1>25 DEF Crash, Finish
<1>26. ASSUME NEW o \in Orders, BrokerMoves(o) PROVE \A q \in Procs : (pc[q] \in BeforeCall /\ IsLive(q))' => ReadyOK(q)'
  BY <1>26 DEF BrokerMoves
<1>27. ASSUME NEW o \in Orders, BrokerPush(o) PROVE \A q \in Procs : (pc[q] \in BeforeCall /\ IsLive(q))' => ReadyOK(q)'
  BY <1>27 DEF BrokerPush
<1>28. CASE OpenCanary
  BY <1>28 DEF OpenCanary
<1>29. CASE AccountMoves
  BY <1>29 DEF AccountMoves
<1>30. ASSUME NEW x \in Lapsing, Lapse(x) PROVE \A q \in Procs : (pc[q] \in BeforeCall /\ IsLive(q))' => ReadyOK(q)'
  BY <1>30 DEF Lapse
<1>31. CASE UNCHANGED vars
  BY <1>31 DEF vars, confVars, intentVars, canaryVars, brokerVars, procVars
<1> HIDE DEF IInv, TypeOK, ConfTypeOK, ProcTypeOK, RunOK, BeforeCall, HoldsOrder,
      PlanRun, IsLive, OrdersOf, Procs, ReadyOK, CalledOK, IntentTypeOK, BrokerTypeOK,
      IntentStatus, Terminal, LiveOrders, ConfStatus, Steps, confVars, intentVars,
      canaryVars, brokerVars, procVars
<1>32. QED
  BY <1>1, <1>2, <1>3, <1>4, <1>5, <1>6, <1>7, <1>8, <1>9, <1>10, <1>11, <1>12, <1>13, <1>14, <1>15, <1>16,
     <1>17, <1>18, <1>19, <1>20, <1>21, <1>22, <1>23, <1>24, <1>25, <1>26, <1>27, <1>28, <1>29, <1>30, <1>31, <1>0
  DEF Next, SubmitStep

\* A LIVE order that was sent was sent once, and everything about it is stored.
LEMMA CalledStep == ASSUME IInv, [Next]_vars PROVE \A q \in LiveOrders : calls'[q] # 0 => CalledOK(q)'
<1>0. ASSUME ReconcileStep PROVE \A q \in LiveOrders : calls'[q] # 0 => CalledOK(q)'
  <2>1. /\ UNCHANGED <<conf, channel, by, usage, calls>>
        /\ \A q \in Orders : intent[q] \notin {"NONE", "PENDING"} => intent'[q] \notin {"NONE", "PENDING"}
    BY <1>0, ReconcileRows DEF confVars, brokerVars
  <2>2. QED
    BY <2>1 DEF IInv, CalledOK, LiveOrders
<1> USE PlanAssumption DEF IInv, TypeOK, ConfTypeOK, ProcTypeOK, RunOK, BeforeCall,
      HoldsOrder, PlanRun, IsLive, OrdersOf, Procs, ReadyOK, CalledOK, IntentTypeOK,
      BrokerTypeOK, IntentStatus, Terminal, LiveOrders, ConfStatus, Steps, confVars,
      intentVars, canaryVars, brokerVars, procVars
<1>1. ASSUME NEW c \in Confs, RequestConfirmation(c) PROVE \A q \in LiveOrders : calls'[q] # 0 => CalledOK(q)'
  BY <1>1 DEF RequestConfirmation
<1>2. ASSUME NEW c \in Confs, ApproveCheck(c) PROVE \A q \in LiveOrders : calls'[q] # 0 => CalledOK(q)'
  BY <1>2 DEF ApproveCheck
<1>3. ASSUME NEW c \in Confs, ApproveCommit(c) PROVE \A q \in LiveOrders : calls'[q] # 0 => CalledOK(q)'
  BY <1>3 DEF ApproveCommit
<1>4. ASSUME NEW c \in Confs, Reject(c) PROVE \A q \in LiveOrders : calls'[q] # 0 => CalledOK(q)'
  BY <1>4 DEF Reject
<1>5. ASSUME NEW c \in Confs, CliCancel(c) PROVE \A q \in LiveOrders : calls'[q] # 0 => CalledOK(q)'
  BY <1>5 DEF CliCancel
<1>6. ASSUME NEW c \in Confs, CliYesLive(c) PROVE \A q \in LiveOrders : calls'[q] # 0 => CalledOK(q)'
  BY <1>6 DEF CliYesLive
<1>7. ASSUME NEW c \in Confs, CliYesPaper(c) PROVE \A q \in LiveOrders : calls'[q] # 0 => CalledOK(q)'
  BY <1>7 DEF CliYesPaper
<1>8. ASSUME NEW c \in Confs, DaemonExecute(c) PROVE \A q \in LiveOrders : calls'[q] # 0 => CalledOK(q)'
  BY <1>8 DEF DaemonExecute
<1>9. CASE CliRisk
  BY <1>9 DEF CliRisk, Finish, Goto
<1>10. CASE CliLoad
  BY <1>10 DEF CliLoad
<1>11. ASSUME NEW p \in Procs, Admit(p) PROVE \A q \in LiveOrders : calls'[q] # 0 => CalledOK(q)'
  BY <1>11 DEF Admit, CanaryAfterRefusal, AfterExpiry, Finish, Goto
<1>12. ASSUME NEW p \in Procs, ConsumeLook(p) PROVE \A q \in LiveOrders : calls'[q] # 0 => CalledOK(q)'
  BY <1>12 DEF ConsumeLook, Goto, Finish
<1>13. ASSUME NEW p \in Procs, ConsumeTxn(p) PROVE \A q \in LiveOrders : calls'[q] # 0 => CalledOK(q)'
  BY <1>13 DEF ConsumeTxn, Goto, Finish, Existing, StillNew, Inserted
<1>14. ASSUME NEW p \in Procs, Recover(p) PROVE \A q \in LiveOrders : calls'[q] # 0 => CalledOK(q)'
  BY <1>14 DEF Recover
<1>15. ASSUME NEW p \in Procs, Fetch(p) PROVE \A q \in LiveOrders : calls'[q] # 0 => CalledOK(q)'
  BY <1>15 DEF Fetch, Finish, IsNext
<1>16. ASSUME NEW p \in Procs, Mark(p) PROVE \A q \in LiveOrders : calls'[q] # 0 => CalledOK(q)'
  BY <1>16 DEF Mark, Goto, SetStatus
<1>17. ASSUME NEW p \in Procs, Gate(p) PROVE \A q \in LiveOrders : calls'[q] # 0 => CalledOK(q)'
  BY <1>17 DEF Gate, Goto, GateOpen
<1>18. ASSUME NEW p \in Procs, Reserve(p) PROVE \A q \in LiveOrders : calls'[q] # 0 => CalledOK(q)'
  BY <1>18 DEF Reserve, Goto, Reserved, CanaryHasRoom
<1>19. ASSUME NEW p \in Procs, Reread(p) PROVE \A q \in LiveOrders : calls'[q] # 0 => CalledOK(q)'
  BY <1>19 DEF Reread, Goto
<1>20. ASSUME NEW p \in Procs, Send(p) PROVE \A q \in LiveOrders : calls'[q] # 0 => CalledOK(q)'
  BY <1>20 DEF Send, Goto
<1>21. ASSUME NEW p \in Procs, Ack(p) PROVE \A q \in LiveOrders : calls'[q] # 0 => CalledOK(q)'
  BY <1>21 DEF Ack, Goto, SetStatus
<1>22. ASSUME NEW p \in Procs, Drain(p) PROVE \A q \in LiveOrders : calls'[q] # 0 => CalledOK(q)'
  <2>1. UNCHANGED <<conf, channel, by, usage, calls>>
    BY <1>22 DEF Drain
  <2>2. \A q \in Orders : intent[q] \notin {"NONE", "PENDING"} => intent'[q] \notin {"NONE", "PENDING"}
    BY <1>22, DrainRows
  <2>3. QED BY <2>1, <2>2
<1>23. ASSUME NEW p \in Procs, Fail(p) PROVE \A q \in LiveOrders : calls'[q] # 0 => CalledOK(q)'
  BY <1>23 DEF Fail, Goto, SetStatus
<1>24. ASSUME NEW p \in Procs, CloseCanary(p) PROVE \A q \in LiveOrders : calls'[q] # 0 => CalledOK(q)'
  BY <1>24 DEF CloseCanary, Finish
<1>25. ASSUME NEW p \in Procs, Crash(p) PROVE \A q \in LiveOrders : calls'[q] # 0 => CalledOK(q)'
  BY <1>25 DEF Crash, Finish
<1>26. ASSUME NEW o \in Orders, BrokerMoves(o) PROVE \A q \in LiveOrders : calls'[q] # 0 => CalledOK(q)'
  BY <1>26 DEF BrokerMoves
<1>27. ASSUME NEW o \in Orders, BrokerPush(o) PROVE \A q \in LiveOrders : calls'[q] # 0 => CalledOK(q)'
  BY <1>27 DEF BrokerPush
<1>28. CASE OpenCanary
  BY <1>28 DEF OpenCanary
<1>29. CASE AccountMoves
  BY <1>29 DEF AccountMoves
<1>30. ASSUME NEW x \in Lapsing, Lapse(x) PROVE \A q \in LiveOrders : calls'[q] # 0 => CalledOK(q)'
  BY <1>30 DEF Lapse
<1>31. CASE UNCHANGED vars
  BY <1>31 DEF vars, confVars, intentVars, canaryVars, brokerVars, procVars
<1> HIDE DEF IInv, TypeOK, ConfTypeOK, ProcTypeOK, RunOK, BeforeCall, HoldsOrder,
      PlanRun, IsLive, OrdersOf, Procs, ReadyOK, CalledOK, IntentTypeOK, BrokerTypeOK,
      IntentStatus, Terminal, LiveOrders, ConfStatus, Steps, confVars, intentVars,
      canaryVars, brokerVars, procVars
<1>32. QED
  BY <1>1, <1>2, <1>3, <1>4, <1>5, <1>6, <1>7, <1>8, <1>9, <1>10, <1>11, <1>12, <1>13, <1>14, <1>15, <1>16,
     <1>17, <1>18, <1>19, <1>20, <1>21, <1>22, <1>23, <1>24, <1>25, <1>26, <1>27, <1>28, <1>29, <1>30, <1>31, <1>0
  DEF Next, SubmitStep

\* What the broker knows, it was called for.
LEMMA BrokerStep == ASSUME IInv, [Next]_vars PROVE BrokerOK'
<1>0. ASSUME ReconcileStep PROVE BrokerOK'
  BY <1>0, ReconcileRows DEF IInv, BrokerOK, brokerVars
<1> USE PlanAssumption DEF IInv, TypeOK, ConfTypeOK, ProcTypeOK, RunOK, BeforeCall,
      HoldsOrder, PlanRun, IsLive, OrdersOf, Procs, BrokerOK, BrokerTypeOK, LiveOrders,
      Terminal, brokerVars
<1>1. ASSUME NEW c \in Confs, RequestConfirmation(c) PROVE BrokerOK'
  BY <1>1 DEF RequestConfirmation
<1>2. ASSUME NEW c \in Confs, ApproveCheck(c) PROVE BrokerOK'
  BY <1>2 DEF ApproveCheck
<1>3. ASSUME NEW c \in Confs, ApproveCommit(c) PROVE BrokerOK'
  BY <1>3 DEF ApproveCommit
<1>4. ASSUME NEW c \in Confs, Reject(c) PROVE BrokerOK'
  BY <1>4 DEF Reject
<1>5. ASSUME NEW c \in Confs, CliCancel(c) PROVE BrokerOK'
  BY <1>5 DEF CliCancel
<1>6. ASSUME NEW c \in Confs, CliYesLive(c) PROVE BrokerOK'
  BY <1>6 DEF CliYesLive
<1>7. ASSUME NEW c \in Confs, CliYesPaper(c) PROVE BrokerOK'
  BY <1>7 DEF CliYesPaper
<1>8. ASSUME NEW c \in Confs, DaemonExecute(c) PROVE BrokerOK'
  BY <1>8 DEF DaemonExecute
<1>9. CASE CliRisk
  BY <1>9 DEF CliRisk, Finish, Goto
<1>10. CASE CliLoad
  BY <1>10 DEF CliLoad
<1>11. ASSUME NEW p \in Procs, Admit(p) PROVE BrokerOK'
  BY <1>11 DEF Admit, CanaryAfterRefusal, AfterExpiry, Finish, Goto
<1>12. ASSUME NEW p \in Procs, ConsumeLook(p) PROVE BrokerOK'
  BY <1>12 DEF ConsumeLook, Goto, Finish
<1>13. ASSUME NEW p \in Procs, ConsumeTxn(p) PROVE BrokerOK'
  BY <1>13 DEF ConsumeTxn, Goto, Finish, Existing, StillNew, Inserted
<1>14. ASSUME NEW p \in Procs, Recover(p) PROVE BrokerOK'
  BY <1>14 DEF Recover
<1>15. ASSUME NEW p \in Procs, Fetch(p) PROVE BrokerOK'
  BY <1>15 DEF Fetch, Finish, IsNext
<1>16. ASSUME NEW p \in Procs, Mark(p) PROVE BrokerOK'
  BY <1>16 DEF Mark, Goto, SetStatus
<1>17. ASSUME NEW p \in Procs, Gate(p) PROVE BrokerOK'
  BY <1>17 DEF Gate, Goto, GateOpen
<1>18. ASSUME NEW p \in Procs, Reserve(p) PROVE BrokerOK'
  BY <1>18 DEF Reserve, Goto, Reserved, CanaryHasRoom
<1>19. ASSUME NEW p \in Procs, Reread(p) PROVE BrokerOK'
  BY <1>19 DEF Reread, Goto
<1>20. ASSUME NEW p \in Procs, Send(p) PROVE BrokerOK'
  <2>1. queue' = queue /\ cur[p] \in Orders
    BY <1>20 DEF Send
  <2>2. \A o \in Orders : bstat[o] # "NONE" => bstat'[o] # "NONE"
    BY <1>20, <2>1 DEF Send
  <2>3. \A o \in LiveOrders : bstat'[o] # "NONE" => calls'[o] # 0
    BY <1>20, <2>1 DEF Send
  <2>4. \A i \in 1..Len(queue) : queue[i].order \in Orders
    BY QueueOrders
  <2>5. QED BY <2>1, <2>2, <2>3, <2>4
<1>21. ASSUME NEW p \in Procs, Ack(p) PROVE BrokerOK'
  BY <1>21 DEF Ack, Goto, SetStatus
<1>22. ASSUME NEW p \in Procs, Drain(p) PROVE BrokerOK'
  <2>1. UNCHANGED <<bstat, calls>>
    BY <1>22 DEF Drain
  <2>2. CASE queue' = queue
    BY <2>1, <2>2
  <2>3. CASE queue # <<>> /\ queue' = Tail(queue)
    <3>1. Len(queue') = Len(queue) - 1 /\ Len(queue) \in Nat
      BY <2>3, QueueHead
    <3>2. ASSUME NEW i \in 1..Len(queue')
          PROVE  bstat[queue'[i].order] # "NONE"
      <4>1. i + 1 \in 1..Len(queue)
        BY <3>1
      <4>2. queue'[i] = queue[i + 1]
        BY <2>3, QueueHead
      <4>3. QED BY <4>1, <4>2
    <3>3. QED BY <2>1, <3>2
  <2>4. QED BY <1>22, <2>2, <2>3 DEF Drain
<1>23. ASSUME NEW p \in Procs, Fail(p) PROVE BrokerOK'
  BY <1>23 DEF Fail, Goto, SetStatus
<1>24. ASSUME NEW p \in Procs, CloseCanary(p) PROVE BrokerOK'
  BY <1>24 DEF CloseCanary, Finish
<1>25. ASSUME NEW p \in Procs, Crash(p) PROVE BrokerOK'
  BY <1>25 DEF Crash, Finish
<1>26. ASSUME NEW o \in Orders, BrokerMoves(o) PROVE BrokerOK'
  <2>1. PICK s \in Terminal : bstat' = [bstat EXCEPT ![o] = s]
    BY <1>26 DEF BrokerMoves
  <2>2. \A q \in Orders : bstat'[q] # "NONE" <=> bstat[q] # "NONE"
    BY <1>26, <2>1 DEF BrokerMoves
  <2>3. UNCHANGED <<calls, queue>>
    BY <1>26 DEF BrokerMoves
  <2>4. \A i \in 1..Len(queue) : queue[i].order \in Orders
    BY QueueOrders
  <2>5. QED BY <2>2, <2>3, <2>4
<1>27. ASSUME NEW o \in Orders, BrokerPush(o) PROVE BrokerOK'
  BY <1>27 DEF BrokerPush
<1>28. CASE OpenCanary
  BY <1>28 DEF OpenCanary
<1>29. CASE AccountMoves
  BY <1>29 DEF AccountMoves
<1>30. ASSUME NEW x \in Lapsing, Lapse(x) PROVE BrokerOK'
  BY <1>30 DEF Lapse
<1>31. CASE UNCHANGED vars
  BY <1>31 DEF vars, confVars, intentVars, canaryVars, brokerVars, procVars
<1> HIDE DEF IInv, TypeOK, ConfTypeOK, ProcTypeOK, RunOK, BeforeCall, HoldsOrder,
      PlanRun, IsLive, OrdersOf, Procs, BrokerOK, BrokerTypeOK, LiveOrders, Terminal,
      brokerVars
<1>32. QED
  BY <1>1, <1>2, <1>3, <1>4, <1>5, <1>6, <1>7, <1>8, <1>9, <1>10, <1>11, <1>12, <1>13, <1>14, <1>15, <1>16,
     <1>17, <1>18, <1>19, <1>20, <1>21, <1>22, <1>23, <1>24, <1>25, <1>26, <1>27, <1>28, <1>29, <1>30, <1>31, <1>0
  DEF Next, SubmitStep

\* No other step touches what a reconciliation remembers, or removes a row.
LEMMA RowsStay ==
  ASSUME IInv, [Next]_vars, ~ReconcileStep
  PROVE  UNCHANGED reconVars /\ \A o \in Orders : intent[o] # "NONE" => intent'[o] # "NONE"
<1> DEFINE Stay == UNCHANGED reconVars /\ \A o \in Orders : intent[o] # "NONE" => intent'[o] # "NONE"
<1> SUFFICES Stay
  OBVIOUS
<1>1. intent \in [Orders -> IntentStatus \cup {"NONE"}]
  BY DEF IInv, TypeOK, IntentTypeOK
<1>2. ASSUME NEW p \in Procs, SubmitStep(p) PROVE Stay
  <2>1. CASE ConsumeTxn(p)
    BY <2>1 DEF ConsumeTxn, Inserted, OrdersOf
  <2>2. CASE Recover(p)
    BY <2>2 DEF Recover
  <2>3. CASE Mark(p) \/ Ack(p) \/ Fail(p)
    BY <1>1, <2>3 DEF Mark, Ack, Fail, SetStatus
  <2>4. CASE Drain(p)
    BY <2>4, DrainRows DEF Drain, IInv
  <2>5. CASE UNCHANGED <<intent, reconVars>>
    BY <2>5
  <2>6. QED
    BY <1>2, <2>1, <2>2, <2>3, <2>4, <2>5
    DEF SubmitStep, Admit, ConsumeLook, Fetch, Gate, Reserve, Reread, Send, CloseCanary, intentVars
<1>3. CASE \E c \in Confs :
             \/ RequestConfirmation(c) \/ ApproveCheck(c) \/ ApproveCommit(c) \/ Reject(c)
             \/ CliCancel(c) \/ CliYesLive(c) \/ CliYesPaper(c) \/ DaemonExecute(c)
  BY <1>3 DEF RequestConfirmation, ApproveCheck, ApproveCommit, Reject, CliCancel, CliYesLive,
              CliYesPaper, DaemonExecute, intentVars
<1>4. CASE CliRisk \/ CliLoad \/ OpenCanary \/ AccountMoves \/ UNCHANGED vars
  BY <1>4 DEF CliRisk, CliLoad, OpenCanary, AccountMoves, vars, intentVars
<1>5. CASE \/ \E p \in Procs : Crash(p)
           \/ \E o \in Orders : BrokerMoves(o) \/ BrokerPush(o)
           \/ \E x \in Lapsing : Lapse(x)
  BY <1>5 DEF Crash, BrokerMoves, BrokerPush, Lapse, intentVars
<1> HIDE DEF Stay
<1>6. QED
  BY <1>2, <1>3, <1>4, <1>5 DEF Next

\* What a reconciliation remembers keeps its type, and names rows that exist.
LEMMA ReconStep == ASSUME IInv, [Next]_vars PROVE ReconTypeOK' /\ DoubtOK'
<1>1. CASE ReconcileStep
  BY <1>1, ReconcileRows
<1>2. CASE ~ReconcileStep
  BY <1>2, RowsStay DEF IInv, TypeOK, ReconTypeOK, DoubtOK, reconVars
<1>3. QED BY <1>1, <1>2

\* IInv is inductive.
THEOREM Inductive == Spec => []IInv
<1>1. Init => IInv
  BY InitInv
<1>2. IInv /\ [Next]_vars => IInv'
  BY ConfStep, IntentStep, CanaryStep, BrokerTypeStep, ProcStep, RunStep, ReadyStep,
     CalledStep, BrokerStep, ReconStep DEF IInv, TypeOK
<1>3. QED
  BY <1>1, <1>2, PTL DEF Spec

(***************************************************************************)
(* Theorems                                                                *)
(***************************************************************************)
\* Every variable keeps its type.
THEOREM TypeCorrect == Spec => []TypeOK
<1>1. IInv => TypeOK
  BY DEF IInv
<1>2. QED
  BY <1>1, Inductive, PTL

\* No LIVE order reaches the broker twice, for any plans, confirmations, crashes
\* and lost answers.
THEOREM OneCall == Spec => []AtMostOneCall
<1>1. IInv => AtMostOneCall
  BY DEF IInv, TypeOK, BrokerTypeOK, CalledOK, AtMostOneCall, LiveOrders
<1>2. QED
  BY <1>1, Inductive, PTL

\* No crash leaves a sent LIVE order with a row that looks unsent.
THEOREM WrittenAhead == Spec => []WriteAhead
<1>1. IInv => WriteAhead
  BY DEF IInv, TypeOK, BrokerTypeOK, CalledOK, WriteAhead, LiveOrders
<1>2. QED
  BY <1>1, Inductive, PTL

\* Every LIVE order sent has its proof-approved confirmation and its reservation.
THEOREM Authorised == Spec => []CallsAuthorised
<1>1. IInv => CallsAuthorised
  BY DEF IInv, TypeOK, BrokerTypeOK, CalledOK, CallsAuthorised, LiveOrders
<1>2. QED
  BY <1>1, Inductive, PTL

(***************************************************************************)
(* Refinement of OrderPromise                                              *)
(***************************************************************************)
\* What the abstract state depends on does not move.
Still == \A o \in LiveOrders : calls'[o] = calls[o] /\ (intent'[o] = "NONE" <=> intent[o] = "NONE")

LEMMA StillStutters ==
  ASSUME Still PROVE UNCHANGED [o \in LiveOrders |-> OrderState(o)]
<1>1. \A o \in LiveOrders : OrderState(o)' = OrderState(o)
  BY DEF Still, OrderState
<1>2. QED BY <1>1

\* The transaction of consume() authorises the whole of a LIVE plan, or no LIVE order.
LEMMA ConsumeAuthorises ==
  ASSUME IInv, NEW p \in Procs, ConsumeTxn(p)
  PROVE  Still \/ \E o \in LiveOrders : Promise!Authorise(PlanOf[o])
<1> DEFINE plan == ConfPlan[run[p]]
<1>1. UNCHANGED calls
  BY DEF ConsumeTxn, brokerVars
<1>2. CASE UNCHANGED intent
  BY <1>1, <1>2 DEF Still
<1>3. CASE /\ Existing(plan) = {}
           /\ intent' = [o \in Orders |-> IF o \in OrdersOf(plan) THEN "PENDING" ELSE intent[o]]
  <2>1. \A o \in Orders : PlanOf[o] = plan => intent[o] = "NONE" /\ intent'[o] = "PENDING"
    BY <1>3 DEF Existing, OrdersOf
  <2>2. \A o \in Orders : PlanOf[o] # plan => intent'[o] = intent[o]
    BY <1>3 DEF OrdersOf
  <2>3. \A o \in LiveOrders : o \in Orders
    BY DEF LiveOrders
  <2>4. \A o \in LiveOrders : PlanOf[o] = plan => calls[o] = 0
    BY <2>1, <2>3 DEF IInv, CalledOK
  <2>5. CASE \A o \in LiveOrders : PlanOf[o] # plan
    BY <1>1, <2>2, <2>3, <2>5 DEF Still
  <2>6. CASE \E o \in LiveOrders : PlanOf[o] = plan
    <3>1. PICK o \in LiveOrders : PlanOf[o] = plan
      BY <2>6
    <3>2. \A q \in LiveOrders : PlanOf[q] = plan =>
             OrderState(q) = "idle" /\ OrderState(q)' = "authorised"
      BY <1>1, <2>1, <2>3, <2>4 DEF OrderState
    <3>3. \A q \in LiveOrders : PlanOf[q] # plan => OrderState(q)' = OrderState(q)
      BY <1>1, <2>2, <2>3 DEF OrderState
    <3>4. Promise!Authorise(plan)
      BY <3>2, <3>3 DEF Promise!Authorise
    <3>5. QED
      BY <3>1, <3>4
  <2>7. QED
    BY <2>5, <2>6
<1>4. QED
  BY <1>2, <1>3 DEF ConsumeTxn, StillNew, Inserted

\* The step that calls client.order sends one authorised order, or a PAPER order.
LEMMA SendSends ==
  ASSUME IInv, NEW p \in Procs, Send(p)
  PROVE  Still \/ \E o \in LiveOrders : Promise!SendOnce(o)
<1>1. UNCHANGED intent
  BY DEF Send, intentVars
<1>2. CASE UNCHANGED calls
  BY <1>1, <1>2 DEF Still
<1>3. CASE calls' = [calls EXCEPT ![cur[p]] = @ + 1]
  <2>1. cur[p] \in Orders /\ PlanOf[cur[p]] = PlanRun(p) /\ intent[cur[p]] # "NONE"
    BY DEF Send, IInv, RunOK, HoldsOrder, BeforeCall, OrdersOf
  <2>2. \A o \in LiveOrders : o \in Orders /\ (o # cur[p] => calls'[o] = calls[o])
    BY <1>3, <2>1 DEF LiveOrders, IInv, TypeOK, BrokerTypeOK
  <2>3. CASE cur[p] \notin LiveOrders
    BY <1>1, <2>2, <2>3 DEF Still
  <2>4. CASE cur[p] \in LiveOrders
    <3>1. PICK o \in LiveOrders : o = cur[p]
      BY <2>4
    <3>2. calls[o] = 0
      BY <2>1, <3>1 DEF Send, IInv, ReadyOK, BeforeCall, IsLive, LiveOrders
    <3>3. calls'[o] = 1
      BY <1>3, <2>1, <3>1, <3>2 DEF IInv, TypeOK, BrokerTypeOK
    <3>4. OrderState(o) = "authorised" /\ OrderState(o)' = "sent"
      BY <1>1, <2>1, <3>1, <3>2, <3>3 DEF OrderState
    <3>5. \A q \in LiveOrders : q # o => OrderState(q)' = OrderState(q)
      BY <1>1, <2>2, <3>1 DEF OrderState
    <3>6. Promise!SendOnce(o)
      BY <3>4, <3>5 DEF Promise!SendOnce
    <3>7. QED
      BY <3>6
  <2>5. QED
    BY <2>3, <2>4
<1>4. QED
  BY <1>2, <1>3 DEF Send

\* Every other step leaves the abstract state alone.
LEMMA OthersStutter ==
  ASSUME IInv, [Next]_vars,
         \A p \in Procs : ~ConsumeTxn(p) /\ ~Send(p)
  PROVE  Still
<1> USE DEF Still, intentVars, brokerVars
<1>1. \A p \in Procs : pc[p] \in HoldsOrder => cur[p] \in Orders /\ intent[cur[p]] # "NONE"
  BY DEF IInv, RunOK, OrdersOf, HoldsOrder, BeforeCall
<1>2. \A o \in LiveOrders : o \in Orders
  BY DEF LiveOrders
<1>3. intent \in [Orders -> IntentStatus \cup {"NONE"}]
  BY DEF IInv, TypeOK, IntentTypeOK
<1>4. ASSUME NEW p \in Procs, SubmitStep(p) PROVE Still
  <2>1. CASE Recover(p)
    BY <1>2, <2>1 DEF Recover
  <2>2. CASE Mark(p)
    BY <1>1, <1>2, <1>3, <2>2 DEF Mark, SetStatus, HoldsOrder, BeforeCall
  <2>3. CASE Ack(p)
    BY <1>1, <1>2, <1>3, <2>3 DEF Ack, SetStatus, HoldsOrder
  <2>4. CASE Fail(p)
    BY <1>1, <1>2, <1>3, <2>4 DEF Fail, SetStatus, HoldsOrder
  <2>5. CASE Drain(p)
    <3>1. UNCHANGED calls
      BY <2>5 DEF Drain
    <3>2. \A o \in LiveOrders : intent[o] # "NONE" => intent'[o] # "NONE"
      BY <1>2, <2>5, DrainRows DEF IInv
    <3>3. \A o \in LiveOrders : intent[o] = "NONE" => intent'[o] = "NONE"
      <4>1. CASE queue = <<>>
        BY <2>5, <4>1 DEF Drain
      <4>2. CASE queue # <<>>
        <5>1. Head(queue) = queue[1] /\ 1 \in 1..Len(queue)
          BY <4>2, QueueHead DEF IInv, TypeOK, BrokerTypeOK
        <5>2. bstat[Head(queue).order] # "NONE"
          BY <5>1 DEF IInv, BrokerOK
        <5>3. \A o \in LiveOrders : o = Head(queue).order => intent[o] # "NONE"
          BY <5>2 DEF IInv, BrokerOK, CalledOK
        <5>4. intent' = [intent EXCEPT ![Head(queue).order] = SetStatus(@, Head(queue).status)]
          BY <2>5, <4>2 DEF Drain
        <5>5. QED
          BY <1>2, <1>3, <5>3, <5>4
      <4>3. QED
        BY <4>1, <4>2
    <3>4. QED
      BY <3>1, <3>2, <3>3
  <2>6. CASE UNCHANGED <<intent, calls>>
    BY <2>6
  <2>7. QED
    BY <1>4, <2>1, <2>2, <2>3, <2>4, <2>5, <2>6
    DEF SubmitStep, Admit, ConsumeLook, Fetch, Gate, Reserve, Reread, CloseCanary
<1>5. CASE \E c \in Confs :
             \/ RequestConfirmation(c) \/ ApproveCheck(c) \/ ApproveCommit(c) \/ Reject(c)
             \/ CliCancel(c) \/ CliYesLive(c) \/ CliYesPaper(c) \/ DaemonExecute(c)
  BY <1>5 DEF RequestConfirmation, ApproveCheck, ApproveCommit, Reject, CliCancel, CliYesLive,
              CliYesPaper, DaemonExecute
<1>6. CASE CliRisk \/ CliLoad \/ OpenCanary \/ AccountMoves \/ UNCHANGED vars
  BY <1>6 DEF CliRisk, CliLoad, OpenCanary, AccountMoves, vars
<1>7. CASE \/ \E p \in Procs : Crash(p)
           \/ \E o \in Orders : BrokerMoves(o) \/ BrokerPush(o)
           \/ \E x \in Lapsing : Lapse(x)
  BY <1>7 DEF Crash, BrokerMoves, BrokerPush, Lapse
<1>9. CASE ReconcileStep
  BY <1>2, <1>9, ReconcileRows
<1> HIDE DEF Still
<1>8. QED
  BY <1>4, <1>5, <1>6, <1>7, <1>9 DEF Next

\* The processes, crashes included, implement OrderPromise: a LIVE plan is authorised
\* as a whole and each of its orders is sent at most once.
THEOREM Implements == Spec => ImplementsPromise
<1>1. Init => Promise!PromiseInit
  BY DEF Init, Promise!PromiseInit, OrderState, LiveOrders
<1>2. IInv /\ [Next]_vars => [Promise!PromiseNext]_[o \in LiveOrders |-> OrderState(o)]
  <2> SUFFICES ASSUME IInv, [Next]_vars
               PROVE  [Promise!PromiseNext]_[o \in LiveOrders |-> OrderState(o)]
    OBVIOUS
  <2>1. CASE \E p \in Procs : ConsumeTxn(p)
    BY <2>1, ConsumeAuthorises, StillStutters DEF Promise!PromiseNext
  <2>2. CASE \E p \in Procs : Send(p)
    BY <2>2, SendSends, StillStutters DEF Promise!PromiseNext
  <2>3. CASE \A p \in Procs : ~ConsumeTxn(p) /\ ~Send(p)
    BY <2>3, OthersStutter, StillStutters
  <2>4. QED
    BY <2>1, <2>2, <2>3
<1>3. QED
  BY <1>1, <1>2, Inductive, PTL DEF Spec, ImplementsPromise, Promise!PromiseSpec

(***************************************************************************)
(* UNKNOWN orders                                                          *)
(***************************************************************************)
\* Beyond the canary gate.
Sending == {"reserve", "reread", "send"}
PastAdmission == {"look", "consume", "recover", "next", "mark", "gate", "ack", "drain"} \cup Sending

\* The orders that are UNKNOWN because a push said so: drain_events found a status outside
\* the state machine in the queue.  A variable of the proofs, computed from each step.
VARIABLE odd

MadeOdd(o) ==
    \E p \in Procs :
        Drain(p) /\ queue # <<>> /\ Head(queue).order = o /\ Head(queue).status = "UNKNOWN"

Remember == odd' = {o \in Orders : intent'[o] = "UNKNOWN" /\ (o \in odd \/ MadeOdd(o))}

OddSpec == Spec /\ odd = {} /\ [][Next /\ Remember]_<<vars, odd>>

\* What a LIVE run relies on, as long as no reconciliation runs beside it: a run that
\* comes to recover() inserted its rows itself, and its row is as it left it.
InHand(p) ==
    /\ pc[p] \in {"admit", "look"} => conf[run[p]] # "CONSUMED"
    /\ pc[p] = "consume" => \A o \in OrdersOf(PlanRun(p)) : intent[o] = "NONE"
    /\ pc[p] = "recover" => \A o \in OrdersOf(PlanRun(p)) : intent[o] = "PENDING"
    /\ pc[p] = "mark" => intent[cur[p]] = "PENDING"
    /\ pc[p] \in {"gate"} \cup Sending => intent[cur[p]] = "SUBMITTING"

HandInv ==
    /\ \A p \in Procs : pc[p] \in Sending => IsLive(p)
    /\ reconciled = 0 => reconciling = "no" /\ doubted = {}
    /\ reconciled = 0 => \A p \in Procs : pc[p] # "idle" /\ IsLive(p) => InHand(p)

\* A LIVE run past its admission has no UNKNOWN LIVE intent beside it, but those a push
\* made so.
CleanInv ==
    reconciled = 0 =>
        \A p \in Procs : pc[p] \in PastAdmission /\ IsLive(p) =>
                            \A o \in LiveOrders : intent[o] = "UNKNOWN" => o \in odd

\* The initial state satisfies both.
LEMMA InitHand == Init => HandInv /\ CleanInv
BY DEF Init, HandInv, CleanInv, Sending, PastAdmission, LiveOrders, Procs

\* A trade session works on PAPER orders only, and never comes to the canary.
LEMMA CliPaper ==
  ASSUME IInv, HandInv
  PROVE  /\ pc["cli"] # "idle" => run["cli"] \in Confs /\ ~IsLive("cli") /\ pc["cli"] # "drain"
         /\ pc["cli"] \in HoldsOrder => cur["cli"] \in Orders \ LiveOrders
         /\ pc["cli"] \notin Sending
BY DEF IInv, HandInv, RunOK, Procs, HoldsOrder, BeforeCall, Sending, OrdersOf, LiveOrders, IsLive

\* So its steps leave LIVE rows, LIVE plans, the daemon and the broker alone.
LEMMA CliBeside ==
  ASSUME IInv, HandInv, SubmitStep("cli")
  PROVE  /\ UNCHANGED calls
         /\ \A o \in LiveOrders : intent'[o] = intent[o]
         /\ \A c \in Confs : ConfPlan[c] \in LivePlans /\ conf'[c] = "CONSUMED" => conf[c] = "CONSUMED"
         /\ UNCHANGED <<pc["daemon"], run["daemon"], cur["daemon"]>>
         /\ pc'["cli"] \notin Sending
<1> DEFINE Rows == UNCHANGED calls /\ \A o \in LiveOrders : intent'[o] = intent[o]
           Tickets == \A c \in Confs : ConfPlan[c] \in LivePlans /\ conf'[c] = "CONSUMED" => conf[c] = "CONSUMED"
           Procsok == UNCHANGED <<pc["daemon"], run["daemon"], cur["daemon"]>> /\ pc'["cli"] \notin Sending
<1> SUFFICES Rows /\ Tickets /\ Procsok
  OBVIOUS
<1>1. /\ conf \in [Confs -> ConfStatus]
      /\ intent \in [Orders -> IntentStatus \cup {"NONE"}]
      /\ pc \in [Procs -> Steps] /\ run \in [Procs -> Confs \cup {NoConf}]
      /\ todo \in [Procs -> SUBSET Orders] /\ cur \in [Procs -> Orders \cup {NoOrder}]
      /\ "cli" \in Procs /\ "daemon" \in Procs
      /\ \A o \in LiveOrders : o \in Orders
  BY DEF IInv, TypeOK, ConfTypeOK, IntentTypeOK, ProcTypeOK, Procs, LiveOrders
<1>2. pc["cli"] # "idle"
  BY DEF SubmitStep, Admit, ConsumeLook, ConsumeTxn, Recover, Fetch, Mark, Gate, Reserve, Reread, Send,
         Ack, Drain, Fail, CloseCanary
<1>3. run["cli"] \in Confs /\ ~IsLive("cli") /\ pc["cli"] # "drain" /\ pc["cli"] \notin Sending
  BY <1>2, CliPaper
<1>4. \A o \in LiveOrders : o \notin OrdersOf(PlanRun("cli"))
  BY <1>3 DEF OrdersOf, LiveOrders, IsLive
<1>5. pc["cli"] \in HoldsOrder => \A o \in LiveOrders : o # cur["cli"]
  BY CliPaper
<1>6. CASE Admit("cli")
  BY <1>1, <1>6 DEF Admit, Goto, Finish, confVars, intentVars, brokerVars, Sending
<1>7. CASE ConsumeLook("cli")
  BY <1>1, <1>7 DEF ConsumeLook, Goto, Finish, confVars, intentVars, brokerVars, Sending
<1>8. CASE ConsumeTxn("cli")
  <2>1. UNCHANGED calls
    BY <1>8 DEF ConsumeTxn, brokerVars
  <2>2. \A o \in LiveOrders : intent'[o] = intent[o]
    BY <1>1, <1>4, <1>8 DEF ConsumeTxn, Inserted, PlanRun
  <2>3. Tickets
    BY <1>1, <1>3, <1>8 DEF ConsumeTxn, IsLive, PlanRun
  <2>4. Procsok
    BY <1>1, <1>8 DEF ConsumeTxn, Goto, Finish, Sending
  <2>5. QED BY <2>1, <2>2, <2>3, <2>4
<1>9. CASE Recover("cli")
  BY <1>1, <1>4, <1>9 DEF Recover, confVars, brokerVars, Sending
<1>10. CASE Fetch("cli")
  BY <1>1, <1>10 DEF Fetch, Finish, confVars, intentVars, brokerVars, Sending
<1>11. CASE Mark("cli") \/ Ack("cli") \/ Fail("cli")
  <2>1. pc["cli"] \in HoldsOrder
    BY <1>11 DEF Mark, Ack, Fail, HoldsOrder, BeforeCall
  <2>2. Rows
    BY <1>1, <1>5, <1>11, <2>1 DEF Mark, Ack, Fail, brokerVars
  <2>3. Tickets /\ Procsok
    BY <1>1, <1>11 DEF Mark, Ack, Fail, Goto, Sending, confVars
  <2>4. QED BY <2>2, <2>3
<1>12. CASE Gate("cli")
  BY <1>1, <1>3, <1>12 DEF Gate, Goto, confVars, intentVars, brokerVars, Sending
<1>13. CASE CloseCanary("cli")
  BY <1>1, <1>13 DEF CloseCanary, Finish, confVars, intentVars, brokerVars, Sending
<1>14. ~Reserve("cli") /\ ~Reread("cli") /\ ~Send("cli") /\ ~Drain("cli")
  BY <1>3 DEF Reserve, Reread, Send, Drain, Sending
<1> HIDE DEF Rows, Tickets, Procsok
<1>15. QED
  BY <1>6, <1>7, <1>8, <1>9, <1>10, <1>11, <1>12, <1>13, <1>14 DEF SubmitStep

\* Beside the daemon's own submit call nothing touches a LIVE row, calls the broker or
\* consumes a LIVE plan, and the daemon only starts with an APPROVED confirmation.
LEMMA Beside ==
  ASSUME IInv, HandInv, [Next]_vars, ~ReconcileStep, ~SubmitStep("daemon")
  PROVE  /\ UNCHANGED calls
         /\ \A o \in LiveOrders : intent'[o] = intent[o]
         /\ \A c \in Confs : ConfPlan[c] \in LivePlans /\ conf'[c] = "CONSUMED" => conf[c] = "CONSUMED"
         /\ \/ UNCHANGED <<pc["daemon"], run["daemon"], cur["daemon"]>>
            \/ pc'["daemon"] = "idle"
            \/ pc'["daemon"] = "admit" /\ conf'[run'["daemon"]] = "APPROVED"
         /\ pc'["cli"] \notin Sending
<1> DEFINE Rows == UNCHANGED calls /\ \A o \in LiveOrders : intent'[o] = intent[o]
           Tickets == \A c \in Confs : ConfPlan[c] \in LivePlans /\ conf'[c] = "CONSUMED" => conf[c] = "CONSUMED"
           Daemon == \/ UNCHANGED <<pc["daemon"], run["daemon"], cur["daemon"]>>
                     \/ pc'["daemon"] = "idle"
                     \/ pc'["daemon"] = "admit" /\ conf'[run'["daemon"]] = "APPROVED"
           Cli == pc'["cli"] \notin Sending
<1> SUFFICES Rows /\ Tickets /\ Daemon /\ Cli
  OBVIOUS
<1>1. /\ conf \in [Confs -> ConfStatus]
      /\ pc \in [Procs -> Steps] /\ run \in [Procs -> Confs \cup {NoConf}]
      /\ cur \in [Procs -> Orders \cup {NoOrder}] /\ "cli" \in Procs /\ "daemon" \in Procs
      /\ pc["cli"] \notin Sending
  BY CliPaper DEF IInv, TypeOK, ConfTypeOK, ProcTypeOK, Procs
<1>2. CASE SubmitStep("cli")
  BY <1>2, CliBeside
<1>3. ASSUME NEW c \in Confs,
             \/ RequestConfirmation(c) \/ ApproveCheck(c) \/ ApproveCommit(c) \/ Reject(c)
             \/ CliCancel(c) \/ CliYesLive(c)
      PROVE  Rows /\ Tickets /\ Daemon /\ Cli
  <2>1. Rows /\ Daemon /\ Cli
    BY <1>1, <1>3 DEF RequestConfirmation, ApproveCheck, ApproveCommit, Reject, CliCancel, CliYesLive,
              intentVars, brokerVars, procVars
  <2>2. conf' = conf \/ \E s \in ConfStatus \ {"CONSUMED"} : conf' = [conf EXCEPT ![c] = s]
    BY <1>3 DEF RequestConfirmation, ApproveCheck, ApproveCommit, Reject, CliCancel, CliYesLive, ConfStatus
  <2>3. Tickets
    BY <1>1, <2>2
  <2>4. QED BY <2>1, <2>3
<1>4. ASSUME NEW c \in Confs, CliYesPaper(c) PROVE Rows /\ Tickets /\ Daemon /\ Cli
  BY <1>1, <1>4 DEF CliYesPaper, intentVars, brokerVars, Sending
<1>5. ASSUME NEW c \in Confs, DaemonExecute(c) PROVE Rows /\ Tickets /\ Daemon /\ Cli
  BY <1>1, <1>5 DEF DaemonExecute, confVars, intentVars, brokerVars
<1>6. CASE CliRisk
  <2>1. Goto("cli", "load") \/ Finish("cli")
    BY <1>6 DEF CliRisk
  <2>2. Daemon /\ Cli
    BY <1>1, <2>1 DEF Goto, Finish, Sending
  <2>3. conf' = conf \/ conf' = [conf EXCEPT ![run["cli"]] = "REJECTED"]
    BY <1>6 DEF CliRisk
  <2>4. Rows /\ Tickets
    BY <1>1, <1>6, <2>3 DEF CliRisk, intentVars, brokerVars
  <2>5. QED BY <2>2, <2>4
<1>7. CASE CliLoad
  BY <1>1, <1>7 DEF CliLoad, confVars, intentVars, brokerVars, Sending
<1>8. CASE OpenCanary \/ AccountMoves \/ UNCHANGED vars
  BY <1>1, <1>8 DEF OpenCanary, AccountMoves, vars, confVars, intentVars, brokerVars, procVars
<1>9. ASSUME NEW p \in Procs, Crash(p) PROVE Rows /\ Tickets /\ Daemon /\ Cli
  <2>1. UNCHANGED <<calls, intent, conf>>
    BY <1>9 DEF Crash, intentVars
  <2>2. Finish(p) /\ p \in {"daemon", "cli"}
    BY <1>9 DEF Crash, Procs
  <2>3. Daemon /\ Cli
    BY <1>1, <2>2 DEF Finish, Sending
  <2>4. QED BY <2>1, <2>3
<1>10. CASE \/ \E o \in Orders : BrokerMoves(o) \/ BrokerPush(o)
            \/ \E x \in Lapsing : Lapse(x)
  BY <1>1, <1>10 DEF BrokerMoves, BrokerPush, Lapse, confVars, intentVars, procVars, brokerVars
<1> HIDE DEF Rows, Tickets, Daemon, Cli
<1>11. QED
  BY <1>2, <1>3, <1>4, <1>5, <1>6, <1>7, <1>8, <1>9, <1>10 DEF Next, Procs

\* The rows of a LIVE run of the daemon, before and after a step of its own.
LEMMA DaemonRows ==
  ASSUME IInv, HandInv, IsLive("daemon"), SubmitStep("daemon"), reconciled = 0
  PROVE  /\ IsLive("daemon")' \/ pc'["daemon"] = "idle"
         /\ pc'["daemon"] # "idle" => InHand("daemon")'
         /\ pc'["cli"] = pc["cli"]
<1> DEFINE Hand == pc'["daemon"] # "idle" => InHand("daemon")'
           Live == (IsLive("daemon")' \/ pc'["daemon"] = "idle") /\ pc'["cli"] = pc["cli"]
<1> SUFFICES Live /\ Hand
  OBVIOUS
<1>1. /\ conf \in [Confs -> ConfStatus]
      /\ intent \in [Orders -> IntentStatus \cup {"NONE"}]
      /\ pc \in [Procs -> Steps] /\ run \in [Procs -> Confs \cup {NoConf}]
      /\ todo \in [Procs -> SUBSET Orders] /\ cur \in [Procs -> Orders \cup {NoOrder}]
      /\ "cli" \in Procs /\ "daemon" \in Procs
  BY DEF IInv, TypeOK, ConfTypeOK, IntentTypeOK, ProcTypeOK, Procs
<1>2. pc["daemon"] # "idle"
  BY DEF SubmitStep, Admit, ConsumeLook, ConsumeTxn, Recover, Fetch, Mark, Gate, Reserve, Reread, Send,
         Ack, Drain, Fail, CloseCanary
<1>3. InHand("daemon") /\ RunOK("daemon")
  BY <1>1, <1>2 DEF HandInv, IInv
<1>4. run["daemon"] \in Confs
  BY <1>3 DEF RunOK
<1> USE DEF InHand, Sending, IsLive, PlanRun
<1>5. CASE Admit("daemon")
  BY <1>1, <1>3, <1>5 DEF Admit, Goto, Finish, confVars
<1>6. CASE ConsumeLook("daemon")
  <2>1. Live
    BY <1>1, <1>6 DEF ConsumeLook, Goto, Finish
  <2>2. conf[run["daemon"]] # "CONSUMED"
    BY <1>3, <1>6 DEF ConsumeLook
  <2>3. CASE Existing(PlanRun("daemon")) = {}
    <3>1. Goto("daemon", "consume")
      BY <1>6, <2>3 DEF ConsumeLook
    <3>2. \A o \in OrdersOf(PlanRun("daemon")) : intent[o] = "NONE"
      BY <2>3 DEF Existing
    <3>3. QED BY <1>1, <1>6, <2>1, <3>1, <3>2 DEF ConsumeLook, Goto, intentVars
  <2>4. CASE Existing(PlanRun("daemon")) # {}
    BY <1>1, <1>6, <2>1, <2>2, <2>4 DEF ConsumeLook, Finish
  <2>5. QED BY <2>3, <2>4
<1>7. CASE ConsumeTxn("daemon")
  <2>1. Live
    BY <1>1, <1>7 DEF ConsumeTxn, Goto, Finish
  <2>2. Existing(PlanRun("daemon")) = {}
    BY <1>3, <1>7 DEF ConsumeTxn, StillNew, Existing
  <2>3. CASE Finish("daemon")
    BY <1>1, <2>1, <2>3 DEF Finish
  <2>4. CASE ~Finish("daemon")
    <3>1. Goto("daemon", "recover")
      BY <1>7, <2>4 DEF ConsumeTxn
    <3>2. intent' = [o \in Orders |-> IF o \in OrdersOf(PlanRun("daemon")) THEN "PENDING" ELSE intent[o]]
      BY <1>7, <2>2, <2>4 DEF ConsumeTxn, StillNew, PlanRun, Inserted
    <3>3. \A o \in OrdersOf(PlanRun("daemon")) : intent'[o] = "PENDING"
      BY <3>2 DEF OrdersOf
    <3>4. QED BY <1>1, <2>1, <3>1, <3>3 DEF Goto
  <2>5. QED BY <2>3, <2>4
<1>8. CASE Recover("daemon")
  BY <1>1, <1>8 DEF Recover, confVars
<1>9. CASE Fetch("daemon")
  BY <1>1, <1>9 DEF Fetch, Finish, confVars, intentVars
<1>10. CASE Mark("daemon")
  <2>1. cur["daemon"] \in Orders /\ intent[cur["daemon"]] = "PENDING"
    BY <1>3, <1>10 DEF Mark, RunOK, HoldsOrder, BeforeCall, OrdersOf
  <2>2. intent'[cur["daemon"]] = "SUBMITTING"
    BY <1>1, <1>10, <2>1 DEF Mark, SetStatus, Terminal
  <2>3. QED BY <1>1, <1>10, <2>2 DEF Mark, Goto
<1>11. CASE Gate("daemon")
  BY <1>1, <1>3, <1>11 DEF Gate, Goto, intentVars
<1>12. CASE Reserve("daemon")
  BY <1>1, <1>3, <1>12 DEF Reserve, Goto, intentVars
<1>13. CASE Reread("daemon")
  BY <1>1, <1>3, <1>13 DEF Reread, Goto, intentVars
<1>14. CASE Send("daemon")
  BY <1>1, <1>14 DEF Send, Goto
<1>15. CASE Ack("daemon")
  BY <1>1, <1>15 DEF Ack, Goto
<1>16. CASE Drain("daemon")
  BY <1>1, <1>16 DEF Drain, Goto, procVars
<1>17. CASE Fail("daemon")
  BY <1>1, <1>17 DEF Fail, Goto
<1>18. CASE CloseCanary("daemon")
  BY <1>1, <1>18 DEF CloseCanary, Finish
<1> HIDE DEF Live, Hand
<1>19. QED
  BY <1>5, <1>6, <1>7, <1>8, <1>9, <1>10, <1>11, <1>12, <1>13, <1>14, <1>15, <1>16, <1>17, <1>18 DEF SubmitStep

\* Only a LIVE run comes to the canary.
LEMMA SendingLive ==
  ASSUME IInv, HandInv, SubmitStep("daemon"), pc'["daemon"] \in Sending
  PROVE  IsLive("daemon") /\ run' = run
<1>1. pc \in [Procs -> Steps] /\ "daemon" \in Procs
  BY DEF IInv, TypeOK, ProcTypeOK, Procs
<1>2. CASE Gate("daemon")
  BY <1>1, <1>2 DEF Gate, Goto, Sending
<1>3. CASE Reserve("daemon") \/ Reread("daemon")
  BY <1>1, <1>3 DEF Reserve, Reread, Goto, Sending, HandInv
<1>4. CASE ~(Gate("daemon") \/ Reserve("daemon") \/ Reread("daemon"))
  BY <1>1, <1>4 DEF SubmitStep, Admit, ConsumeLook, ConsumeTxn, Recover, Fetch, Mark, Send, Ack, Drain,
       Fail, CloseCanary, Goto, Finish, Sending, procVars
<1>5. QED BY <1>2, <1>3, <1>4

\* A step of a submit call leaves what a reconciliation remembers.
LEMMA SubmitBeside ==
  ASSUME NEW p \in Procs, SubmitStep(p)
  PROVE  UNCHANGED reconVars
BY DEF SubmitStep, Admit, ConsumeLook, ConsumeTxn, Recover, Fetch, Mark, Gate, Reserve, Reread, Send,
       Ack, Drain, Fail, CloseCanary

\* A reconciliation that takes a step was started.
LEMMA ReconcileCounts == ASSUME IInv, HandInv, ReconcileStep PROVE reconciled' # 0
<1>1. reconciled \in Nat
  BY PlanAssumption DEF IInv, TypeOK, ReconTypeOK
<1>2. CASE ReconcileStart
  BY <1>1, <1>2 DEF ReconcileStart
<1>3. CASE ~ReconcileStart
  BY <1>3 DEF ReconcileStep, ReconcilePlanDone, ReconcileLeave, PollOrder, ReconcileDoubt, ReconcileList,
       HandInv, reconVars
<1>4. QED BY <1>2, <1>3

\* HandInv is kept.
LEMMA HandStep == ASSUME IInv, HandInv, [Next]_vars PROVE HandInv'
<1> DEFINE Lives == \A p \in Procs : pc'[p] \in Sending => IsLive(p)'
           Hands == \A p \in Procs : pc'[p] # "idle" /\ IsLive(p)' => InHand(p)'
<1>1. pc'["cli"] # "idle" => ~IsLive("cli")'
  BY RunStep DEF RunOK, Procs
<1>2. CASE ReconcileStep
  <2>1. UNCHANGED procVars /\ reconciled' # 0 /\ IInv
    BY <1>2, ReconcileRows, ReconcileCounts
  <2>2. QED BY <2>1 DEF HandInv, procVars, IsLive, PlanRun
<1>3. CASE SubmitStep("daemon")
  <2>1. UNCHANGED reconVars
    BY <1>3, SubmitBeside DEF Procs
  <2>2. UNCHANGED pc["cli"]
    BY <1>3 DEF SubmitStep, Admit, ConsumeLook, ConsumeTxn, Recover, Fetch, Mark, Gate, Reserve, Reread,
         Send, Ack, Drain, Fail, CloseCanary, Goto, Finish, procVars, IInv, TypeOK, ProcTypeOK, Procs
  <2>3. Lives
    <3>1. pc'["daemon"] \in Sending => IsLive("daemon")'
      BY <1>3, SendingLive DEF IsLive, PlanRun
    <3>2. pc'["cli"] \notin Sending
      BY <2>2, CliPaper
    <3>3. QED BY <3>1, <3>2 DEF Procs
  <2>4. ASSUME reconciled = 0 PROVE Hands
    <3>1. CASE IsLive("daemon")
      BY <1>1, <1>3, <2>4, <3>1, DaemonRows DEF Procs
    <3>2. CASE ~IsLive("daemon")
      <4>1. pc'["daemon"] = "idle" \/ ~IsLive("daemon")'
        BY <1>3, <3>2 DEF SubmitStep, Admit, ConsumeLook, ConsumeTxn, Recover, Fetch, Mark, Gate, Reserve,
             Reread, Send, Ack, Drain, Fail, CloseCanary, Goto, Finish, procVars, IInv, TypeOK, ProcTypeOK,
             Procs, IsLive, PlanRun
      <4>2. QED BY <1>1, <4>1 DEF Procs
    <3>3. QED BY <3>1, <3>2
  <2>5. QED BY <2>1, <2>3, <2>4 DEF HandInv, reconVars
<1>4. CASE ~ReconcileStep /\ ~SubmitStep("daemon")
  <2>1. UNCHANGED reconVars /\ (\A o \in LiveOrders : intent'[o] = intent[o])
    BY <1>4, Beside, RowsStay
  <2>2. \A c \in Confs : ConfPlan[c] \in LivePlans /\ conf'[c] = "CONSUMED" => conf[c] = "CONSUMED"
    BY <1>4, Beside
  <2>3. pc'["cli"] \notin Sending
    BY <1>4, Beside
  <2>4. CASE UNCHANGED <<pc["daemon"], run["daemon"], cur["daemon"]>>
    <3>1. Lives
      BY <2>3, <2>4 DEF HandInv, IsLive, PlanRun, Procs
    <3>2. ASSUME reconciled = 0, pc["daemon"] # "idle", IsLive("daemon") PROVE InHand("daemon")'
      <4>1. InHand("daemon") /\ RunOK("daemon")
        BY <3>2 DEF HandInv, IInv, Procs
      <4>2. \A o \in OrdersOf(PlanRun("daemon")) : o \in LiveOrders
        BY <3>2 DEF OrdersOf, LiveOrders, IsLive
      <4>3. pc["daemon"] \in HoldsOrder => cur["daemon"] \in LiveOrders
        BY <4>1, <4>2 DEF RunOK
      <4>4. run["daemon"] \in Confs
        BY <4>1 DEF RunOK
      <4>5. QED
        BY <2>1, <2>2, <2>4, <3>2, <4>1, <4>2, <4>3, <4>4
        DEF InHand, IsLive, PlanRun, HoldsOrder, BeforeCall, Sending
    <3>3. reconciled = 0 => Hands
      BY <1>1, <2>4, <3>2 DEF Procs, IsLive, PlanRun
    <3>4. QED BY <2>1, <3>1, <3>3 DEF HandInv, reconVars
  <2>5. CASE pc'["daemon"] = "idle"
    BY <1>1, <2>1, <2>3, <2>5 DEF HandInv, reconVars, Procs, Sending
  <2>6. CASE pc'["daemon"] = "admit" /\ conf'[run'["daemon"]] = "APPROVED"
    <3>1. InHand("daemon")'
      BY <2>6 DEF InHand, Sending
    <3>2. QED BY <1>1, <2>1, <2>3, <2>6, <3>1 DEF HandInv, reconVars, Procs, Sending
  <2>7. QED BY <1>4, <2>4, <2>5, <2>6, Beside
<1>5. QED BY <1>2, <1>3, <1>4

\* HandInv is inductive.
THEOREM HandInductive == Spec => []HandInv
<1>1. Init => HandInv
  BY InitHand
<1>2. IInv /\ HandInv /\ [Next]_vars => HandInv'
  BY HandStep
<1>3. QED
  BY <1>1, <1>2, Inductive, PTL DEF Spec

\* The broker is called in Send and nowhere else.
LEMMA OnlySendCalls ==
  ASSUME IInv, [Next]_vars, \A p \in Procs : ~Send(p) PROVE UNCHANGED calls
<1>1. ASSUME NEW p \in Procs, SubmitStep(p) PROVE UNCHANGED calls
  BY <1>1 DEF SubmitStep, Admit, ConsumeLook, ConsumeTxn, Recover, Fetch, Mark, Gate, Reserve, Reread,
       Ack, Drain, Fail, CloseCanary, brokerVars
<1>2. CASE ReconcileStep
  BY <1>2, ReconcileRows DEF brokerVars
<1>3. CASE \E c \in Confs :
             \/ RequestConfirmation(c) \/ ApproveCheck(c) \/ ApproveCommit(c) \/ Reject(c)
             \/ CliCancel(c) \/ CliYesLive(c) \/ CliYesPaper(c) \/ DaemonExecute(c)
  BY <1>3 DEF RequestConfirmation, ApproveCheck, ApproveCommit, Reject, CliCancel, CliYesLive,
              CliYesPaper, DaemonExecute, brokerVars
<1>4. CASE CliRisk \/ CliLoad \/ OpenCanary \/ AccountMoves \/ UNCHANGED vars
  BY <1>4 DEF CliRisk, CliLoad, OpenCanary, AccountMoves, vars, brokerVars
<1>5. CASE \/ \E p \in Procs : Crash(p)
           \/ \E o \in Orders : BrokerMoves(o) \/ BrokerPush(o)
           \/ \E x \in Lapsing : Lapse(x)
  BY <1>5 DEF Crash, BrokerMoves, BrokerPush, Lapse, brokerVars
<1>6. QED
  BY <1>1, <1>2, <1>3, <1>4, <1>5 DEF Next

\* An order that became UNKNOWN is never sent again as long as no reconciliation runs
\* beside the submit calls, whatever crashes, pushes and re-executions come between.
THEOREM UnknownNotRetried == Spec => UnknownNeverRetriedAlone
<1>1. ASSUME IInv, HandInv, [Next]_vars, NEW o \in LiveOrders, reconciled = 0, intent[o] = "UNKNOWN"
      PROVE  calls'[o] = calls[o]
  <2>1. CASE \E p \in Procs : Send(p)
    <3>1. PICK p \in Procs : Send(p)
      BY <2>1
    <3>2. pc[p] = "send"
      BY <3>1 DEF Send
    <3>3. intent[cur[p]] = "SUBMITTING"
      BY <1>1, <3>2 DEF HandInv, InHand, Sending
    <3>4. calls' = calls \/ calls' = [calls EXCEPT ![cur[p]] = @ + 1]
      BY <3>1 DEF Send
    <3>5. calls \in [Orders -> Nat] /\ o \in Orders
      BY <1>1 DEF IInv, TypeOK, BrokerTypeOK, LiveOrders
    <3>6. QED BY <1>1, <3>3, <3>4, <3>5
  <2>2. QED BY <1>1, <2>1, OnlySendCalls
<1>2. IInv /\ HandInv /\ [Next]_vars =>
        [\A o \in LiveOrders : reconciled = 0 /\ intent[o] = "UNKNOWN" => calls'[o] = calls[o]]_vars
  BY <1>1
<1>3. QED
  BY <1>2, Inductive, HandInductive, PTL DEF Spec, UnknownNeverRetriedAlone

\* A LIVE run of the daemon past its admission keeps the LIVE rows clear of UNKNOWN
\* until it fails, but for what a push says.
LEMMA DaemonClean ==
  ASSUME IInv, HandInv, CleanInv, Remember, reconciled = 0,
         IsLive("daemon"), SubmitStep("daemon"), pc'["daemon"] \in PastAdmission
  PROVE  \A o \in LiveOrders : intent'[o] = "UNKNOWN" => o \in odd'
<1> DEFINE Clean == \A o \in LiveOrders : intent'[o] = "UNKNOWN" => o \in odd'
<1> SUFFICES Clean
  OBVIOUS
<1>1. /\ intent \in [Orders -> IntentStatus \cup {"NONE"}]
      /\ pc \in [Procs -> Steps] /\ "daemon" \in Procs
      /\ \A o \in LiveOrders : o \in Orders
  BY DEF IInv, TypeOK, IntentTypeOK, ProcTypeOK, Procs, LiveOrders
<1>2. pc["daemon"] \in PastAdmission => \A o \in LiveOrders : intent[o] = "UNKNOWN" => o \in odd
  BY <1>1 DEF CleanInv
<1>a. ASSUME pc["daemon"] \in PastAdmission,
             \A o \in LiveOrders : intent'[o] = "UNKNOWN" => intent[o] = "UNKNOWN" \/ MadeOdd(o)
      PROVE  Clean
  BY <1>1, <1>2, <1>a DEF Remember
<1>b. ASSUME \A o \in LiveOrders : intent'[o] # "UNKNOWN" PROVE Clean
  BY <1>b
<1> HIDE DEF Clean
<1>3. CASE Admit("daemon")
  <2>1. WithStatus({"UNKNOWN"}) = {} /\ UNCHANGED intent
    BY <1>1, <1>3 DEF Admit, Finish, RiskOK, PastAdmission, Sending, intentVars
  <2>2. QED BY <1>1, <1>b, <2>1 DEF WithStatus
<1>4. CASE ConsumeTxn("daemon")
  BY <1>1, <1>a, <1>4 DEF ConsumeTxn, Inserted, PastAdmission, Sending
<1>5. CASE Recover("daemon")
  <2>1. \A o \in OrdersOf(PlanRun("daemon")) : intent[o] = "PENDING"
    BY <1>1, <1>5 DEF HandInv, InHand, Recover
  <2>2. QED BY <1>1, <1>a, <1>5, <2>1 DEF Recover, PastAdmission, Sending
<1>6. CASE Mark("daemon") \/ Ack("daemon")
  BY <1>1, <1>a, <1>6 DEF Mark, Ack, SetStatus, PastAdmission, Sending
<1>7. CASE Drain("daemon")
  <2>1. pc["daemon"] \in PastAdmission
    BY <1>7 DEF Drain, PastAdmission, Sending
  <2>2. CASE queue = <<>>
    BY <1>a, <1>7, <2>1, <2>2 DEF Drain
  <2>3. CASE queue # <<>>
    <3>1. intent' = [intent EXCEPT ![Head(queue).order] = SetStatus(@, Head(queue).status)]
      BY <1>7, <2>3 DEF Drain
    <3>2. ASSUME NEW o \in LiveOrders, intent'[o] = "UNKNOWN", intent[o] # "UNKNOWN" PROVE MadeOdd(o)
      <4>1. Head(queue).order = o /\ Head(queue).status = "UNKNOWN"
        BY <1>1, <3>1, <3>2 DEF SetStatus
      <4>2. QED BY <1>1, <1>7, <2>3, <4>1 DEF MadeOdd
    <3>3. QED BY <1>a, <2>1, <3>2
  <2>4. QED BY <2>2, <2>3
<1>8. CASE \/ ConsumeLook("daemon") \/ Fetch("daemon") \/ Gate("daemon") \/ Reserve("daemon")
           \/ Reread("daemon") \/ Send("daemon")
  BY <1>1, <1>a, <1>8
  DEF ConsumeLook, Fetch, Gate, Reserve, Reread, Send, intentVars, PastAdmission, Sending
<1>9. ~Fail("daemon") /\ ~CloseCanary("daemon")
  BY <1>1 DEF Fail, CloseCanary, Goto, Finish, PastAdmission, Sending
<1>10. QED
  BY <1>3, <1>4, <1>5, <1>6, <1>7, <1>8, <1>9 DEF SubmitStep

\* CleanInv is kept.
LEMMA CleanStep ==
  ASSUME IInv, HandInv, CleanInv, [Next /\ Remember]_<<vars, odd>>
  PROVE  CleanInv'
<1>0. [Next]_vars
  OBVIOUS
<1>1. pc'["cli"] # "idle" => ~IsLive("cli")'
  BY <1>0, RunStep DEF RunOK, Procs
<1>2. SUFFICES ASSUME reconciled' = 0, pc'["daemon"] \in PastAdmission, IsLive("daemon")'
               PROVE  \A o \in LiveOrders : intent'[o] = "UNKNOWN" => o \in odd'
  BY <1>1 DEF CleanInv, Procs, PastAdmission, Sending
<1>3. ~ReconcileStep
  BY <1>2, ReconcileCounts
<1>4. reconciled = 0
  BY <1>0, <1>2, <1>3, RowsStay DEF reconVars
<1>5. CASE SubmitStep("daemon") /\ Remember
  <2>1. IsLive("daemon")
    BY <1>2, <1>5 DEF SubmitStep, Admit, ConsumeLook, ConsumeTxn, Recover, Fetch, Mark, Gate, Reserve,
         Reread, Send, Ack, Drain, Fail, CloseCanary, Goto, Finish, procVars, IInv, TypeOK, ProcTypeOK,
         Procs, IsLive, PlanRun, PastAdmission, Sending
  <2>2. QED BY <1>2, <1>4, <1>5, <2>1, DaemonClean
<1>6. CASE ~SubmitStep("daemon")
  <2>1. \A o \in LiveOrders : intent'[o] = intent[o]
    BY <1>0, <1>3, <1>6, Beside
  <2>2. UNCHANGED <<pc["daemon"], run["daemon"]>>
    BY <1>0, <1>2, <1>3, <1>6, Beside DEF PastAdmission, Sending
  <2>3. \A o \in LiveOrders : intent[o] = "UNKNOWN" => o \in odd
    BY <1>2, <1>4, <2>2 DEF CleanInv, IsLive, PlanRun, Procs
  <2>4. \A o \in LiveOrders : intent'[o] = "UNKNOWN" /\ o \in odd => o \in odd'
    BY <1>6 DEF Remember, LiveOrders
  <2>5. QED BY <2>1, <2>3, <2>4
<1>7. CASE UNCHANGED <<vars, odd>>
  BY <1>2, <1>7 DEF CleanInv, IsLive, PlanRun, Procs, vars, intentVars, procVars, reconVars
<1>8. QED BY <1>5, <1>6, <1>7

\* README.md:163 promises that no LIVE order is sent while some LIVE intent is UNKNOWN.
\* What the submit loop keeps, as long as no reconciliation runs beside it: an UNKNOWN
\* beside which it sends comes from a push with an odd status that it applied itself
\* (broker_live.py:428), never from a lost answer, a refusal, a crash or a retry.
THEOREM NoCallBesideUnknown ==
  OddSpec => [][reconciled = 0 /\ calls' # calls =>
                  \A o \in LiveOrders : intent[o] = "UNKNOWN" => o \in odd]_<<vars, odd>>
<1>1. Init => CleanInv
  BY InitHand
<1>2. IInv /\ HandInv /\ CleanInv /\ [Next /\ Remember]_<<vars, odd>> => CleanInv'
  BY CleanStep
<1>3. IInv /\ HandInv /\ CleanInv /\ [Next /\ Remember]_<<vars, odd>> =>
        [reconciled = 0 /\ calls' # calls =>
            \A o \in LiveOrders : intent[o] = "UNKNOWN" => o \in odd]_<<vars, odd>>
  <2> SUFFICES ASSUME IInv, HandInv, CleanInv, [Next]_vars, reconciled = 0, calls' # calls
               PROVE  \A o \in LiveOrders : intent[o] = "UNKNOWN" => o \in odd
    OBVIOUS
  <2>1. PICK p \in Procs : Send(p)
    BY OnlySendCalls
  <2>2. pc[p] = "send"
    BY <2>1 DEF Send
  <2>3. IsLive(p)
    BY <2>2 DEF HandInv, Sending
  <2>4. QED BY <2>2, <2>3 DEF CleanInv, PastAdmission, Sending
<1>4. QED
  BY <1>1, <1>2, <1>3, Inductive, HandInductive, PTL DEF Spec, OddSpec

(***************************************************************************)
(* Consuming a plan                                                        *)
(***************************************************************************)
Unused == {"NONE", "PENDING", "APPROVED"}

\* Every row of the plan of c is there and c's.
Owns(c) == \A o \in OrdersOf(ConfPlan[c]) : by[o] = c /\ intent[o] # "NONE"

\* What the transaction of consume() relies on and leaves: the broker knows orders with
\* rows only, a row names its confirmation, which is used up, a consumed confirmation
\* owns the rows of its plan, and a plan has all its rows from one confirmation or none.
PlanInv ==
    /\ \A o \in Orders : bstat[o] # "NONE" => intent[o] # "NONE"
    /\ \A o \in Orders : by[o] \in Confs => conf[by[o]] \notin Unused
    /\ \A c \in Confs : conf[c] = "CONSUMED" => Owns(c)
    /\ WholePlanConsumed

\* A confirmation that is used up stays so, and consume() uses up the one it takes.
LEMMA TicketsUsed ==
  ASSUME IInv, [Next]_vars
  PROVE  \A c \in Confs : conf[c] \notin Unused => conf'[c] \notin Unused
<1> DEFINE Used == \A c \in Confs : conf[c] \notin Unused => conf'[c] \notin Unused
<1> SUFFICES Used
  OBVIOUS
<1>1. conf \in [Confs -> ConfStatus]
  BY DEF IInv, TypeOK, ConfTypeOK
<1>2. CASE \E c \in Confs :
             \/ RequestConfirmation(c) \/ ApproveCommit(c) \/ Reject(c) \/ CliCancel(c) \/ CliYesPaper(c)
  BY <1>1, <1>2 DEF RequestConfirmation, ApproveCommit, Reject, CliCancel, CliYesPaper, Unused
<1>3. CASE CliRisk \/ \E p \in Procs : ConsumeTxn(p)
  BY <1>1, <1>3 DEF CliRisk, ConsumeTxn, Unused
<1>4. CASE UNCHANGED conf
  BY <1>4
<1>5. ASSUME NEW p \in Procs, SubmitStep(p), ~ConsumeTxn(p) PROVE UNCHANGED conf
  BY <1>5 DEF SubmitStep, Admit, ConsumeLook, Recover, Fetch, Mark, Gate, Reserve, Reread, Send,
       Ack, Drain, Fail, CloseCanary, confVars
<1>6. CASE ReconcileStep
  BY <1>6, ReconcileRows DEF confVars
<1>7. CASE \/ \E c \in Confs : ApproveCheck(c) \/ CliYesLive(c) \/ DaemonExecute(c)
           \/ CliLoad \/ OpenCanary \/ AccountMoves \/ UNCHANGED vars
           \/ \E p \in Procs : Crash(p)
           \/ \E o \in Orders : BrokerMoves(o) \/ BrokerPush(o)
           \/ \E x \in Lapsing : Lapse(x)
  BY <1>7 DEF ApproveCheck, CliYesLive, DaemonExecute, CliLoad, OpenCanary, AccountMoves, vars, Crash,
              BrokerMoves, BrokerPush, Lapse, confVars
<1> HIDE DEF Used
<1>8. QED
  BY <1>2, <1>3, <1>4, <1>5, <1>6, <1>7 DEF Next

\* Only consume() makes a confirmation CONSUMED.
LEMMA TicketsConsumed ==
  ASSUME IInv, [Next]_vars, \A p \in Procs : ~ConsumeTxn(p)
  PROVE  \A c \in Confs : conf'[c] = "CONSUMED" => conf[c] = "CONSUMED"
<1> DEFINE Same == \A c \in Confs : conf'[c] = "CONSUMED" => conf[c] = "CONSUMED"
<1> SUFFICES Same
  OBVIOUS
<1>1. conf \in [Confs -> ConfStatus]
  BY DEF IInv, TypeOK, ConfTypeOK
<1>2. CASE \/ \E c \in Confs :
                \/ RequestConfirmation(c) \/ ApproveCommit(c) \/ Reject(c) \/ CliCancel(c) \/ CliYesPaper(c)
           \/ CliRisk
  BY <1>1, <1>2 DEF RequestConfirmation, ApproveCommit, Reject, CliCancel, CliYesPaper, CliRisk
<1>3. CASE UNCHANGED conf
  BY <1>3
<1>4. ASSUME NEW p \in Procs, SubmitStep(p) PROVE UNCHANGED conf
  BY <1>4 DEF SubmitStep, Admit, ConsumeLook, Recover, Fetch, Mark, Gate, Reserve, Reread, Send,
       Ack, Drain, Fail, CloseCanary, confVars
<1>5. CASE ReconcileStep
  BY <1>5, ReconcileRows DEF confVars
<1>6. CASE \/ \E c \in Confs : ApproveCheck(c) \/ CliYesLive(c) \/ DaemonExecute(c)
           \/ CliLoad \/ OpenCanary \/ AccountMoves \/ UNCHANGED vars
           \/ \E p \in Procs : Crash(p)
           \/ \E o \in Orders : BrokerMoves(o) \/ BrokerPush(o)
           \/ \E x \in Lapsing : Lapse(x)
  BY <1>6 DEF ApproveCheck, CliYesLive, DaemonExecute, CliLoad, OpenCanary, AccountMoves, vars, Crash,
              BrokerMoves, BrokerPush, Lapse, confVars
<1> HIDE DEF Same
<1>7. QED
  BY <1>2, <1>3, <1>4, <1>5, <1>6 DEF Next

\* Only consume() makes a row appear or names a confirmation.
LEMMA RowsAppear ==
  ASSUME IInv, PlanInv, [Next]_vars, \A p \in Procs : ~ConsumeTxn(p)
  PROVE  UNCHANGED by /\ \A o \in Orders : intent'[o] = "NONE" <=> intent[o] = "NONE"
<1> DEFINE Same == UNCHANGED by /\ \A o \in Orders : intent'[o] = "NONE" <=> intent[o] = "NONE"
<1> SUFFICES Same
  OBVIOUS
<1>1. intent \in [Orders -> IntentStatus \cup {"NONE"}]
  BY DEF IInv, TypeOK, IntentTypeOK
<1>2. \A p \in Procs : pc[p] \in HoldsOrder => cur[p] \in Orders /\ intent[cur[p]] # "NONE"
  BY DEF IInv, RunOK, OrdersOf, HoldsOrder, BeforeCall
<1>3. ASSUME NEW p \in Procs, SubmitStep(p) PROVE Same
  <2>1. CASE Recover(p)
    BY <1>1, <2>1 DEF Recover
  <2>2. CASE Mark(p) \/ Ack(p) \/ Fail(p)
    BY <1>1, <1>2, <2>2 DEF Mark, Ack, Fail, SetStatus, HoldsOrder, BeforeCall
  <2>3. CASE Drain(p)
    <3>1. CASE queue = <<>>
      BY <2>3, <3>1 DEF Drain
    <3>2. CASE queue # <<>>
      <4>1. Head(queue) = queue[1] /\ 1 \in 1..Len(queue)
        BY <3>2, QueueHead DEF IInv, TypeOK, BrokerTypeOK
      <4>2. Head(queue).order \in Orders
        BY <4>1, QueueOrders DEF IInv, TypeOK
      <4>3. intent[Head(queue).order] # "NONE"
        BY <4>1, <4>2 DEF IInv, BrokerOK, PlanInv
      <4>4. intent' = [intent EXCEPT ![Head(queue).order] = SetStatus(@, Head(queue).status)]
        BY <2>3, <3>2 DEF Drain
      <4>5. intent'[Head(queue).order] # "NONE"
        BY <2>3, <4>2, <4>3, DrainRows DEF IInv
      <4>6. QED BY <1>1, <2>3, <4>2, <4>3, <4>4, <4>5 DEF Drain
    <3>3. QED BY <3>1, <3>2
  <2>4. CASE UNCHANGED <<intent, by>>
    BY <2>4
  <2>5. QED
    BY <1>3, <2>1, <2>2, <2>3, <2>4
    DEF SubmitStep, Admit, ConsumeLook, Fetch, Gate, Reserve, Reread, Send, CloseCanary, intentVars
<1>4. CASE ReconcileStep
  BY <1>4, ReconcileRows
<1>5. CASE \E c \in Confs :
             \/ RequestConfirmation(c) \/ ApproveCheck(c) \/ ApproveCommit(c) \/ Reject(c)
             \/ CliCancel(c) \/ CliYesLive(c) \/ CliYesPaper(c) \/ DaemonExecute(c)
  BY <1>5 DEF RequestConfirmation, ApproveCheck, ApproveCommit, Reject, CliCancel, CliYesLive,
              CliYesPaper, DaemonExecute, intentVars
<1>6. CASE CliRisk \/ CliLoad \/ OpenCanary \/ AccountMoves \/ UNCHANGED vars
  BY <1>6 DEF CliRisk, CliLoad, OpenCanary, AccountMoves, vars, intentVars
<1>7. CASE \/ \E p \in Procs : Crash(p)
           \/ \E o \in Orders : BrokerMoves(o) \/ BrokerPush(o)
           \/ \E x \in Lapsing : Lapse(x)
  BY <1>7 DEF Crash, BrokerMoves, BrokerPush, Lapse, intentVars
<1> HIDE DEF Same
<1>8. QED
  BY <1>3, <1>4, <1>5, <1>6, <1>7 DEF Next

\* The broker knows no order without a row.
LEMMA KnownHasRow ==
  ASSUME IInv, PlanInv, [Next]_vars, NEW o \in Orders, bstat'[o] # "NONE"
  PROVE  intent[o] # "NONE"
<1>1. bstat \in [Orders -> Terminal \cup {"NONE", "SUBMITTED"}]
  BY DEF IInv, TypeOK, BrokerTypeOK
<1>2. CASE bstat[o] # "NONE"
  BY <1>2 DEF PlanInv
<1>3. CASE bstat[o] = "NONE"
  <2>1. bstat' # bstat
    BY <1>3
  <2>2. CASE \E p \in Procs : Send(p)
    <3>1. PICK p \in Procs : Send(p)
      BY <2>2
    <3>2. cur[p] \in Orders /\ intent[cur[p]] # "NONE"
      BY <3>1 DEF Send, IInv, RunOK, HoldsOrder, BeforeCall, OrdersOf
    <3>3. bstat' = [bstat EXCEPT ![cur[p]] = "SUBMITTED"]
      BY <2>1, <3>1 DEF Send
    <3>4. QED BY <1>1, <1>3, <3>2, <3>3
  <2>3. CASE \E q \in Orders : BrokerMoves(q)
    BY <1>1, <1>3, <2>3 DEF BrokerMoves, Terminal
  <2>4. ASSUME NEW p \in Procs, SubmitStep(p), ~Send(p) PROVE UNCHANGED bstat
    BY <2>4 DEF SubmitStep, Admit, ConsumeLook, ConsumeTxn, Recover, Fetch, Mark, Gate, Reserve, Reread,
         Ack, Drain, Fail, CloseCanary, brokerVars
  <2>5. ~ReconcileStep
    BY <2>1, ReconcileRows DEF brokerVars
  <2>6. ~\E c \in Confs :
             \/ RequestConfirmation(c) \/ ApproveCheck(c) \/ ApproveCommit(c) \/ Reject(c)
             \/ CliCancel(c) \/ CliYesLive(c) \/ CliYesPaper(c) \/ DaemonExecute(c)
    BY <2>1 DEF RequestConfirmation, ApproveCheck, ApproveCommit, Reject, CliCancel, CliYesLive,
                CliYesPaper, DaemonExecute, brokerVars
  <2>7. ~(CliRisk \/ CliLoad \/ OpenCanary \/ AccountMoves \/ UNCHANGED vars)
    BY <2>1 DEF CliRisk, CliLoad, OpenCanary, AccountMoves, vars, brokerVars
  <2>8. ~(\/ \E p \in Procs : Crash(p)
          \/ \E q \in Orders : BrokerPush(q)
          \/ \E x \in Lapsing : Lapse(x))
    BY <2>1 DEF Crash, BrokerPush, Lapse, brokerVars
  <2>9. QED
    BY <2>1, <2>2, <2>3, <2>4, <2>5, <2>6, <2>7, <2>8 DEF Next
<1>4. QED BY <1>2, <1>3

\* The transaction gives a plan all its rows, and uses up the confirmation.
LEMMA ConsumeWhole ==
  ASSUME IInv, PlanInv, NEW p \in Procs, ConsumeTxn(p)
  PROVE  /\ WholePlanConsumed'
         /\ \A c \in Confs : conf'[c] = "CONSUMED" => Owns(c)'
         /\ \A o \in Orders : by'[o] \in Confs => by'[o] = by[o] \/ conf'[by'[o]] = "CONSUMED"
<1>1. /\ conf \in [Confs -> ConfStatus]
      /\ intent \in [Orders -> IntentStatus \cup {"NONE"}]
      /\ by \in [Orders -> Confs \cup {NoConf}]
      /\ run[p] \in Confs
  BY DEF IInv, TypeOK, ConfTypeOK, IntentTypeOK, RunOK, ConsumeTxn
<1>2. CASE UNCHANGED <<intent, by, conf>>
  BY <1>2 DEF PlanInv, WholePlanConsumed, Owns
<1>3. CASE ~UNCHANGED <<intent, by, conf>>
  <2>1. /\ Existing(PlanRun(p)) = {}
        /\ intent' = [o \in Orders |-> IF o \in OrdersOf(PlanRun(p)) THEN "PENDING" ELSE intent[o]]
        /\ by' = [o \in Orders |-> IF o \in OrdersOf(PlanRun(p)) THEN run[p] ELSE by[o]]
        /\ conf' = [conf EXCEPT ![run[p]] = "CONSUMED"]
    BY <1>3 DEF ConsumeTxn, StillNew, Inserted, PlanRun
  <2>2. WholePlanConsumed'
    BY <2>1 DEF PlanInv, WholePlanConsumed, OrdersOf
  <2>3. \A o \in Orders : by'[o] = by[o] \/ (by'[o] = run[p] /\ conf'[run[p]] = "CONSUMED")
    BY <1>1, <2>1
  <2>4. ASSUME NEW c \in Confs, conf'[c] = "CONSUMED" PROVE Owns(c)'
    <3>1. CASE c = run[p]
      BY <2>1, <3>1 DEF Owns, OrdersOf, PlanRun
    <3>2. CASE c # run[p]
      <4>1. Owns(c)
        BY <1>1, <2>1, <2>4, <3>2 DEF PlanInv
      <4>2. \A o \in OrdersOf(ConfPlan[c]) : o \in Orders /\ o \notin OrdersOf(PlanRun(p))
        BY <2>1, <4>1 DEF Owns, Existing, OrdersOf
      <4>3. QED BY <2>1, <4>1, <4>2 DEF Owns
    <3>3. QED BY <3>1, <3>2
  <2>5. QED BY <2>2, <2>3, <2>4
<1>4. QED BY <1>2, <1>3

\* PlanInv is inductive.
THEOREM PlanInductive == Spec => []PlanInv
<1>1. Init => PlanInv
  BY PlanAssumption DEF Init, PlanInv, WholePlanConsumed, Owns
<1>2. ASSUME IInv, PlanInv, [Next]_vars PROVE PlanInv'
  <2>1. \A o \in Orders : intent[o] # "NONE" => intent'[o] # "NONE"
    BY <1>2, RowsStay, ReconcileRows
  <2>2. \A o \in Orders : bstat'[o] # "NONE" => intent'[o] # "NONE"
    BY <1>2, <2>1, KnownHasRow
  <2>3. CASE \A p \in Procs : ~ConsumeTxn(p)
    <3>1. UNCHANGED by /\ \A o \in Orders : intent'[o] = "NONE" <=> intent[o] = "NONE"
      BY <1>2, <2>3, RowsAppear
    <3>2. WholePlanConsumed'
      BY <1>2, <3>1 DEF PlanInv, WholePlanConsumed
    <3>3. \A c \in Confs : conf'[c] = "CONSUMED" => Owns(c)'
      BY <1>2, <2>3, <3>1, TicketsConsumed DEF PlanInv, Owns, OrdersOf
    <3>4. QED BY <1>2, <2>2, <3>1, <3>2, <3>3, TicketsUsed DEF PlanInv
  <2>4. CASE \E p \in Procs : ConsumeTxn(p)
    <3>1. /\ WholePlanConsumed'
          /\ \A c \in Confs : conf'[c] = "CONSUMED" => Owns(c)'
          /\ \A o \in Orders : by'[o] \in Confs => by'[o] = by[o] \/ conf'[by'[o]] = "CONSUMED"
      BY <1>2, <2>4, ConsumeWhole
    <3>2. \A o \in Orders : by'[o] \in Confs => conf'[by'[o]] \notin Unused
      <4> SUFFICES ASSUME NEW o \in Orders, by'[o] \in Confs PROVE conf'[by'[o]] \notin Unused
        OBVIOUS
      <4>1. CASE by'[o] = by[o]
        BY <1>2, <4>1, TicketsUsed DEF PlanInv
      <4>2. CASE conf'[by'[o]] = "CONSUMED"
        BY <4>2 DEF Unused
      <4>3. QED BY <3>1, <4>1, <4>2
    <3>3. QED BY <2>2, <3>1, <3>2 DEF PlanInv
  <2>5. QED BY <2>3, <2>4
<1>3. QED
  BY <1>1, <1>2, Inductive, PTL DEF Spec

\* consume() is all or nothing, whatever crashes and concurrent executions: a plan has
\* all its rows, under one confirmation, or none.
THEOREM ConsumedWhole == Spec => []WholePlanConsumed
<1>1. PlanInv => WholePlanConsumed
  BY DEF PlanInv
<1>2. QED
  BY <1>1, PlanInductive, PTL

\* A consumed confirmation owns the rows of its plan, so no two of one plan are consumed,
\* and one that owns rows cannot authorise a second run.
THEOREM ConsumedOnce == Spec => []NotConsumedTwice
<1>1. PlanInv => NotConsumedTwice
  BY DEF PlanInv, NotConsumedTwice, Unused, Owns
<1>2. QED
  BY <1>1, PlanInductive, PTL

(***************************************************************************)
(* The canaries bound what is sent                                         *)
(***************************************************************************)
\* What the canaries opened so far still allow, and what was taken of them.
RoomInv ==
    /\ IsFiniteSet(usage)
    /\ Cardinality(usage) + canary <= opened * CanaryOrders

\* A reservation takes one order of the canary, an opening adds CanaryOrders of them,
\* and every other step leaves the canary or closes it.
LEMMA RoomStep == ASSUME IInv, RoomInv, [Next]_vars PROVE RoomInv'
<1> DEFINE Shrinks == UNCHANGED <<usage, opened>> /\ canary' \in {canary, 0}
<1>1. canary \in Nat /\ opened \in Nat /\ CanaryOrders \in Nat /\ opened * CanaryOrders \in Nat
  BY PlanAssumption DEF IInv, TypeOK, CanaryTypeOK
<1>2. Cardinality(usage) \in Nat
  BY FS_CardinalityType DEF RoomInv
<1>3. CASE Shrinks
  <2>1. canary' \in Nat /\ canary' <= canary
    BY <1>1, <1>3
  <2>2. QED BY <1>1, <1>2, <1>3, <2>1 DEF RoomInv
<1>4. CASE OpenCanary
  <2>1. canary = 0 /\ canary' = CanaryOrders /\ opened' = opened + 1 /\ usage' = usage
    BY <1>4 DEF OpenCanary
  <2>2. (opened + 1) * CanaryOrders = opened * CanaryOrders + CanaryOrders
    BY <1>1
  <2>3. QED BY <1>1, <1>2, <2>1, <2>2 DEF RoomInv
<1>5. ASSUME NEW p \in Procs, Reserve(p) PROVE RoomInv'
  <2>1. CASE Reserved(cur[p]) \/ usage' = usage
    BY <1>3, <1>5, <2>1 DEF Reserve, Reserved
  <2>2. CASE ~Reserved(cur[p]) /\ usage' # usage
    <3>1. /\ usage' = usage \cup {cur[p]} /\ cur[p] \notin usage
          /\ canary > 0 /\ canary' \in {canary - 1, 0} /\ opened' = opened
      BY <1>5, <2>2 DEF Reserve, Reserved, CanaryHasRoom
    <3>2. IsFiniteSet(usage') /\ Cardinality(usage') = Cardinality(usage) + 1
      BY <3>1, FS_AddElement DEF RoomInv
    <3>3. canary' \in Nat /\ canary' <= canary - 1
      BY <1>1, <3>1
    <3>4. QED BY <1>1, <1>2, <3>1, <3>2, <3>3 DEF RoomInv
  <2>3. QED BY <2>1, <2>2
<1>6. ASSUME NEW p \in Procs, SubmitStep(p), ~Reserve(p) PROVE Shrinks
  BY <1>6 DEF SubmitStep, Admit, CanaryAfterRefusal, AfterExpiry, ConsumeLook, ConsumeTxn, Recover, Fetch, Mark, Gate,
       Reread, Send, Ack, Drain, Fail, CloseCanary, canaryVars
<1>7. CASE ReconcileStep
  <2>1. Shrinks
    BY <1>7, ReconcileRows
  <2>2. QED BY <1>3, <2>1
<1>8. CASE \/ \E c \in Confs :
                \/ RequestConfirmation(c) \/ ApproveCheck(c) \/ ApproveCommit(c) \/ Reject(c)
                \/ CliCancel(c) \/ CliYesLive(c) \/ CliYesPaper(c) \/ DaemonExecute(c)
           \/ CliRisk \/ CliLoad \/ AccountMoves \/ UNCHANGED vars
           \/ \E p \in Procs : Crash(p)
           \/ \E o \in Orders : BrokerMoves(o) \/ BrokerPush(o)
           \/ \E x \in Lapsing : Lapse(x)
  <2>1. Shrinks
    BY <1>8 DEF RequestConfirmation, ApproveCheck, ApproveCommit, Reject, CliCancel, CliYesLive,
                CliYesPaper, DaemonExecute, CliRisk, CliLoad, AccountMoves, vars, Crash, BrokerMoves,
                BrokerPush, Lapse, canaryVars
  <2>2. QED BY <1>3, <2>1
<1>9. QED
  BY <1>3, <1>4, <1>5, <1>6, <1>7, <1>8 DEF Next

\* RoomInv is inductive.
THEOREM RoomInductive == Spec => []RoomInv
<1>1. Init => RoomInv
  BY PlanAssumption, FS_EmptySet DEF Init, RoomInv
<1>2. IInv /\ RoomInv /\ [Next]_vars => RoomInv'
  BY RoomStep
<1>3. QED
  BY <1>1, <1>2, Inductive, PTL DEF Spec

\* However the daemon crashes and is restarted, it sends no more LIVE orders than the
\* canaries opened so far allow.
THEOREM CanariesBound == Spec => []CallsWithinCanaries
<1>1. ASSUME IInv, RoomInv PROVE CallsWithinCanaries
  <2> DEFINE Called == {o \in LiveOrders : calls[o] > 0}
  <2>1. Called \subseteq usage
    BY <1>1 DEF IInv, CalledOK
  <2>2. IsFiniteSet(Called) /\ Cardinality(Called) <= Cardinality(usage)
    BY <1>1, <2>1, FS_Subset DEF RoomInv
  <2>3. /\ Cardinality(usage) \in Nat /\ Cardinality(Called) \in Nat
        /\ canary \in Nat /\ opened * CanaryOrders \in Nat
    BY <1>1, <2>2, FS_CardinalityType, PlanAssumption DEF RoomInv, IInv, TypeOK, CanaryTypeOK
  <2>4. QED BY <1>1, <2>2, <2>3 DEF RoomInv, CallsWithinCanaries
<1>2. QED
  BY <1>1, Inductive, RoomInductive, PTL
===============================================================================
