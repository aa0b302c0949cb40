--------------------------- MODULE OrderEventsProofs ---------------------------
(***************************************************************************)
(* The fills of an order never exceed it and FILLED means full, for any    *)
(* quantity, prices, executions, pushes and crashes and for either or both *)
(* processes: a fill is capped and named FILLED in the transaction that    *)
(* records it, and no other statement writes FILLED.  While the processes  *)
(* take turns, the fills are also ones the broker executed, and terminal   *)
(* states stay.                                                            *)
(***************************************************************************)
EXTENDS MCOrderEvents, TLAPS

\* FILLED is never the status about to be written outside of a fill.
OnlyFillsFill == \A p \in Procs : target[p] # "FILLED"

\* The part of the types the argument needs.
StoreTypes ==
    /\ total \in Nat
    /\ delta \in [Procs -> Nat]
    /\ target \in [Procs -> Statuses \cup {"none"}]
    /\ snap \in [Procs -> Snapshots \cup {NoSnapshot}]
    /\ executed \in Levels \cup {0}
    /\ bstat \in Statuses
    /\ past \subseteq Snapshots
    /\ queue \in Seq(Snapshots)

EventsInv == StoreTypes /\ OnlyFillsFill /\ NeverOverfilled /\ FilledIsFull

\* Levels and cumulative quantities are numbers.
LEMMA Numbers == /\ Quantity \in Nat \ {0}
                 /\ \A l \in Levels : l \in Nat
                 /\ \A s \in Snapshots \cup {NoSnapshot} : s.cum \in Nat
<1>1. Quantity \in Nat \ {0} /\ \A l \in Levels : l \in Nat
  BY EventsAssumption
<1>2. QED
  BY <1>1 DEF Snapshots, NoSnapshot

LEMMA EventsInit == Init => EventsInv
<1> SUFFICES ASSUME Init PROVE EventsInv
  OBVIOUS
<1>1. StoreTypes
  BY DEF Init, StoreTypes, Statuses, Terminal, Active, Snapshots, NoSnapshot
<1>2. QED
  BY <1>1, Numbers DEF Init, EventsInv, OnlyFillsFill, NeverOverfilled, FilledIsFull

\* What the broker and the pushes do is not in the store.
LEMMA BrokerKeeps == EventsInv /\ (Execute \/ Withdraw \/ Push \/ Take) => EventsInv'
<1> SUFFICES ASSUME EventsInv, Execute \/ Withdraw \/ Push \/ Take PROVE EventsInv'
  OBVIOUS
<1>1. UNCHANGED <<status, total, delta, target>>
  BY DEF Execute, Withdraw, BecomesAtBroker, Push, Take, storeVars
<1>2. StoreTypes'
  <2>1. CASE Execute \/ Withdraw
    <3>1. PICK cum \in Levels \cup {0}, s \in Statuses : BecomesAtBroker(cum, s)
      BY <2>1 DEF Execute, Withdraw, EventsInv, StoreTypes, Statuses, Terminal, Active
    <3>2. [cum |-> cum, status |-> s] \in Snapshots
      BY DEF Snapshots
    <3>3. QED
      BY <3>1, <3>2, <1>1 DEF BecomesAtBroker, pushVars, EventsInv, StoreTypes
  <2>2. CASE Push
    <3>1. PICK s \in past : \E o \in Observed(s) : queue' = Append(queue, o)
      BY <2>2 DEF Push
    <3>2. Observed(s) \subseteq Snapshots
      BY <3>1 DEF EventsInv, StoreTypes, Observed, Snapshots, Statuses, Active
    <3>3. queue' \in Seq(Snapshots)
      BY <3>1, <3>2 DEF EventsInv, StoreTypes
    <3>4. QED
      BY <2>2, <3>3, <1>1 DEF Push, brokerVars, EventsInv, StoreTypes
  <2>3. CASE Take
    <3>1. Head(queue) \in Snapshots /\ Tail(queue) \in Seq(Snapshots)
      BY <2>3 DEF Take, EventsInv, StoreTypes
    <3>2. QED
      BY <2>3, <3>1, <1>1 DEF Take, brokerVars, EventsInv, StoreTypes
  <2>4. QED
    BY <2>1, <2>2, <2>3
<1>3. QED
  BY <1>1, <1>2 DEF EventsInv, OnlyFillsFill, NeverOverfilled, FilledIsFull

\* Queries write nothing, and the only status they prepare is UNKNOWN.
LEMMA PollKeeps == EventsInv /\ (PollList \/ PollAnswered \/ PollFailed \/ Reconcile) => EventsInv'
<1> SUFFICES ASSUME EventsInv, PollList \/ PollAnswered \/ PollFailed \/ Reconcile PROVE EventsInv'
  OBVIOUS
<1>1. UNCHANGED <<status, total, delta, executed, bstat, past, queue>>
  BY DEF PollList, PollAnswered, PollFailed, Reconcile, storeVars, brokerVars, pushVars
<1>2. /\ target' \in [Procs -> Statuses \cup {"none"}]
      /\ \A p \in Procs : target'[p] # "FILLED"
  BY DEF PollList, PollAnswered, PollFailed, Reconcile, EventsInv, StoreTypes, OnlyFillsFill,
         Statuses, Active
<1>3. snap' \in [Procs -> Snapshots \cup {NoSnapshot}]
  <2>1. CASE PollAnswered
    <3>1. PICK s \in Observed([cum |-> executed, status |-> bstat]) :
            snap' = [snap EXCEPT !["reconcile"] = s]
      BY <2>1 DEF PollAnswered
    <3>2. s \in Snapshots
      BY <3>1 DEF EventsInv, StoreTypes, Observed, Snapshots, Statuses, Active
    <3>3. QED
      BY <3>1, <3>2 DEF EventsInv, StoreTypes
  <2>2. CASE PollFailed
    BY <2>2 DEF PollFailed, EventsInv, StoreTypes, Snapshots, Statuses, Active
  <2>3. CASE PollList \/ Reconcile
    BY <2>3 DEF PollList, Reconcile, EventsInv, StoreTypes
  <2>4. QED
    BY <2>1, <2>2, <2>3
<1>4. QED
  BY <1>1, <1>2, <1>3 DEF EventsInv, StoreTypes, OnlyFillsFill, NeverOverfilled, FilledIsFull

\* Applying a snapshot, recording a fill and writing a status.
LEMMA StepKeeps == ASSUME EventsInv, NEW p \in Procs, Step(p) \/ Crash(p) PROVE EventsInv'
<1>1. CASE Apply(p)
  <2>1. UNCHANGED <<status, total, snap, executed, bstat, past, queue>>
    BY <1>1 DEF Apply, storeVars, brokerVars, pushVars
  <2>2. delta' \in [Procs -> Nat]
    <3>1. snap[p].cum \in Nat /\ total \in Nat
      BY Numbers DEF EventsInv, StoreTypes
    <3>2. snap[p].cum > total => Increment(p) \in Nat
      BY <3>1 DEF Increment
    <3>3. QED
      BY <1>1, <3>2 DEF Apply, EventsInv, StoreTypes
  <2>3. /\ target' \in [Procs -> Statuses \cup {"none"}]
        /\ \A q \in Procs : target'[q] # "FILLED"
    <3>1. CASE pc[p] = "apply" /\ snap[p].cum <= total /\ snap[p].status # "FILLED"
               /\ target' = [target EXCEPT ![p] = snap[p].status]
      <4>1. snap[p].status \in Statuses \cup {"none"}
        BY DEF EventsInv, StoreTypes, Snapshots, NoSnapshot
      <4>2. QED
        BY <3>1, <4>1 DEF EventsInv, StoreTypes, OnlyFillsFill
    <3>2. CASE UNCHANGED target
      BY <3>2 DEF EventsInv, StoreTypes, OnlyFillsFill
    <3>3. QED
      BY <1>1, <3>1, <3>2 DEF Apply
  <2>4. QED
    BY <2>1, <2>2, <2>3 DEF EventsInv, StoreTypes, OnlyFillsFill, NeverOverfilled, FilledIsFull
<1>2. CASE Fill(p)
  <2>1. UNCHANGED <<snap, delta, target, executed, bstat, past, queue>>
    BY <1>2 DEF Fill, brokerVars, pushVars
  <2>2. CASE Ignored(p)
    BY <1>2, <2>1, <2>2 DEF Fill, storeVars, EventsInv, StoreTypes, OnlyFillsFill,
       NeverOverfilled, FilledIsFull
  <2>3. CASE ~Ignored(p)
    <3>1. total' = total + Accepted(p) /\ status' = FillStatus(p)
      BY <1>2, <2>3 DEF Fill
    <3>2. total \in Nat /\ Quantity \in Nat /\ delta[p] \in Nat /\ total < Quantity
      BY <2>3, Numbers DEF Ignored, EventsInv, StoreTypes
    <3>3. total' \in Nat /\ total' <= Quantity
      BY <3>1, <3>2 DEF Accepted
    <3>4. status # "FILLED"
      BY <3>2 DEF EventsInv, FilledIsFull
    <3>5. status' = "FILLED" => total' = Quantity
      BY <3>1, <3>2, <3>3, <3>4 DEF FillStatus
    <3>6. QED
      BY <2>1, <3>3, <3>5 DEF EventsInv, StoreTypes, OnlyFillsFill, NeverOverfilled, FilledIsFull
  <2>4. QED
    BY <2>2, <2>3
<1>3. CASE SetRead(p)
  BY <1>3 DEF SetRead, storeVars, brokerVars, pushVars, EventsInv, StoreTypes, OnlyFillsFill,
     NeverOverfilled, FilledIsFull
<1>4. CASE SetWrite(p)
  BY <1>4 DEF SetWrite, brokerVars, pushVars, EventsInv, StoreTypes, OnlyFillsFill,
     NeverOverfilled, FilledIsFull
<1>5. CASE Crash(p)
  <2>1. queue' \in Seq(Snapshots) /\ snap' \in [Procs -> Snapshots \cup {NoSnapshot}]
    BY <1>5 DEF Crash, EventsInv, StoreTypes
  <2>2. QED
    BY <1>5, <2>1 DEF Crash, storeVars, brokerVars, EventsInv, StoreTypes, OnlyFillsFill,
       NeverOverfilled, FilledIsFull
<1>6. QED
  BY <1>1, <1>2, <1>3, <1>4, <1>5 DEF Step

LEMMA EventsStep == EventsInv /\ [Next]_vars => EventsInv'
<1> SUFFICES ASSUME EventsInv, [Next]_vars PROVE EventsInv'
  OBVIOUS
<1>1. CASE UNCHANGED vars
  BY <1>1 DEF vars, brokerVars, pushVars, storeVars, EventsInv, StoreTypes, OnlyFillsFill,
     NeverOverfilled, FilledIsFull
<1>2. CASE Next
  BY <1>2, BrokerKeeps, PollKeeps, StepKeeps DEF Next
<1>3. QED
  BY <1>1, <1>2

\* The invariant holds of every reachable state.
THEOREM EventsInductive == Spec => []EventsInv
BY EventsInit, EventsStep, PTL DEF Spec

\* No order is overfilled, whatever two processes make of late and repeated snapshots.
THEOREM Capped == Spec => []NeverOverfilled
<1>1. EventsInv => NeverOverfilled
  BY DEF EventsInv
<1>2. QED
  BY <1>1, EventsInductive, PTL

\* FILLED means that the fills add up to the order.
THEOREM FilledFull == Spec => []FilledIsFull
<1>1. EventsInv => FilledIsFull
  BY DEF EventsInv
<1>2. QED
  BY <1>1, EventsInductive, PTL

-------------------------------------------------------------------------------
\* Snapshots tell what the broker executed at some time, however late, repeated or
\* out of order they are.
Honest ==
    /\ \A s \in past : s.cum <= executed
    /\ \A i \in 1..Len(queue) : queue[i].cum <= executed
    /\ \A p \in Procs : snap[p].cum <= executed

LEMMA HonestFirst == Init => Honest
BY DEF Init, Honest, NoSnapshot

\* The broker's quantity only grows.
LEMMA ExecutedGrows ==
  ASSUME EventsInv, [Next]_vars
  PROVE  executed \in Nat /\ executed' \in Nat /\ executed <= executed'
<1>1. executed \in Nat
  BY Numbers DEF EventsInv, StoreTypes
<1>2. CASE Execute
  <2>1. PICK l \in Levels : l > executed /\ executed' = l
    BY <1>2 DEF Execute, BecomesAtBroker
  <2>2. QED
    BY <1>1, <2>1, Numbers
<1>3. CASE Withdraw
  BY <1>1, <1>3 DEF Withdraw, BecomesAtBroker
<1>4. CASE ~Execute /\ ~Withdraw
  <2>1. CASE Push \/ Take \/ PollList \/ PollAnswered \/ PollFailed \/ Reconcile
    BY <2>1, <1>1 DEF Push, Take, PollList, PollAnswered, PollFailed, Reconcile, brokerVars
  <2>2. CASE \E p \in Procs : Step(p) \/ Crash(p)
    BY <2>2, <1>1 DEF Step, Apply, Fill, SetRead, SetWrite, Crash, brokerVars
  <2>3. CASE UNCHANGED vars
    BY <2>3, <1>1 DEF vars, brokerVars
  <2>4. QED
    BY <1>4, <2>1, <2>2, <2>3 DEF Next
<1>5. QED
  BY <1>2, <1>3, <1>4

LEMMA HonestStep == ASSUME EventsInv, Honest, [Next]_vars PROVE Honest'
<1>1. executed \in Nat /\ executed' \in Nat /\ executed <= executed'
  BY ExecutedGrows
<1>2. /\ \A s \in Snapshots \cup {NoSnapshot} : s.cum \in Nat
      /\ past \subseteq Snapshots /\ queue \in Seq(Snapshots)
      /\ snap \in [Procs -> Snapshots \cup {NoSnapshot}]
  BY Numbers DEF EventsInv, StoreTypes
<1>3. /\ \A s \in past : s.cum <= executed'
      /\ \A i \in 1..Len(queue) : queue[i].cum <= executed'
      /\ \A p \in Procs : snap[p].cum <= executed'
  BY <1>1, <1>2 DEF Honest
<1>4. \A s \in past' : s.cum <= executed'
  <2>1. CASE Execute \/ Withdraw
    <3>1. PICK cum, s : BecomesAtBroker(cum, s)
      BY <2>1 DEF Execute, Withdraw
    <3>2. past' = past \cup {[cum |-> executed', status |-> s]}
      BY <3>1 DEF BecomesAtBroker
    <3>3. QED
      BY <1>1, <1>3, <3>2
  <2>2. CASE ~Execute /\ ~Withdraw
    <3>1. UNCHANGED past
      <4>1. CASE Push \/ Take \/ PollList \/ PollAnswered \/ PollFailed \/ Reconcile
        BY <4>1 DEF Push, Take, PollList, PollAnswered, PollFailed, Reconcile, brokerVars
      <4>2. CASE \E p \in Procs : Step(p) \/ Crash(p)
        BY <4>2 DEF Step, Apply, Fill, SetRead, SetWrite, Crash, brokerVars
      <4>3. QED
        BY <2>2, <4>1, <4>2 DEF Next, vars, brokerVars
    <3>2. QED
      BY <1>3, <3>1
  <2>3. QED
    BY <2>1, <2>2
<1>5. \A i \in 1..Len(queue') : queue'[i].cum <= executed'
  <2>1. CASE Push
    <3>1. PICK s \in past : \E o \in Observed(s) : queue' = Append(queue, o)
      BY <2>1 DEF Push
    <3>2. PICK o \in Observed(s) : queue' = Append(queue, o)
      BY <3>1
    <3>3. o.cum = s.cum
      BY <1>2 DEF Observed, Snapshots
    <3>4. QED
      BY <1>2, <1>3, <3>2, <3>3
  <2>2. CASE Take
    <3>1. queue # <<>> /\ queue' = Tail(queue)
      BY <2>2 DEF Take
    <3>2. \A i \in 1..Len(queue') : queue'[i] = queue[i + 1] /\ i + 1 \in 1..Len(queue)
      BY <1>2, <3>1
    <3>3. QED
      BY <1>3, <3>2
  <2>3. CASE queue' = queue \/ queue' = <<>>
    BY <1>3, <2>3
  <2>4. CASE Execute \/ Withdraw \/ PollList \/ PollAnswered \/ PollFailed \/ Reconcile
    BY <2>3, <2>4 DEF Execute, Withdraw, BecomesAtBroker, PollList, PollAnswered, PollFailed,
       Reconcile, pushVars
  <2>5. CASE \E p \in Procs : Step(p) \/ Crash(p)
    BY <2>3, <2>5 DEF Step, Apply, Fill, SetRead, SetWrite, Crash, pushVars
  <2>6. QED
    BY <2>1, <2>2, <2>3, <2>4, <2>5 DEF Next, vars, pushVars
<1>6. \A p \in Procs : snap'[p].cum <= executed'
  <2>1. CASE Take
    <3>1. Head(queue).cum <= executed'
      BY <1>2, <1>3, <2>1 DEF Take
    <3>2. QED
      BY <1>2, <1>3, <2>1, <3>1 DEF Take
  <2>2. CASE PollAnswered
    <3>1. PICK s \in Observed([cum |-> executed, status |-> bstat]) :
            snap' = [snap EXCEPT !["reconcile"] = s]
      BY <2>2 DEF PollAnswered
    <3>2. s.cum = executed
      BY DEF Observed
    <3>3. QED
      BY <1>1, <1>2, <1>3, <3>1, <3>2
  <2>3. CASE PollFailed
    BY <1>1, <1>2, <1>3, <2>3 DEF PollFailed
  <2>4. CASE Reconcile
    BY <1>1, <1>2, <1>3, <2>4 DEF Reconcile, NoSnapshot
  <2>5. CASE Execute \/ Withdraw \/ Push \/ PollList
    BY <1>3, <2>5 DEF Execute, Withdraw, BecomesAtBroker, Push, PollList
  <2>6. ASSUME NEW q \in Procs, Step(q) \/ Crash(q) PROVE \A p \in Procs : snap'[p].cum <= executed'
    <3>1. CASE Step(q)
      BY <1>3, <3>1 DEF Step, Apply, Fill, SetRead, SetWrite
    <3>2. CASE Crash(q)
      BY <1>1, <1>2, <1>3, <3>2 DEF Crash, NoSnapshot
    <3>3. QED
      BY <2>6, <3>1, <3>2
  <2>7. QED
    BY <1>3, <2>1, <2>2, <2>3, <2>4, <2>5, <2>6 DEF Next, vars
<1>7. QED
  BY <1>4, <1>5, <1>6 DEF Honest

\* What holds while the processes take turns: the increment about to be recorded is
\* what the snapshot has beyond the fills, and the status about to be overwritten is
\* not a terminal one, because nobody wrote since it was read.
OneAtWork   == \A p, q \in Procs : pc[p] # "idle" /\ pc[q] # "idle" => p = q
FillIsExact == \A p \in Procs : pc[p] = "fill" => delta[p] + total = snap[p].cum
WriteIsOpen == \A p \in Procs : pc[p] = "write" => status \notin Terminal
Places == {"idle", "query", "apply", "fill", "read", "write", "compare"}
TurnsInv ==
    /\ pc \in [Procs -> Places]
    /\ turns \in BOOLEAN
    /\ turns => OneAtWork /\ FillIsExact /\ WriteIsOpen /\ RecordedWasExecuted

LEMMA TurnsFirst == MCInit => TurnsInv
BY DEF MCInit, Init, TurnsInv, Places, OneAtWork, FillIsExact, WriteIsOpen, RecordedWasExecuted

\* A step that leaves the store alone and brings nobody to a fill or a write.
LEMMA StoreAlone ==
  ASSUME EventsInv, TurnsInv, turns, OneAtWork', executed' \in Nat, executed <= executed',
         UNCHANGED <<total, status>>,
         \A p \in Procs : pc'[p] \in {"fill", "write"} =>
           pc'[p] = pc[p] /\ delta'[p] = delta[p] /\ snap'[p] = snap[p]
  PROVE  OneAtWork' /\ FillIsExact' /\ WriteIsOpen' /\ RecordedWasExecuted'
<1>1. total \in Nat /\ executed \in Nat
  BY Numbers DEF EventsInv, StoreTypes
<1>2. RecordedWasExecuted'
  BY <1>1 DEF TurnsInv, RecordedWasExecuted
<1>3. QED
  BY <1>2 DEF TurnsInv, FillIsExact, WriteIsOpen

\* A step of p while all the others are idle.
LEMMA TurnOf ==
  ASSUME EventsInv, Honest, TurnsInv, turns, OneAtWork', NEW p \in Procs, Step(p) \/ Crash(p)
  PROVE  FillIsExact' /\ WriteIsOpen' /\ RecordedWasExecuted'
<1>1. /\ pc \in [Procs -> Places] /\ delta \in [Procs -> Nat] /\ target \in [Procs -> Statuses \cup {"none"}]
      /\ total \in Nat /\ executed \in Nat /\ snap[p].cum \in Nat /\ snap[p].cum <= executed
      /\ total <= executed
  BY Numbers DEF EventsInv, StoreTypes, Honest, TurnsInv, RecordedWasExecuted
<1>2. UNCHANGED executed /\ (~Crash(p) => UNCHANGED snap)
  BY DEF Step, Apply, Fill, SetRead, SetWrite, Crash, brokerVars
<1>3. \A q \in Procs : q # p => pc'[q] = pc[q] /\ (pc[p] # "idle" => pc[q] = "idle")
  BY <1>1 DEF Step, Apply, Fill, SetRead, SetWrite, Crash, Goto, Continue, TurnsInv, OneAtWork
<1>4. CASE Apply(p)
  <2>1. UNCHANGED <<total, status>>
    BY <1>4 DEF Apply, storeVars
  <2>2. pc'[p] # "write"
    BY <1>1, <1>4 DEF Apply, Goto, Continue
  <2>3. pc'[p] = "fill" => delta'[p] + total = snap[p].cum
    <3>1. CASE snap[p].cum > total /\ delta' = [delta EXCEPT ![p] = Increment(p)]
      BY <1>1, <3>1 DEF Increment
    <3>2. CASE Goto(p, "read") \/ Continue(p)
      BY <1>1, <3>2 DEF Goto, Continue
    <3>3. QED
      BY <1>4, <3>1, <3>2 DEF Apply
  <2>4. QED
    BY <1>1, <1>2, <1>3, <1>4, <2>1, <2>2, <2>3
       DEF Apply, FillIsExact, WriteIsOpen, RecordedWasExecuted, Crash
<1>5. CASE Fill(p)
  <2>1. pc'[p] \in {"idle", "compare"} /\ pc[p] = "fill"
    BY <1>1, <1>5 DEF Fill, Goto, Continue
  <2>2. total' <= executed
    <3>1. delta[p] + total = snap[p].cum /\ delta[p] \in Nat
      BY <1>1, <2>1 DEF TurnsInv, FillIsExact
    <3>2. CASE Ignored(p)
      BY <1>1, <1>5, <3>2 DEF Fill, storeVars
    <3>3. CASE ~Ignored(p)
      <4>1. total' = total + Accepted(p) /\ total < Quantity /\ Quantity \in Nat
        BY <1>1, <1>5, <3>3, Numbers DEF Fill, Ignored
      <4>2. QED
        BY <1>1, <3>1, <4>1 DEF Accepted
    <3>4. QED
      BY <3>2, <3>3
  <2>3. QED
    BY <1>2, <1>3, <2>1, <2>2 DEF FillIsExact, WriteIsOpen, RecordedWasExecuted
<1>6. CASE SetRead(p)
  <2>1. UNCHANGED <<total, status>> /\ pc'[p] # "fill" /\ pc[p] = "read"
    BY <1>1, <1>6 DEF SetRead, storeVars, Goto, Continue
  <2>2. pc'[p] = "write" => status \notin Terminal
    BY <1>1, <1>6 DEF SetRead, MayWrite, Goto, Continue
  <2>3. QED
    BY <1>1, <1>2, <1>3, <2>1, <2>2 DEF FillIsExact, WriteIsOpen, RecordedWasExecuted
<1>7. CASE SetWrite(p)
  <2>1. UNCHANGED total /\ pc'[p] \in {"idle", "compare"} /\ pc[p] = "write"
    BY <1>1, <1>7 DEF SetWrite, Goto, Continue
  <2>2. QED
    BY <1>1, <1>2, <1>3, <2>1 DEF FillIsExact, WriteIsOpen, RecordedWasExecuted
<1>8. CASE Crash(p)
  <2>1. UNCHANGED <<total, status, delta>> /\ pc'[p] = "idle"
    BY <1>1, <1>8 DEF Crash, Goto, storeVars
  <2>2. \A q \in Procs : q # p => snap'[q] = snap[q]
    BY <1>8 DEF Crash, EventsInv, StoreTypes
  <2>3. QED
    BY <1>1, <1>2, <1>3, <2>1, <2>2, StoreAlone
<1>9. QED
  BY <1>4, <1>5, <1>6, <1>7, <1>8 DEF Step

LEMMA TurnsStep ==
  ASSUME EventsInv, Honest, TurnsInv, [MCNext]_<<vars, turns>> PROVE TurnsInv'
<1>1. pc \in [Procs -> Places] /\ [Next]_vars /\ UNCHANGED turns
  BY DEF TurnsInv, MCNext
<1>2. pc' \in [Procs -> Places]
  <2>1. CASE Execute \/ Withdraw \/ Push \/ UNCHANGED vars
    BY <1>1, <2>1 DEF Execute, Withdraw, BecomesAtBroker, Push, vars
  <2>2. CASE Take \/ PollList \/ PollAnswered \/ PollFailed \/ Reconcile
    BY <1>1, <2>2 DEF Take, PollList, PollAnswered, PollFailed, Reconcile, Goto, Places
  <2>3. CASE \E p \in Procs : Step(p) \/ Crash(p)
    BY <1>1, <2>3 DEF Step, Apply, Fill, SetRead, SetWrite, Crash, Goto, Continue, Places
  <2>4. QED
    BY <1>1, <2>1, <2>2, <2>3 DEF Next
<1> SUFFICES ASSUME turns
             PROVE  OneAtWork' /\ FillIsExact' /\ WriteIsOpen' /\ RecordedWasExecuted'
  BY <1>1, <1>2 DEF TurnsInv
<1>3. OneAtWork'
  <2>1. CASE UNCHANGED <<vars, turns>>
    BY <2>1 DEF vars, TurnsInv, OneAtWork
  <2>2. CASE MCNext
    BY <2>2 DEF MCNext, OneAtWork
  <2>3. QED
    BY <2>1, <2>2
<1>4. executed' \in Nat /\ executed <= executed'
  BY <1>1, ExecutedGrows
<1>5. CASE \E p \in Procs : Step(p) \/ Crash(p)
  BY <1>3, <1>5, TurnOf
<1>6. CASE UNCHANGED vars \/ Execute \/ Withdraw \/ Push
  <2>1. UNCHANGED <<total, status, pc, delta, snap>>
    BY <1>6 DEF vars, storeVars, Execute, Withdraw, BecomesAtBroker, Push
  <2>2. QED
    BY <1>3, <1>4, <2>1, StoreAlone
<1>7. CASE Take \/ PollList \/ PollAnswered \/ PollFailed \/ Reconcile
  <2>1. UNCHANGED <<total, status, delta>>
    BY <1>7 DEF Take, PollList, PollAnswered, PollFailed, Reconcile, storeVars
  <2>2. \E p \in {"daemon", "reconcile"} :
          /\ \A q \in Procs : q # p => pc'[q] = pc[q] /\ snap'[q] = snap[q]
          /\ p \in Procs => pc'[p] \notin {"fill", "write"}
    <3>1. CASE Take
      BY <1>1, <3>1 DEF Take, Goto, EventsInv, StoreTypes
    <3>2. CASE PollList \/ PollAnswered \/ PollFailed \/ Reconcile
      BY <1>1, <3>2 DEF PollList, PollAnswered, PollFailed, Reconcile, Goto, EventsInv, StoreTypes
    <3>3. QED
      BY <1>7, <3>1, <3>2
  <2>3. QED
    BY <1>3, <1>4, <2>1, <2>2, StoreAlone
<1>8. QED
  BY <1>1, <1>5, <1>6, <1>7 DEF Next

\* The invariants of the instance in which the processes may take turns.
LEMMA TurnsInductive == MCSpec => [](EventsInv /\ Honest /\ TurnsInv)
<1>1. MCInit => EventsInv /\ Honest /\ TurnsInv
  BY EventsInit, HonestFirst, TurnsFirst DEF MCInit
<1>2. EventsInv /\ Honest /\ TurnsInv /\ [MCNext]_<<vars, turns>>
        => (EventsInv /\ Honest /\ TurnsInv)'
  <2>1. [MCNext]_<<vars, turns>> => [Next]_vars
    BY DEF MCNext
  <2>2. QED
    BY <2>1, EventsStep, HonestStep, TurnsStep
<1>3. QED
  BY <1>1, <1>2, PTL DEF MCSpec

\* Taking turns, the processes never record a fill the broker did not execute, for
\* any executions, late, repeated or reordered snapshots, failed queries and crashes.
THEOREM RecordedInTurns == MCSpec => []RecordedInTurnsWasExecuted
<1>1. TurnsInv => RecordedInTurnsWasExecuted
  BY DEF TurnsInv, RecordedInTurnsWasExecuted
<1>2. QED
  BY <1>1, TurnsInductive, PTL

\* Taking turns, they leave a terminal status for good.
THEOREM TerminalInTurns == MCSpec => TerminalStaysInTurns
<1>1. EventsInv /\ TurnsInv /\ [MCNext]_<<vars, turns>>
        => [turns /\ status \in Terminal => status' = status]_<<vars, turns>>
  <2> SUFFICES ASSUME EventsInv, TurnsInv, MCNext, turns, status \in Terminal
               PROVE  status' = status
    OBVIOUS
  <2>1. ASSUME NEW p \in Procs, Fill(p) PROVE status' = status
    <3>1. status = "FILLED" => total >= Quantity
      BY Numbers DEF EventsInv, FilledIsFull
    <3>2. Ignored(p)
      BY <3>1 DEF Ignored, Terminal
    <3>3. QED
      BY <2>1, <3>2 DEF Fill, storeVars
  <2>2. ASSUME NEW p \in Procs, SetWrite(p) PROVE status' = status
    BY <2>2 DEF SetWrite, TurnsInv, WriteIsOpen
  <2>3. CASE \E p \in Procs : Apply(p) \/ SetRead(p) \/ Crash(p)
    BY <2>3 DEF Apply, SetRead, Crash, storeVars
  <2>4. CASE \/ Execute \/ Withdraw \/ Push \/ Take
             \/ PollList \/ PollAnswered \/ PollFailed \/ Reconcile
    BY <2>4 DEF Execute, Withdraw, BecomesAtBroker, Push, Take, PollList, PollAnswered,
       PollFailed, Reconcile, storeVars
  <2>5. QED
    BY <2>1, <2>2, <2>3, <2>4 DEF MCNext, Next, Step
<1>2. QED
  BY <1>1, TurnsInductive, PTL DEF MCSpec, TerminalStaysInTurns
===============================================================================
