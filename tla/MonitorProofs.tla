------------------------------ MODULE MonitorProofs -----------------------------
(***************************************************************************)
(* Proofs about Monitor and the SignalOutbox it writes, for any symbols,   *)
(* conditions, commands and dispatchers: no alert that is claimed is heard *)
(* twice in a day, none is lost while nothing fails, a signal is an        *)
(* immutable fact stored with its notifications, and what is marked SENT   *)
(* was delivered.                                                          *)
(***************************************************************************)
EXTENDS Monitor, FiniteSetTheorems, TLAPS

-----------------------------------------------------------------------------
(* Types of the outbox.                                                    *)

Process == [cmd : Commands \cup {"none"}, day : Days, todo : SUBSET Symbols,
            claims : SUBSET Alerts, alerts : SUBSET Alerts]
BarRow == [revision : 0..MaxRevisions, last : Days, verdict : {"none", "entry", "exit"}]
Sending == [entry : Entries \cup {NoEntry}, step : {"list", "send", "sent", "failed"}]

LEMMA RestingSends == Resting \in Sending
BY DEF Resting, Sending

\* A dispatcher at work has an entry: the one it took from its list.
Working == \A d \in Dispatchers : sending[d].step # "list" => sending[d].entry \in Entries

LEMMA RecordTypes ==
    ASSUME OutboxTypeOK, Working, NEW k \in Keys, NEW payload \in Payloads, Record(k, payload)
    PROVE  OutboxTypeOK' /\ Working'
<1>1. event' \in [Keys -> Payloads \cup {NoEvent}]
  BY DEF OutboxTypeOK, Record
<1>2. outbox' \in [Entries -> OutboxStatus]
  BY DEF OutboxTypeOK, Record, OutboxStatus
<1> QED
  BY <1>1, <1>2 DEF OutboxTypeOK, Record, Working

OutboxActs ==
    \E d \in Dispatchers :
        \/ List(d)
        \/ \E e \in Entries : MarkSending(d, e)
        \/ \E reached, ok \in BOOLEAN : SendEntry(d, reached, ok)
        \/ MarkDone(d)
        \/ DispatcherDies(d)

LEMMA ActsTypes ==
    ASSUME OutboxTypeOK, Working, OutboxActs
    PROVE  OutboxTypeOK' /\ Working'
<1>1. sending \in [Dispatchers -> Sending]
  BY DEF OutboxTypeOK, Sending
<1>2. ASSUME NEW d \in Dispatchers, List(d) PROVE OutboxTypeOK' /\ Working'
  <2>1. {e \in Entries : outbox[e] \in {"PENDING", "FAILED_RETRYABLE"}} \in SUBSET Entries
    OBVIOUS
  <2>2. todo' \in [Dispatchers -> SUBSET Entries]
    BY <1>2, <2>1 DEF List, OutboxTypeOK
  <2> QED
    BY <1>2, <2>2 DEF List, OutboxTypeOK, Working
<1>3. ASSUME NEW d \in Dispatchers, NEW e \in Entries, MarkSending(d, e)
      PROVE  OutboxTypeOK' /\ Working'
  <2> DEFINE r == [entry |-> e, step |-> "send"]
  <2>1. r \in Sending
    BY DEF Sending
  <2>2. sending' = [sending EXCEPT ![d] = r]
    BY <1>3 DEF MarkSending
  <2>3. Working'
    BY <1>1, <2>2 DEF Working
  <2> HIDE DEF r
  <2>4. sending' \in [Dispatchers -> Sending]
    BY <1>1, <2>1, <2>2
  <2>5. /\ todo' \in [Dispatchers -> SUBSET Entries]
        /\ outbox' \in [Entries -> OutboxStatus]
        /\ UNCHANGED <<event, delivered>>
    BY <1>3 DEF MarkSending, OutboxTypeOK, OutboxStatus
  <2> QED
    BY <2>3, <2>4, <2>5 DEF OutboxTypeOK, Sending
<1>4. ASSUME NEW d \in Dispatchers, NEW reached \in BOOLEAN, NEW ok \in BOOLEAN,
             SendEntry(d, reached, ok)
      PROVE  OutboxTypeOK' /\ Working'
  <2> DEFINE e == sending[d].entry
             x == IF ok THEN "sent" ELSE "failed"
  <2>1. e \in Entries /\ sending[d].step = "send"
    BY <1>4 DEF SendEntry, Working
  <2>2. /\ delivered' = [delivered EXCEPT ![e] = IF reached THEN @ + 1 ELSE @]
        /\ sending' = [sending EXCEPT ![d].step = x]
        /\ reached => delivered[e] < MaxSends
        /\ UNCHANGED <<event, outbox, todo>>
    BY <1>4 DEF SendEntry
  <2>3. x \in {"sent", "failed"}
    OBVIOUS
  <2> HIDE DEF e, x
  <2>4. delivered' \in [Entries -> 0..MaxSends]
    BY <2>1, <2>2, OutboxAssumption DEF OutboxTypeOK
  <2>5. sending' \in [Dispatchers -> Sending]
    BY <1>1, <2>2, <2>3 DEF Sending
  <2>6. Working'
    BY <1>1, <2>1, <2>2, <2>3 DEF Working, Sending, e
  <2> QED
    BY <2>2, <2>4, <2>5, <2>6 DEF OutboxTypeOK, Sending
<1>5. ASSUME NEW d \in Dispatchers, MarkDone(d) PROVE OutboxTypeOK' /\ Working'
  <2>1. sending' \in [Dispatchers -> Sending] /\ Working'
    BY <1>1, <1>5, RestingSends DEF MarkDone, Working, Resting
  <2>2. outbox' \in [Entries -> OutboxStatus]
    BY <1>5 DEF MarkDone, OutboxTypeOK, OutboxStatus
  <2> QED
    BY <1>5, <2>1, <2>2 DEF MarkDone, OutboxTypeOK, Sending
<1>6. ASSUME NEW d \in Dispatchers, DispatcherDies(d) PROVE OutboxTypeOK' /\ Working'
  <2>1. sending' \in [Dispatchers -> Sending] /\ Working'
    BY <1>1, <1>6, RestingSends DEF DispatcherDies, Working, Resting
  <2> QED
    BY <1>6, <2>1 DEF DispatcherDies, OutboxTypeOK, Sending
<1> QED
  BY <1>2, <1>3, <1>4, <1>5, <1>6 DEF OutboxActs

-----------------------------------------------------------------------------
(* Types of the monitor.                                                   *)

LEMMA DayOne == 1 \in Days /\ Idle \in Process
BY MonitorAssumption DEF Days, Process, Idle

LEMMA SceneTypes ==
    ASSUME NEW x \in Scenes
    PROVE  /\ x.scope \in SUBSET Symbols /\ x.commands \in SUBSET Commands
           /\ x.days \in Days /\ x.revisions \in 0..MaxRevisions
           /\ x.conditions \in SUBSET Conditions /\ x.dispatchers \in SUBSET Dispatchers
BY MonitorAssumption

\* What post_market_to_outbox and collect_signals record is a key and a payload.
LEMMA Recorded ==
    ASSUME TypeOK, NEW p \in Procs, NEW s \in Symbols,
           Post(p, s) \/ Collect(p, s)
    PROVE  (\E k \in Keys, payload \in Payloads : Record(k, payload)) \/ UNCHANGED outboxVars
<1>1. proc[p].day \in Days /\ bars[s].revision \in 0..MaxRevisions /\ bars[s].last \in Days
  BY DEF TypeOK
<1>2. Verdict(s) \in {"none", "entry", "exit"}
  BY DEF TypeOK, Verdict
<1>3. CASE Post(p, s)
  <2>1. PostType(s) \in {"ENTRY", "EXIT", "POST_ENTRY", "POST_EXIT", "POST_NO_CHANGE"}
    BY <1>2 DEF PostType
  <2>2. PostPayload(s) \in SignalPayloads
    BY <1>1, MonitorAssumption DEF PostPayload, SignalPayloads
  <2>3. <<s, proc[p].day, PostType(s)>> \in SignalKeys
    BY <1>1, <2>1 DEF SignalKeys
  <2> QED
    BY <1>3, <2>2, <2>3, MonitorAssumption DEF Post
<1>4. CASE Collect(p, s)
  <2>1. CollectType(s) \in {"ENTRY", "EXIT", "POST_ENTRY", "POST_EXIT", "POST_NO_CHANGE"}
    BY DEF CollectType
  <2>2. CollectPayload(s) \in SignalPayloads
    BY <1>1 DEF CollectPayload, SignalPayloads
  <2>3. <<s, bars[s].last, CollectType(s)>> \in SignalKeys
    BY <1>1, <2>1 DEF SignalKeys
  <2> QED
    BY <1>4, <2>2, <2>3, MonitorAssumption DEF Collect
<1> QED
  BY <1>3, <1>4

LEMMA FoundAlerts ==
    ASSUME TypeOK, NEW p \in Procs, NEW s \in Symbols, NEW holds \in SUBSET MayHold(p, s)
    PROVE  Found(p, s, holds) \in SUBSET Alerts
<1>1. holds \subseteq Conditions
  BY SceneTypes DEF MayHold, TypeOK
<1>2. proc[p].day \in Days
  BY DEF TypeOK
<1> QED
  BY <1>1, <1>2 DEF Found, Alerts

LEMMA StepTypes ==
    ASSUME TypeOK, Working, [Next]_vars
    PROVE  TypeOK' /\ Working'
<1>1. /\ proc \in [Procs -> Process] /\ OutboxTypeOK /\ scene \in Scenes
      /\ scene.scope \in SUBSET Symbols /\ scene.commands \in SUBSET Commands
      /\ scene.days \in Days /\ scene.revisions \in 0..MaxRevisions
      /\ scene.dispatchers \in SUBSET Dispatchers
      /\ MaxDay \in Nat /\ MaxRevisions \in Nat /\ MaxTroubles \in Nat
  BY SceneTypes, MonitorAssumption DEF TypeOK, Process
<1>2. ASSUME UNCHANGED outboxVars PROVE OutboxTypeOK' /\ Working'
  BY <1>1, <1>2 DEF outboxVars, OutboxTypeOK, Working
<1>3. CASE NewDay
  <2>1. day' \in Days /\ sound' \subseteq Symbols
    BY <1>1, <1>3 DEF NewDay, Days, TypeOK
  <2> QED
    BY <1>2, <1>3, <2>1 DEF NewDay, TypeOK
<1>4. ASSUME NEW s \in scene.scope, BarsWithoutManifest(s) PROVE TypeOK' /\ Working'
  BY <1>2, <1>4 DEF BarsWithoutManifest, TypeOK
<1>5. ASSUME NEW s \in scene.scope, NEW v \in Verdicts(s), SyncBars(s, v) PROVE TypeOK' /\ Working'
  <2>1. s \in Symbols /\ v \in {"none", "entry", "exit"}
    BY <1>1 DEF Verdicts
  <2> DEFINE b == IF bars[s].revision < scene.revisions
                  THEN [revision |-> bars[s].revision + 1, last |-> day, verdict |-> v]
                  ELSE [bars[s] EXCEPT !.last = day]
  <2>2. bars[s].revision \in 0..MaxRevisions /\ bars[s] \in BarRow /\ day \in Days
    BY <2>1 DEF TypeOK, BarRow
  <2>3. b \in BarRow
    BY <1>1, <2>1, <2>2 DEF BarRow
  <2>4. bars' = [bars EXCEPT ![s] = b]
    BY <1>5 DEF SyncBars
  <2>5. bars \in [Symbols -> BarRow]
    BY DEF TypeOK, BarRow
  <2> HIDE DEF b
  <2>6. bars' \in [Symbols -> BarRow]
    BY <2>1, <2>3, <2>4, <2>5
  <2>7. sound' \subseteq Symbols
    BY <1>5, <2>1 DEF SyncBars, TypeOK
  <2> QED
    BY <1>2, <1>5, <2>6, <2>7 DEF SyncBars, TypeOK, BarRow
<1>6. CASE AccountChanges
  BY <1>2, <1>6 DEF AccountChanges, TypeOK
<1>7. ASSUME NEW p \in Procs, NEW r \in Process, proc' = [proc EXCEPT ![p] = r],
             UNCHANGED world, claimed' \subseteq Alerts, due' \subseteq Alerts,
             heard' \in [Alerts -> Nat], troubles' \in 0..MaxTroubles,
             OutboxTypeOK' /\ Working'
      PROVE  TypeOK' /\ Working'
  <2>1. proc' \in [Procs -> Process]
    BY <1>1, <1>7
  <2> QED
    BY <1>7, <2>1 DEF TypeOK, world, Process
<1>8. ASSUME NEW p \in Procs, NEW cmd \in scene.commands, Start(p, cmd) PROVE TypeOK' /\ Working'
  <2> DEFINE r == [cmd |-> cmd, day |-> day, todo |-> scene.scope, claims |-> {}, alerts |-> {}]
  <2>1. r \in Process /\ proc' = [proc EXCEPT ![p] = r]
    BY <1>1, <1>8 DEF Start, Process, TypeOK
  <2> HIDE DEF r
  <2> QED
    BY <1>2, <1>7, <1>8, <2>1 DEF Start, TypeOK
<1>9. ASSUME NEW p \in Procs, NEW s \in Symbols, NEW holds \in SUBSET MayHold(p, s),
             CheckSymbol(p, s, holds)
      PROVE  TypeOK' /\ Working'
  <2> DEFINE found == Found(p, s, holds)
             free == {a \in found : a[2] \notin Claimed}
             r == [proc[p] EXCEPT !.todo = @ \ {s}, !.claims = found \ free, !.alerts = @ \cup free]
  <2>1. found \in SUBSET Alerts /\ free \in SUBSET Alerts
    BY FoundAlerts
  <2>2. proc' = [proc EXCEPT ![p] = r] /\ due' = due \cup free
    BY <1>1, <1>9 DEF CheckSymbol
  <2> HIDE DEF found, free
  <2>3. r \in Process
    BY <1>1, <2>1 DEF Process
  <2> HIDE DEF r
  <2>4. due' \subseteq Alerts
    BY <2>1, <2>2 DEF TypeOK
  <2> QED
    BY <1>2, <1>7, <1>9, <2>2, <2>3, <2>4 DEF CheckSymbol, TypeOK
<1>17. ASSUME NEW p \in Procs, NEW a \in Alerts, Claim(p, a) PROVE TypeOK' /\ Working'
  <2> DEFINE r == [proc[p] EXCEPT !.claims = @ \ {a}, !.alerts = @ \cup ({a} \ claimed)]
  <2>1. proc' = [proc EXCEPT ![p] = r] /\ claimed' = claimed \cup {a} /\ due' = due \cup {a}
    BY <1>1, <1>17 DEF Claim
  <2>2. r \in Process
    BY <1>1 DEF Process
  <2> HIDE DEF r
  <2>3. claimed' \subseteq Alerts /\ due' \subseteq Alerts
    BY <2>1 DEF TypeOK
  <2> QED
    BY <1>2, <1>7, <1>17, <2>1, <2>2, <2>3 DEF Claim, TypeOK
<1>10. ASSUME NEW p \in Procs, NEW s \in Symbols, PostRaises(p, s) \/ CollectRaises(p, s)
       PROVE  TypeOK' /\ Working'
  <2> DEFINE r == [proc[p] EXCEPT !.todo = {}]
  <2>1. r \in Process /\ proc' = [proc EXCEPT ![p] = r]
    BY <1>1, <1>10 DEF Process, PostRaises, CollectRaises
  <2> HIDE DEF r
  <2> QED
    BY <1>2, <1>7, <1>10, <2>1 DEF PostRaises, CollectRaises, TypeOK
<1>11. ASSUME NEW p \in Procs, NEW s \in Symbols, Post(p, s) \/ Collect(p, s)
       PROVE  TypeOK' /\ Working'
  <2>1. OutboxTypeOK' /\ Working'
    BY <1>1, <1>2, <1>11, Recorded, RecordTypes
  <2>2. proc' = [proc EXCEPT ![p].todo = @ \ {s}]
    BY <1>11 DEF Post, Collect
  <2> DEFINE r == [proc[p] EXCEPT !.todo = @ \ {s}]
  <2>3. r \in Process /\ proc' = [proc EXCEPT ![p] = r]
    BY <1>1, <2>2 DEF Process
  <2> HIDE DEF r
  <2> QED
    BY <1>7, <1>11, <2>1, <2>3 DEF Post, Collect, TypeOK
<1>12. ASSUME NEW p \in Procs, NEW a \in Alerts, NEW ok \in BOOLEAN, Deliver(p, a, ok)
       PROVE  TypeOK' /\ Working'
  <2> DEFINE r == [proc[p] EXCEPT !.alerts = @ \ {a}]
  <2>1. r \in Process /\ proc' = [proc EXCEPT ![p] = r]
    BY <1>1, <1>12 DEF Deliver, Process
  <2>2. heard' \in [Alerts -> Nat] /\ troubles' \in 0..MaxTroubles
    BY <1>1, <1>12 DEF Deliver, TypeOK
  <2> HIDE DEF r
  <2> QED
    BY <1>2, <1>7, <1>12, <2>1, <2>2 DEF Deliver, TypeOK
<1>13. ASSUME NEW p \in Procs, Finish(p) \/ Dies(p) PROVE TypeOK' /\ Working'
  <2>1. proc' = [proc EXCEPT ![p] = Idle] /\ troubles' \in 0..MaxTroubles
    BY <1>1, <1>13 DEF Finish, Dies, TypeOK
  <2> QED
    BY <1>2, <1>7, <1>13, <2>1, DayOne DEF Finish, Dies, TypeOK
<1>14. CASE OutboxStep
  <2>1. OutboxTypeOK' /\ Working'
    BY <1>1, <1>14, ActsTypes DEF OutboxStep, OutboxActs
  <2> QED
    BY <1>14, <2>1 DEF OutboxStep, monitorVars, world, TypeOK
<1>15. CASE OutboxTrouble
  <2>1. OutboxTypeOK' /\ Working' /\ troubles' \in 0..MaxTroubles
    BY <1>1, <1>15, ActsTypes DEF OutboxTrouble, OutboxActs, TypeOK
  <2> QED
    BY <1>15, <2>1 DEF OutboxTrouble, world, TypeOK
<1>16. CASE UNCHANGED vars
  BY <1>2, <1>16 DEF vars, monitorVars, world, TypeOK
<1> QED
  BY <1>3, <1>4, <1>5, <1>6, <1>8, <1>9, <1>10, <1>11, <1>12, <1>13, <1>14, <1>15, <1>16, <1>17 DEF Next

LEMMA FirstTypes == Init => TypeOK /\ Working
<1> SUFFICES ASSUME Init PROVE TypeOK /\ Working
  OBVIOUS
<1>1. OutboxTypeOK /\ Working
  <2>1. sending \in [Dispatchers -> Sending] /\ Working
    BY RestingSends DEF Init, OutboxInit, Working, Resting
  <2>2. outbox \in [Entries -> OutboxStatus] /\ event \in [Keys -> Payloads \cup {NoEvent}]
    BY DEF Init, OutboxInit, OutboxStatus
  <2>3. 0 \in 0..MaxSends
    BY OutboxAssumption
  <2>4. delivered \in [Entries -> 0..MaxSends]
    BY <2>3 DEF Init, OutboxInit
  <2>5. todo \in [Dispatchers -> SUBSET Entries]
    BY DEF Init, OutboxInit
  <2> QED
    BY <2>1, <2>2, <2>4, <2>5 DEF OutboxTypeOK, Sending
<1>2. bars \in [Symbols -> BarRow]
  BY MonitorAssumption, DayOne DEF Init, Quiet, BarRow
<1>3. proc \in [Procs -> Process]
  BY DayOne DEF Init
<1>4. scene.scope \in SUBSET Symbols
  BY SceneTypes DEF Init
<1>5. troubles \in 0..MaxTroubles /\ day \in Days
  BY DayOne, MonitorAssumption DEF Init
<1> QED
  BY <1>1, <1>2, <1>3, <1>4, <1>5 DEF Init, TypeOK, Process, BarRow

\* Every variable keeps its type, whatever dies or fails.
THEOREM TypeCorrect == Spec => []TypeOK
<1>1. TypeOK /\ Working /\ [Next]_vars => TypeOK' /\ Working'
  BY StepTypes
<1> QED
  BY <1>1, FirstTypes, PTL DEF Spec

-----------------------------------------------------------------------------
(* Alerts.                                                                 *)

\* A claimed alert that a process is to deliver was not heard, and is no other process's to
\* deliver; one that was heard is claimed.
HeardInv ==
    \A a \in Alerts : a[2] \in Claimed =>
        /\ heard[a] <= 1 /\ (a \notin claimed => heard[a] = 0)
        /\ \A p \in Procs : a \in proc[p].alerts =>
              /\ a \in claimed /\ heard[a] = 0
              /\ \A q \in Procs : a \in proc[q].alerts => q = p

\* As long as nothing failed, what was found due was heard or is somebody's to deliver.
DueInv ==
    /\ \A p \in Procs : proc[p].cmd = "none" => proc[p].alerts = {}
    /\ troubles = 0 =>
          /\ claimed \subseteq due
          /\ \A a \in due : heard[a] > 0 \/ \E p \in Procs : a \in proc[p].alerts

AlertInv == HeardInv /\ DueInv

LEMMA FirstAlerts == Init => AlertInv
BY DEF Init, AlertInv, HeardInv, DueInv, Idle

\* Steps that deliver nothing and leave every process what it is to deliver.
LEMMA KeepAlerts ==
    ASSUME AlertInv, UNCHANGED <<claimed, heard, due>>, troubles' = 0 => troubles = 0,
           \A q \in Procs : /\ proc'[q].alerts = proc[q].alerts
                            /\ proc'[q].cmd = "none" => proc[q].cmd = "none"
    PROVE  AlertInv'
BY DEF AlertInv, HeardInv, DueInv

LEMMA StepAlerts ==
    ASSUME TypeOK, AlertInv, [Next]_vars
    PROVE  AlertInv'
<1>1. proc \in [Procs -> Process] /\ heard \in [Alerts -> Nat] /\ troubles \in Nat
  BY MonitorAssumption DEF TypeOK, Process
<1>2. ASSUME UNCHANGED <<claimed, heard, due, proc>>, troubles' = 0 => troubles = 0
      PROVE  AlertInv'
  BY <1>2, KeepAlerts
<1>3. ASSUME NEW p \in Procs, NEW cmd \in scene.commands, Start(p, cmd) PROVE AlertInv'
  <2>1. cmd # "none"
    BY SceneTypes DEF TypeOK, Commands
  <2>2. \A q \in Procs : proc'[q] = IF q = p THEN [cmd |-> cmd, day |-> day, todo |-> scene.scope,
                                                       claims |-> {}, alerts |-> {}]
                                    ELSE proc[q]
    BY <1>1, <1>3 DEF Start
  <2>3. proc[p].alerts = {}
    BY <1>3 DEF Start, Idle
  <2> QED
    BY <1>3, <2>1, <2>2, <2>3, KeepAlerts DEF Start
<1>4. ASSUME NEW p \in Procs, NEW s \in Symbols, NEW holds \in SUBSET MayHold(p, s),
             CheckSymbol(p, s, holds)
      PROVE  AlertInv'
  <2> DEFINE found == Found(p, s, holds)
             free == {a \in found : a[2] \notin Claimed}
  <2>1. found \in SUBSET Alerts
    BY FoundAlerts
  <2>2. /\ due' = due \cup free /\ proc[p].cmd # "none"
        /\ proc' = [proc EXCEPT ![p].todo = @ \ {s}, ![p].claims = found \ free,
                                ![p].alerts = @ \cup free]
        /\ UNCHANGED <<claimed, heard, troubles>>
    BY <1>4 DEF CheckSymbol
  <2>3. free \in SUBSET Alerts /\ \A a \in free : a[2] \notin Claimed
    BY <2>1
  <2> HIDE DEF found, free
  <2>4. \A q \in Procs : /\ proc'[q].cmd = proc[q].cmd
                         /\ proc'[q].alerts = IF q = p THEN proc[q].alerts \cup free ELSE proc[q].alerts
    BY <1>1, <2>2 DEF Process
  <2>5. \A a \in Alerts, q \in Procs :
           a[2] \in Claimed => (a \in proc'[q].alerts <=> a \in proc[q].alerts)
    BY <2>3, <2>4
  <2>6. HeardInv'
    BY <2>2, <2>5 DEF AlertInv, HeardInv
  <2>7. DueInv'
    <3>1. \A q \in Procs : proc'[q].cmd = "none" => proc'[q].alerts = {}
      BY <2>2, <2>4 DEF AlertInv, DueInv
    <3>2. ASSUME troubles = 0, NEW a \in due \cup free
          PROVE  heard[a] > 0 \/ \E q \in Procs : a \in proc'[q].alerts
      BY <2>4, <3>2 DEF AlertInv, DueInv
    <3>3. troubles = 0 => claimed' \subseteq due'
      BY <2>2 DEF AlertInv, DueInv
    <3> QED
      BY <2>2, <3>1, <3>2, <3>3 DEF DueInv
  <2> QED
    BY <2>6, <2>7 DEF AlertInv
<1>10. ASSUME NEW p \in Procs, NEW a \in Alerts, Claim(p, a) PROVE AlertInv'
  <2>1. /\ due' = due \cup {a} /\ claimed' = claimed \cup {a}
        /\ proc' = [proc EXCEPT ![p].claims = @ \ {a}, ![p].alerts = @ \cup ({a} \ claimed)]
        /\ proc[p].cmd # "none"
        /\ UNCHANGED <<heard, troubles>>
    BY <1>10 DEF Claim
  <2>2. \A q \in Procs : /\ proc'[q].cmd = proc[q].cmd
                         /\ proc'[q].alerts = IF q = p THEN proc[q].alerts \cup ({a} \ claimed)
                                              ELSE proc[q].alerts
    BY <1>1, <2>1 DEF Process
  <2>3. HeardInv'
    <3> SUFFICES ASSUME NEW b \in Alerts, b[2] \in Claimed
                 PROVE  /\ heard'[b] <= 1 /\ (b \notin claimed' => heard'[b] = 0)
                        /\ \A q \in Procs : b \in proc'[q].alerts =>
                              /\ b \in claimed' /\ heard'[b] = 0
                              /\ \A r \in Procs : b \in proc'[r].alerts => r = q
      BY DEF HeardInv
    <3>1. /\ heard[b] <= 1 /\ (b \notin claimed => heard[b] = 0)
          /\ \A q \in Procs : b \in proc[q].alerts =>
                /\ b \in claimed /\ heard[b] = 0
                /\ \A r \in Procs : b \in proc[r].alerts => r = q
      BY DEF AlertInv, HeardInv
    <3>2. CASE b = a /\ a \notin claimed
      <4>1. \A q \in Procs : b \in proc'[q].alerts => q = p
        BY <2>2, <3>1, <3>2
      <4> QED
        BY <2>1, <3>1, <3>2, <4>1
    <3>3. CASE b # a \/ a \in claimed
      <4>1. \A q \in Procs : b \in proc'[q].alerts <=> b \in proc[q].alerts
        BY <2>2, <3>3
      <4> QED
        BY <2>1, <3>1, <4>1
    <3> QED
      BY <3>2, <3>3
  <2>4. DueInv'
    <3>1. \A q \in Procs : proc'[q].cmd = "none" => proc'[q].alerts = {}
      BY <2>1, <2>2 DEF AlertInv, DueInv
    <3>2. ASSUME troubles = 0, NEW b \in due \cup {a}
          PROVE  heard[b] > 0 \/ \E q \in Procs : b \in proc'[q].alerts
      <4>1. CASE b \in due
        <5>1. heard[b] > 0 \/ \E q \in Procs : b \in proc[q].alerts
          BY <3>2, <4>1 DEF AlertInv, DueInv
        <5> QED
          BY <2>2, <5>1
      <4>2. CASE b \notin due
        <5>1. b = a /\ a \notin claimed
          BY <3>2, <4>2 DEF AlertInv, DueInv
        <5> QED
          BY <2>2, <5>1
      <4> QED
        BY <4>1, <4>2
    <3>3. troubles = 0 => claimed' \subseteq due'
      BY <2>1 DEF AlertInv, DueInv
    <3> QED
      BY <2>1, <3>1, <3>2, <3>3 DEF DueInv
  <2> QED
    BY <2>3, <2>4 DEF AlertInv
<1>5. ASSUME NEW p \in Procs, NEW s \in Symbols,
             PostRaises(p, s) \/ CollectRaises(p, s) \/ Post(p, s) \/ Collect(p, s)
      PROVE  AlertInv'
  <2>1. /\ UNCHANGED <<claimed, heard, due, troubles>>
        /\ \E S : proc' = [proc EXCEPT ![p].todo = S]
    BY <1>5 DEF PostRaises, CollectRaises, Post, Collect
  <2>2. \A q \in Procs : proc'[q].alerts = proc[q].alerts /\ proc'[q].cmd = proc[q].cmd
    BY <1>1, <2>1 DEF Process
  <2> QED
    BY <2>1, <2>2, KeepAlerts
<1>6. ASSUME NEW p \in Procs, NEW a \in Alerts, NEW ok \in BOOLEAN, Deliver(p, a, ok)
      PROVE  AlertInv'
  <2>1. /\ a \in proc[p].alerts /\ UNCHANGED <<claimed, due>>
        /\ heard' = [heard EXCEPT ![a] = IF ok THEN @ + 1 ELSE @]
        /\ troubles' = IF ok THEN troubles ELSE troubles + 1
        /\ proc' = [proc EXCEPT ![p].alerts = @ \ {a}]
    BY <1>6 DEF Deliver
  <2>2. \A q \in Procs : /\ proc'[q].cmd = proc[q].cmd
                         /\ proc'[q].alerts = IF q = p THEN proc[q].alerts \ {a} ELSE proc[q].alerts
    BY <1>1, <2>1 DEF Process
  <2>3. a[2] \in Claimed =>
           a \in claimed /\ heard[a] = 0 /\ \A q \in Procs : a \in proc[q].alerts => q = p
    BY <2>1 DEF AlertInv, HeardInv
  <2>4. /\ heard[a] \in Nat /\ heard'[a] = IF ok THEN heard[a] + 1 ELSE heard[a]
        /\ \A b \in Alerts : b # a => heard'[b] = heard[b]
    BY <1>1, <2>1
  <2>5. a[2] \in Claimed => \A q \in Procs : a \notin proc'[q].alerts
    BY <2>2, <2>3
  <2>6. \A b \in Alerts, q \in Procs : b # a => (b \in proc'[q].alerts <=> b \in proc[q].alerts)
    BY <2>2
  <2>7. HeardInv'
    BY <2>1, <2>3, <2>4, <2>5, <2>6 DEF AlertInv, HeardInv
  <2>8. DueInv'
    <3>1. \A q \in Procs : proc'[q].cmd = "none" => proc'[q].alerts = {}
      BY <2>2 DEF AlertInv, DueInv
    <3>2. troubles' = 0 => ok /\ troubles = 0
      BY <1>1, <2>1
    <3>3. ASSUME troubles' = 0, NEW b \in due
          PROVE  heard'[b] > 0 \/ \E q \in Procs : b \in proc'[q].alerts
      <4>1. b \in Alerts
        BY DEF TypeOK
      <4>2. heard[b] > 0 \/ \E q \in Procs : b \in proc[q].alerts
        BY <3>2, <3>3 DEF AlertInv, DueInv
      <4>3. CASE b = a
        BY <2>4, <3>2, <3>3, <4>3
      <4>4. CASE b # a
        BY <2>4, <2>6, <4>1, <4>2, <4>4
      <4> QED
        BY <4>3, <4>4
    <3> QED
      BY <2>1, <3>1, <3>2, <3>3 DEF AlertInv, DueInv
  <2> QED
    BY <2>7, <2>8 DEF AlertInv
<1>7. ASSUME NEW p \in Procs, Finish(p) PROVE AlertInv'
  <2>1. \A q \in Procs : proc'[q] = IF q = p THEN Idle ELSE proc[q]
    BY <1>1, <1>7 DEF Finish
  <2>2. \A q \in Procs : proc'[q].alerts = proc[q].alerts
    BY <1>7, <2>1 DEF Finish, Idle
  <2> QED
    BY <1>7, <2>1, <2>2 DEF Finish, AlertInv, HeardInv, DueInv
<1>8. ASSUME NEW p \in Procs, Dies(p) PROVE AlertInv'
  <2>1. \A q \in Procs : proc'[q] = IF q = p THEN Idle ELSE proc[q]
    BY <1>1, <1>8 DEF Dies
  <2>2. Idle.alerts = {} /\ troubles' # 0 /\ UNCHANGED <<claimed, heard, due>>
    BY <1>1, <1>8 DEF Dies, Idle
  <2>3. \A q \in Procs : proc'[q].alerts = proc[q].alerts \/ proc'[q].alerts = {}
    BY <2>1, <2>2
  <2>4. HeardInv'
    BY <2>2, <2>3 DEF AlertInv, HeardInv
  <2>5. DueInv'
    BY <2>1, <2>2 DEF AlertInv, DueInv
  <2> QED
    BY <2>4, <2>5 DEF AlertInv
<1>9. CASE \/ NewDay \/ AccountChanges \/ OutboxStep \/ OutboxTrouble \/ UNCHANGED vars
           \/ \E s \in scene.scope : BarsWithoutManifest(s) \/ \E v \in Verdicts(s) : SyncBars(s, v)
  BY <1>1, <1>2, <1>9 DEF NewDay, AccountChanges, OutboxStep, OutboxTrouble, BarsWithoutManifest,
     SyncBars, vars, monitorVars
<1> QED
  BY <1>3, <1>4, <1>5, <1>6, <1>7, <1>8, <1>9, <1>10 DEF Next

LEMMA AlertsStay == Spec => []AlertInv
<1>1. TypeOK /\ AlertInv /\ [Next]_vars => AlertInv'
  BY StepAlerts
<1> QED
  BY <1>1, FirstAlerts, TypeCorrect, PTL DEF Spec

\* No intraday alert that is claimed is heard twice in a day, whatever dies, fails or runs
\* at the same time.
THEOREM HeardAtMostOnce == Spec => []HeardOnce
<1>1. AlertInv => HeardOnce
  BY DEF AlertInv, HeardInv, HeardOnce
<1> QED
  BY <1>1, AlertsStay, PTL

\* While nothing dies or fails, an alert found due has been heard when all commands
\* are done, although only the process that claimed it delivers it.
THEOREM DueWasHeard == Spec => []DueIsHeard
<1>1. AlertInv => DueIsHeard
  <2>1. Idle.alerts = {}
    BY DEF Idle
  <2> QED
    BY <2>1 DEF AlertInv, DueInv, DueIsHeard
<1> QED
  BY <1>1, AlertsStay, PTL

-----------------------------------------------------------------------------
(* Signals and their notifications.                                        *)

\* What a dispatcher holds for sent, and what is marked SENT, was delivered.
SentInv ==
    /\ SentWasDelivered
    /\ \A d \in Dispatchers : sending[d].step = "sent" => delivered[sending[d].entry] > 0

\* An event has an entry for every channel; what is listed or sent is such an entry.
QueuedInv ==
    /\ EveryEventIsQueued
    /\ \A d \in Dispatchers :
          /\ \A e \in todo[d] : outbox[e] # "no entry"
          /\ sending[d].step # "list" => outbox[sending[d].entry] # "no entry"

\* The only dispatcher lists what was not sent, and sends what it does not list.
SoleInv ==
    Cardinality(Dispatchers) = 1 => \A d \in Dispatchers :
        /\ \A e \in todo[d] : outbox[e] \in {"PENDING", "FAILED_RETRYABLE"}
        /\ sending[d].step # "list" =>
              outbox[sending[d].entry] = "SENDING" /\ sending[d].entry \notin todo[d]

\* What a step of the monitor does to the outbox.
OutboxMoves ==
    \/ \E k \in Keys, payload \in Payloads : Record(k, payload)
    \/ OutboxActs
    \/ UNCHANGED outboxVars

LEMMA StepsMove == TypeOK /\ [Next]_vars => OutboxMoves
<1> SUFFICES ASSUME TypeOK, [Next]_vars PROVE OutboxMoves
  OBVIOUS
<1>1. CASE \E p \in Procs, s \in Symbols : Post(p, s) \/ Collect(p, s)
  BY <1>1, Recorded DEF OutboxMoves
<1>2. CASE OutboxStep \/ OutboxTrouble
  <2>1. scene.dispatchers \subseteq Dispatchers
    BY SceneTypes DEF TypeOK
  <2> QED
    BY <1>2, <2>1 DEF OutboxStep, OutboxTrouble, OutboxMoves, OutboxActs
<1>3. CASE \/ NewDay \/ AccountChanges \/ UNCHANGED vars
           \/ \E s \in scene.scope : BarsWithoutManifest(s) \/ \E v \in Verdicts(s) : SyncBars(s, v)
  BY <1>3 DEF NewDay, AccountChanges, BarsWithoutManifest, SyncBars, vars, OutboxMoves
<1>4. CASE \E p \in Procs, cmd \in scene.commands : Start(p, cmd)
  BY <1>4 DEF Start, OutboxMoves
<1>5. ASSUME NEW p \in Procs, NEW s \in Symbols,
             \/ \E holds \in SUBSET MayHold(p, s) : CheckSymbol(p, s, holds)
             \/ PostRaises(p, s) \/ CollectRaises(p, s)
      PROVE  OutboxMoves
  <2>1. CASE \E holds \in SUBSET MayHold(p, s) : CheckSymbol(p, s, holds)
    <3>1. PICK holds \in SUBSET MayHold(p, s) : CheckSymbol(p, s, holds)
      BY <2>1
    <3>2. UNCHANGED outboxVars
      BY <3>1 DEF CheckSymbol
    <3> QED
      BY <3>2 DEF OutboxMoves
  <2>2. CASE PostRaises(p, s) \/ CollectRaises(p, s)
    BY <2>2 DEF PostRaises, CollectRaises, OutboxMoves
  <2> QED
    BY <1>5, <2>1, <2>2
<1>6. CASE \/ \E p \in Procs, a \in Alerts : Claim(p, a) \/ \E ok \in BOOLEAN : Deliver(p, a, ok)
           \/ \E p \in Procs : Finish(p) \/ Dies(p)
  BY <1>6 DEF Claim, Deliver, Finish, Dies, OutboxMoves
<1> QED
  BY <1>1, <1>2, <1>3, <1>4, <1>5, <1>6 DEF Next

\* What is known of each entry after a step of the outbox.
LEMMA Recording ==
    ASSUME OutboxTypeOK, NEW k \in Keys, NEW payload \in Payloads, Record(k, payload)
    PROVE  /\ \A e \in Entries :
                 outbox'[e] = outbox[e] \/ (outbox[e] = "no entry" /\ outbox'[e] = "PENDING")
           /\ \A e \in Entries : outbox'[e] # "no entry" <=> outbox[e] # "no entry" \/ e[1] = k
           /\ \A j \in Keys : j # k => event'[j] = event[j]
           /\ event'[k] = payload
           /\ event[k] \in {NoEvent, payload} /\ payload # NoEvent
           /\ UNCHANGED <<delivered, todo, sending>>
<1>1. payload # NoEvent
  BY OutboxAssumption
<1> QED
  BY <1>1 DEF Record, Mismatch, OutboxTypeOK

LEMMA StepSent ==
    ASSUME OutboxTypeOK, Working, SentInv, OutboxMoves
    PROVE  SentInv'
<1>1. /\ sending \in [Dispatchers -> Sending] /\ delivered \in [Entries -> 0..MaxSends]
      /\ outbox \in [Entries -> OutboxStatus] /\ MaxSends \in Nat
  BY OutboxAssumption DEF OutboxTypeOK, Sending
<1>2. ASSUME NEW k \in Keys, NEW payload \in Payloads, Record(k, payload) PROVE SentInv'
  BY <1>2, Recording DEF SentInv, SentWasDelivered
<1>3. ASSUME NEW d \in Dispatchers, List(d) PROVE SentInv'
  BY <1>3 DEF List, SentInv, SentWasDelivered
<1>4. ASSUME NEW d \in Dispatchers, NEW e \in Entries, MarkSending(d, e) PROVE SentInv'
  BY <1>1, <1>4 DEF MarkSending, SentInv, SentWasDelivered
<1>5. ASSUME NEW d \in Dispatchers, NEW reached \in BOOLEAN, NEW ok \in BOOLEAN,
             SendEntry(d, reached, ok)
      PROVE  SentInv'
  <2> DEFINE e == sending[d].entry
  <2>1. e \in Entries
    BY <1>5 DEF SendEntry, Working
  <2>2. \A f \in Entries : delivered'[f] >= delivered[f] /\ delivered'[f] \in Nat
    BY <1>1, <1>5, <2>1 DEF SendEntry
  <2>3. reached => delivered'[e] > 0
    BY <1>1, <1>5, <2>1 DEF SendEntry
  <2>4. \A c \in Dispatchers : sending'[c].entry = sending[c].entry
    BY <1>1, <1>5 DEF SendEntry, Sending
  <2>5. \A c \in Dispatchers : c # d => sending'[c].step = sending[c].step
    BY <1>1, <1>5 DEF SendEntry
  <2>6. sending'[d].step = "sent" => reached
    BY <1>1, <1>5 DEF SendEntry, Sending
  <2>7. SentWasDelivered'
    BY <1>1, <1>5, <2>2 DEF SendEntry, SentInv, SentWasDelivered
  <2>8. ASSUME NEW c \in Dispatchers, sending'[c].step = "sent" PROVE delivered'[sending'[c].entry] > 0
    <3>1. CASE c = d
      BY <2>3, <2>4, <2>6, <2>8, <3>1
    <3>2. CASE c # d
      <4>1. sending[c].step = "sent"
        BY <2>5, <2>8, <3>2
      <4>2. sending[c].entry \in Entries /\ delivered[sending[c].entry] > 0
        BY <4>1 DEF Working, SentInv
      <4>3. delivered[sending[c].entry] \in Nat /\ delivered'[sending[c].entry] > 0
        BY <1>1, <2>2, <4>2
      <4> QED
        BY <2>4, <4>3
    <3> QED
      BY <3>1, <3>2
  <2> QED
    BY <2>7, <2>8 DEF SentInv
<1>6. ASSUME NEW d \in Dispatchers, MarkDone(d) PROVE SentInv'
  <2>1. sending[d].step = "sent" => delivered[sending[d].entry] > 0
    BY DEF SentInv
  <2>2. SentWasDelivered'
    BY <1>1, <1>6, <2>1 DEF MarkDone, SentInv, SentWasDelivered
  <2>3. \A c \in Dispatchers : sending'[c].step = "sent" => sending'[c] = sending[c]
    BY <1>1, <1>6 DEF MarkDone, Resting
  <2> QED
    BY <1>6, <2>2, <2>3 DEF MarkDone, SentInv
<1>7. ASSUME NEW d \in Dispatchers, DispatcherDies(d) PROVE SentInv'
  <2>1. \A c \in Dispatchers : sending'[c].step = "sent" => sending'[c] = sending[c]
    BY <1>1, <1>7 DEF DispatcherDies, Resting
  <2> QED
    BY <1>7, <2>1 DEF DispatcherDies, SentInv, SentWasDelivered
<1>8. CASE UNCHANGED outboxVars
  BY <1>8 DEF outboxVars, SentInv, SentWasDelivered
<1> QED
  BY <1>2, <1>3, <1>4, <1>5, <1>6, <1>7, <1>8 DEF OutboxMoves, OutboxActs

LEMMA StepQueued ==
    ASSUME OutboxTypeOK, Working, QueuedInv, OutboxMoves
    PROVE  QueuedInv'
<1>1. /\ sending \in [Dispatchers -> Sending] /\ todo \in [Dispatchers -> SUBSET Entries]
      /\ outbox \in [Entries -> OutboxStatus]
  BY DEF OutboxTypeOK, Sending
<1>2. ASSUME NEW k \in Keys, NEW payload \in Payloads, Record(k, payload) PROVE QueuedInv'
  <2>1. /\ \A e \in Entries : outbox'[e] # "no entry" <=> outbox[e] # "no entry" \/ e[1] = k
        /\ \A j \in Keys : j # k => event'[j] = event[j]
        /\ event'[k] # NoEvent /\ todo' = todo /\ sending' = sending
    BY <1>2, Recording
  <2>2. ASSUME NEW j \in Keys, NEW c \in Channels
        PROVE  event'[j] # NoEvent <=> outbox'[<<j, c>>] # "no entry"
    <3>1. <<j, c>> \in Entries /\ <<j, c>>[1] = j
      BY DEF Entries
    <3>2. event[j] # NoEvent <=> outbox[<<j, c>>] # "no entry"
      BY DEF QueuedInv, EveryEventIsQueued
    <3>3. outbox'[<<j, c>>] # "no entry" <=> outbox[<<j, c>>] # "no entry" \/ j = k
      BY <2>1, <3>1
    <3> QED
      BY <2>1, <3>2, <3>3
  <2> QED
    BY <1>1, <2>1, <2>2 DEF QueuedInv, EveryEventIsQueued, Working
<1>3. ASSUME UNCHANGED event,
             \A e \in Entries : outbox'[e] # "no entry" <=> outbox[e] # "no entry"
      PROVE  EveryEventIsQueued'
  <2>1. \A j \in Keys, c \in Channels : <<j, c>> \in Entries
    BY DEF Entries
  <2> QED
    BY <1>3, <2>1 DEF QueuedInv, EveryEventIsQueued
<1>4. ASSUME NEW d \in Dispatchers, List(d) PROVE QueuedInv'
  <2>1. \A c \in Dispatchers : \A e \in todo'[c] : outbox[e] # "no entry"
    BY <1>1, <1>4 DEF List, QueuedInv
  <2> QED
    BY <1>3, <1>4, <2>1 DEF List, QueuedInv
<1>5. ASSUME NEW d \in Dispatchers, NEW e \in Entries, MarkSending(d, e) PROVE QueuedInv'
  <2>1. outbox[e] # "no entry"
    BY <1>5 DEF MarkSending, QueuedInv
  <2>2. \A f \in Entries : outbox'[f] # "no entry" <=> outbox[f] # "no entry"
    BY <1>1, <1>5, <2>1 DEF MarkSending
  <2>3. /\ \A c \in Dispatchers : todo'[c] \subseteq todo[c]
        /\ sending'[d].entry = e
        /\ \A c \in Dispatchers : c # d => sending'[c] = sending[c]
    BY <1>1, <1>5 DEF MarkSending
  <2>4. EveryEventIsQueued'
    BY <1>3, <1>5, <2>2 DEF MarkSending
  <2>5. ASSUME NEW c \in Dispatchers, sending'[c].step # "list"
        PROVE  sending'[c].entry \in Entries /\ outbox[sending'[c].entry] # "no entry"
    <3>1. CASE c = d
      BY <2>1, <2>3, <3>1
    <3>2. CASE c # d
      <4>1. sending'[c] = sending[c]
        BY <2>3, <3>2
      <4> QED
        BY <2>5, <4>1 DEF QueuedInv, Working
    <3> QED
      BY <3>1, <3>2
  <2>6. \A c \in Dispatchers : \A f \in todo'[c] : f \in Entries /\ outbox[f] # "no entry"
    BY <1>1, <2>3 DEF QueuedInv
  <2> QED
    BY <2>2, <2>4, <2>5, <2>6 DEF QueuedInv
<1>6. ASSUME NEW d \in Dispatchers, NEW reached \in BOOLEAN, NEW ok \in BOOLEAN,
             SendEntry(d, reached, ok)
      PROVE  QueuedInv'
  <2>1. \A c \in Dispatchers : sending'[c].entry = sending[c].entry
    BY <1>1, <1>6 DEF SendEntry, Sending
  <2>2. \A c \in Dispatchers : sending'[c].step # "list" => sending[c].step # "list"
    BY <1>1, <1>6 DEF SendEntry, Sending
  <2>3. EveryEventIsQueued' /\ UNCHANGED <<outbox, todo>>
    BY <1>3, <1>6 DEF SendEntry
  <2>4. ASSUME NEW c \in Dispatchers, sending'[c].step # "list"
        PROVE  outbox'[sending'[c].entry] # "no entry"
    BY <2>1, <2>2, <2>3, <2>4 DEF QueuedInv
  <2> QED
    BY <2>3, <2>4 DEF QueuedInv
<1>7. ASSUME NEW d \in Dispatchers, MarkDone(d) PROVE QueuedInv'
  <2>1. sending[d].entry \in Entries /\ outbox[sending[d].entry] # "no entry"
    BY <1>7 DEF MarkDone, QueuedInv, Working
  <2>2. \A f \in Entries : outbox'[f] # "no entry" <=> outbox[f] # "no entry"
    BY <1>1, <1>7, <2>1 DEF MarkDone
  <2>3. \A c \in Dispatchers : sending'[c].step # "list" => sending'[c] = sending[c]
    BY <1>1, <1>7 DEF MarkDone, Resting
  <2>4. EveryEventIsQueued' /\ UNCHANGED todo
    BY <1>3, <1>7, <2>2 DEF MarkDone
  <2> QED
    BY <1>1, <2>2, <2>3, <2>4 DEF QueuedInv, Working
<1>8. ASSUME NEW d \in Dispatchers, DispatcherDies(d) PROVE QueuedInv'
  <2>1. \A c \in Dispatchers : sending'[c].step # "list" => sending'[c] = sending[c]
    BY <1>1, <1>8 DEF DispatcherDies, Resting
  <2>2. \A c \in Dispatchers : todo'[c] \subseteq todo[c]
    BY <1>1, <1>8 DEF DispatcherDies
  <2>3. EveryEventIsQueued' /\ UNCHANGED outbox
    BY <1>3, <1>8 DEF DispatcherDies
  <2>4. ASSUME NEW c \in Dispatchers, sending'[c].step # "list"
        PROVE  outbox'[sending'[c].entry] # "no entry"
    BY <2>1, <2>3, <2>4 DEF QueuedInv
  <2>5. \A c \in Dispatchers : \A e \in todo'[c] : outbox'[e] # "no entry"
    BY <2>2, <2>3 DEF QueuedInv
  <2> QED
    BY <2>3, <2>4, <2>5 DEF QueuedInv
<1>9. CASE UNCHANGED outboxVars
  BY <1>9 DEF outboxVars, QueuedInv, EveryEventIsQueued
<1> QED
  BY <1>2, <1>4, <1>5, <1>6, <1>7, <1>8, <1>9 DEF OutboxMoves, OutboxActs

LEMMA OneDispatcher ==
    ASSUME Cardinality(Dispatchers) = 1, NEW c \in Dispatchers, NEW d \in Dispatchers
    PROVE  c = d
BY OutboxAssumption, FS_Singleton

LEMMA StepSole ==
    ASSUME OutboxTypeOK, Working, QueuedInv, SoleInv, OutboxMoves
    PROVE  SoleInv'
<1> SUFFICES ASSUME Cardinality(Dispatchers) = 1, NEW d \in Dispatchers
             PROVE  /\ \A e \in todo'[d] : outbox'[e] \in {"PENDING", "FAILED_RETRYABLE"}
                    /\ sending'[d].step # "list" =>
                          outbox'[sending'[d].entry] = "SENDING" /\ sending'[d].entry \notin todo'[d]
  BY DEF SoleInv
<1>1. /\ sending \in [Dispatchers -> Sending] /\ todo \in [Dispatchers -> SUBSET Entries]
      /\ outbox \in [Entries -> OutboxStatus]
  BY DEF OutboxTypeOK, Sending
<1>2. \A c \in Dispatchers : c = d
  BY OneDispatcher
<1>3. /\ \A e \in todo[d] : e \in Entries /\ outbox[e] \in {"PENDING", "FAILED_RETRYABLE"}
      /\ sending[d].step # "list" =>
            /\ sending[d].entry \in Entries
            /\ outbox[sending[d].entry] = "SENDING" /\ sending[d].entry \notin todo[d]
  BY <1>1 DEF SoleInv, Working
<1>4. CASE \E k \in Keys, payload \in Payloads : Record(k, payload)
  <2>1. /\ \A e \in Entries : outbox'[e] = outbox[e] \/ outbox[e] = "no entry"
        /\ UNCHANGED <<delivered, todo, sending>>
    BY <1>4, Recording
  <2> QED
    BY <1>3, <2>1
<1>5. CASE List(d)
  BY <1>1, <1>5 DEF List, Resting
<1>6. ASSUME NEW e \in Entries, MarkSending(d, e)
      PROVE  /\ \A f \in todo'[d] : outbox'[f] \in {"PENDING", "FAILED_RETRYABLE"}
             /\ sending'[d].step # "list" =>
                   outbox'[sending'[d].entry] = "SENDING" /\ sending'[d].entry \notin todo'[d]
  <2>1. sending'[d].entry = e /\ todo'[d] = todo[d] \ {e}
    BY <1>1, <1>6 DEF MarkSending
  <2>2. \A f \in Entries : outbox'[f] = IF f = e THEN "SENDING" ELSE outbox[f]
    BY <1>1, <1>6 DEF MarkSending
  <2> QED
    BY <1>3, <2>1, <2>2
<1>7. ASSUME NEW reached \in BOOLEAN, NEW ok \in BOOLEAN, SendEntry(d, reached, ok)
      PROVE  /\ \A f \in todo'[d] : outbox'[f] \in {"PENDING", "FAILED_RETRYABLE"}
             /\ sending'[d].step # "list" =>
                   outbox'[sending'[d].entry] = "SENDING" /\ sending'[d].entry \notin todo'[d]
  <2>1. sending'[d].entry = sending[d].entry /\ sending[d].step # "list"
    BY <1>1, <1>7 DEF SendEntry, Sending
  <2> QED
    BY <1>3, <1>7, <2>1 DEF SendEntry
<1>8. CASE MarkDone(d)
  <2>1. sending'[d].step = "list" /\ UNCHANGED todo /\ sending[d].step # "list"
    BY <1>1, <1>8 DEF MarkDone, Resting
  <2>2. \A f \in Entries : f # sending[d].entry => outbox'[f] = outbox[f]
    BY <1>1, <1>8 DEF MarkDone
  <2> QED
    BY <1>3, <2>1, <2>2
<1>9. CASE DispatcherDies(d)
  BY <1>1, <1>9 DEF DispatcherDies, Resting
<1>10. CASE UNCHANGED outboxVars
  BY <1>3, <1>10 DEF outboxVars
<1> QED
  BY <1>2, <1>4, <1>5, <1>6, <1>7, <1>8, <1>9, <1>10 DEF OutboxMoves, OutboxActs

StoreInv == SentInv /\ QueuedInv /\ SoleInv

LEMMA FirstStore == Init => StoreInv
<1> SUFFICES ASSUME Init PROVE StoreInv
  OBVIOUS
<1>1. /\ \A e \in Entries : outbox[e] = "no entry"
      /\ \A d \in Dispatchers : sending[d].step = "list" /\ todo[d] = {}
      /\ \A k \in Keys : event[k] = NoEvent
  BY DEF Init, OutboxInit, Resting
<1>2. \A k \in Keys, c \in Channels : <<k, c>> \in Entries
  BY DEF Entries
<1> QED
  BY <1>1, <1>2 DEF StoreInv, SentInv, SentWasDelivered, QueuedInv, EveryEventIsQueued, SoleInv

LEMMA StoreStays == Spec => [](TypeOK /\ Working /\ StoreInv)
<1>1. TypeOK /\ Working /\ StoreInv /\ [Next]_vars => (TypeOK /\ Working /\ StoreInv)'
  <2> SUFFICES ASSUME TypeOK, Working, StoreInv, [Next]_vars PROVE (TypeOK /\ Working /\ StoreInv)'
    OBVIOUS
  <2>1. OutboxTypeOK /\ OutboxMoves
    BY StepsMove DEF TypeOK
  <2> QED
    BY <2>1, StepTypes, StepSent, StepQueued, StepSole DEF StoreInv
<1> QED
  BY <1>1, FirstTypes, FirstStore, PTL DEF Spec

\* What is marked SENT was delivered, for any number of dispatchers that overwrite
\* each other's status, lose an answer or die.
THEOREM MarkedWasDelivered == Spec => []SentWasDelivered
<1>1. StoreInv => SentWasDelivered
  BY DEF StoreInv, SentInv
<1> QED
  BY <1>1, StoreStays, PTL

\* A signal is stored with an entry for every channel, or not at all.
THEOREM SignalsAreQueued == Spec => []EveryEventIsQueued
<1>1. StoreInv => EveryEventIsQueued
  BY DEF StoreInv, QueuedInv
<1> QED
  BY <1>1, StoreStays, PTL

\* The payload stored under a key is never replaced, whichever command records next.
THEOREM SignalsAreFacts == Spec => EventsAreFacts
<1>1. TypeOK /\ [Next]_vars =>
         [\A k \in Keys : event[k] # NoEvent => event'[k] = event[k]]_outboxVars
  <2> SUFFICES ASSUME TypeOK, [Next]_vars, NEW j \in Keys, event[j] # NoEvent
               PROVE  event'[j] = event[j]
    OBVIOUS
  <2>1. OutboxTypeOK /\ OutboxMoves
    BY StepsMove DEF TypeOK
  <2>2. ASSUME NEW k \in Keys, NEW payload \in Payloads, Record(k, payload)
        PROVE  event'[j] = event[j]
    BY <2>1, <2>2, Recording
  <2>3. CASE OutboxActs \/ UNCHANGED outboxVars
    BY <2>3 DEF OutboxActs, List, MarkSending, SendEntry, MarkDone, DispatcherDies, outboxVars
  <2> QED
    BY <2>1, <2>2, <2>3 DEF OutboxMoves
<1> QED
  BY <1>1, TypeCorrect, PTL DEF Spec, EventsAreFacts

\* What the only dispatcher marked SENT is never sent or queued again.
THEOREM SentStaysSent == Spec => SentStays
<1>1. TypeOK /\ Working /\ StoreInv /\ [Next]_vars =>
         [Cardinality(Dispatchers) = 1 =>
             \A e \in Entries : outbox[e] = "SENT" => outbox'[e] = "SENT"]_outboxVars
  <2> SUFFICES ASSUME TypeOK, Working, StoreInv, [Next]_vars, Cardinality(Dispatchers) = 1,
                      NEW f \in Entries, outbox[f] = "SENT"
               PROVE  outbox'[f] = "SENT"
    OBVIOUS
  <2>1. OutboxTypeOK /\ OutboxMoves /\ SoleInv
    BY StepsMove DEF TypeOK, StoreInv
  <2>2. ASSUME NEW k \in Keys, NEW payload \in Payloads, Record(k, payload)
        PROVE  outbox'[f] = "SENT"
    BY <2>1, <2>2, Recording
  <2>3. ASSUME NEW d \in Dispatchers, NEW e \in Entries, MarkSending(d, e)
        PROVE  outbox'[f] = "SENT"
    <3>1. e # f
      BY <2>1, <2>3 DEF MarkSending, SoleInv
    <3> QED
      BY <2>1, <2>3, <3>1 DEF MarkSending, OutboxTypeOK
  <2>4. ASSUME NEW d \in Dispatchers, MarkDone(d) PROVE outbox'[f] = "SENT"
    <3>1. outbox[sending[d].entry] = "SENDING"
      BY <2>1, <2>4 DEF MarkDone, SoleInv
    <3> QED
      BY <2>1, <2>4, <3>1 DEF MarkDone, OutboxTypeOK
  <2>5. CASE UNCHANGED outboxVars
    BY <2>5 DEF outboxVars
  <2>6. CASE \E d \in Dispatchers : \/ List(d) \/ DispatcherDies(d)
                                    \/ \E reached, ok \in BOOLEAN : SendEntry(d, reached, ok)
    BY <2>6 DEF List, DispatcherDies, SendEntry
  <2> QED
    BY <2>1, <2>2, <2>3, <2>4, <2>5, <2>6 DEF OutboxMoves, OutboxActs
<1> QED
  BY <1>1, StoreStays, PTL DEF Spec, SentStays
=============================================================================
