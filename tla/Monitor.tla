--------------------------------- MODULE Monitor --------------------------------
(***************************************************************************)
(* The surveillance of a day (production/monitor.py), the signals it and   *)
(* the decision record (post_market_to_outbox, collect_signals) and their  *)
(* outbox.  Every command is a process of its own: it reads the gates, goes*)
(* through its symbols one by one, committing each claim and each signal   *)
(* on its own, and delivers its alerts at the end.  Data, account and day  *)
(* may change between any two of those steps.                              *)
(***************************************************************************)
EXTENDS SignalOutbox

CONSTANTS
    Symbols,        \* the symbols held or followed: the scope of a command
    Held,           \* those the broker holds
    Conditions,     \* bound: the alert conditions that occur
    MaxDay,         \* bound: days
    MaxRevisions,   \* bound: revisions of a symbol's bars
    Procs,          \* processes that run monitor or decision commands
    Scenes,         \* bound: commands in use together, their symbols, the conditions that occur,
                    \* the dispatchers at work, the days they go on and the revisions the bars
                    \* of a symbol get meanwhile
    MaxTroubles,    \* bound: processes that die, and notifications that fail
    MaxHeard        \* bound: deliveries of one alert after which no command is started

Days == 1..MaxDay
Commands == {"pre", "intra", "post", "collect"}

\* What an alert is about: the command that raises it and its kind. `monitor intra` asks
\* _log_alert before it raises the first three, in this order; all else is raised at every run.
Claimed == {"intra"} \X {"pre_entry", "stop_proximity", "missing_protective"}
Turn == [kind \in {"pre_entry", "stop_proximity", "missing_protective"} |->
            CASE kind = "pre_entry" -> 1 [] kind = "stop_proximity" -> 2
              [] kind = "missing_protective" -> 3]
AllConditions ==
    Claimed \cup {"intra"} \X {"stop_breached", "data_blocked"}
    \cup {"pre"} \X {"pre_entry", "stop_breached", "stop_change", "missing_protective", "data",
                     "data_blocked"}
Alerts == Symbols \X Conditions \X Days
SignalKeys == Symbols \X Days \X {"ENTRY", "EXIT", "POST_ENTRY", "POST_EXIT", "POST_NO_CHANGE"}
SignalPayloads == {"gate", "quiet", "verdict"} \X (0..MaxRevisions)

ASSUME MonitorAssumption ==
    /\ Held \subseteq Symbols
    /\ Keys = SignalKeys /\ Payloads = SignalPayloads
    /\ Conditions \subseteq AllConditions
    /\ MaxDay \in Nat \ {0} /\ MaxRevisions \in Nat /\ MaxTroubles \in Nat /\ MaxHeard \in Nat
    /\ Scenes \subseteq [commands : SUBSET Commands, watchlist : BOOLEAN, scope : SUBSET Symbols,
                   conditions : SUBSET Conditions, dispatchers : SUBSET Dispatchers,
                   days : Days, revisions : 0..MaxRevisions]

VARIABLES
    scene,      \* what is in use, and whether it is asked for with --scope watchlist
    day,        \* today
    sound,      \* the symbols whose data pass the gate
    account,    \* the account is SYNCED
    bars,       \* per symbol: the revision of its bars, their last day and what they call for
    claimed,    \* monitor_alert_dedupe
    heard,      \* per alert: how often it was delivered
    due,        \* the alerts a command found due
    proc,       \* per process: its command, day, symbols to go, alerts it is about to claim,
                \* and alerts to deliver
    troubles    \* troubles so far

world == <<scene, day, sound, account, bars>>
monitorVars == <<world, claimed, heard, due, proc, troubles>>
vars == <<monitorVars, outboxVars>>

Idle == [cmd |-> "none", day |-> 1, todo |-> {}, claims |-> {}, alerts |-> {}]
Quiet == [revision |-> 0, last |-> 1, verdict |-> "none"]

\* Types of the world and of the processes.
TypeOK ==
    /\ OutboxTypeOK
    /\ scene \in Scenes
    /\ day \in Days /\ sound \subseteq Symbols /\ account \in BOOLEAN
    /\ bars \in [Symbols -> [revision : 0..MaxRevisions, last : Days,
                             verdict : {"none", "entry", "exit"}]]
    /\ claimed \subseteq Alerts /\ due \subseteq Alerts
    /\ heard \in [Alerts -> Nat]
    /\ proc \in [Procs -> [cmd : Commands \cup {"none"}, day : Days,
                           todo : SUBSET Symbols, claims : SUBSET Alerts, alerts : SUBSET Alerts]]
    /\ troubles \in 0..MaxTroubles

Init ==
    /\ OutboxInit
    /\ scene \in Scenes
    /\ day = 1 /\ sound = scene.scope /\ account = TRUE
    /\ bars = [s \in Symbols |-> Quiet]
    /\ claimed = {} /\ due = {} /\ heard = [a \in Alerts |-> 0]
    /\ proc = [p \in Procs |-> Idle]
    /\ troubles = 0

-----------------------------------------------------------------------------
(* The world: the calendar, the data synchronisation, the account.         *)

\* A new day makes the bars of yesterday stale until they are synchronised.
NewDay ==
    /\ day < scene.days /\ day' = day + 1 /\ sound' = {}
    /\ UNCHANGED <<scene, account, bars, claimed, heard, due, proc, troubles, outboxVars>>

\* A synchronisation under way has stored bars its manifest does not count yet.
BarsWithoutManifest(s) ==
    /\ s \in sound /\ sound' = sound \ {s}
    /\ UNCHANGED <<scene, day, account, bars, claimed, heard, due, proc, troubles, outboxVars>>

\* Its end: new or corrected bars of a symbol, and what the strategy makes of them: an exit
\* needs a position, an entry needs none.
Verdicts(s) == {"none", IF s \in Held THEN "exit" ELSE "entry"}
SyncBars(s, verdict) ==
    /\ s \notin sound /\ sound' = sound \cup {s}
    /\ bars' = [bars EXCEPT ![s] =
          IF @.revision < scene.revisions
          THEN [revision |-> @.revision + 1, last |-> day, verdict |-> verdict]
          ELSE [@ EXCEPT !.last = day]]
    /\ UNCHANGED <<scene, day, account, claimed, heard, due, proc, troubles, outboxVars>>

AccountChanges ==
    /\ ~scene.watchlist \* bound: where nobody asks for it, it stays as it is
    /\ account' = ~account
    /\ UNCHANGED <<scene, day, sound, bars, claimed, heard, due, proc, troubles, outboxVars>>

-----------------------------------------------------------------------------
(* Commands.                                                               *)

\* health_check: every symbol of the scope and, unless it is the watchlist, the account,
\* or nothing is done.
Healthy == (scene.watchlist \/ account) /\ sound = scene.scope

\* `monitor pre` and `monitor intra` start behind the gate; the other two have none of their own.
Start(p, cmd) ==
    /\ proc[p] = Idle /\ cmd \in scene.commands
    /\ cmd \in {"pre", "intra"} => Healthy
    /\ \A a \in Alerts : heard[a] < MaxHeard
    /\ proc' = [proc EXCEPT ![p] = [cmd |-> cmd, day |-> day, todo |-> scene.scope,
                                    claims |-> {}, alerts |-> {}]]
    /\ UNCHANGED <<world, claimed, heard, due, troubles, outboxVars>>

\* What may hold of a symbol: without a position nothing is said of stops; bad data hide
\* everything else.
MayHold(p, s) ==
    {c \in scene.conditions :
        /\ c[1] = proc[p].cmd /\ c[2] = "data_blocked" <=> s \notin sound
        /\ s \in Held \/ c[2] \in {"pre_entry", "data", "data_blocked"}}
BugFound(p, s, holds) == {s} \X holds \X {proc[p].day + 1}
Found(p, s, holds) == {s} \X holds \X {proc[p].day}

\* pre_market_check or intraday_check of a symbol: what holds now and needs no claim is kept
\* to be delivered, the rest is claimed next.
CheckSymbol(p, s, holds) ==
    LET found == Found(p, s, holds)
        free == {a \in found : a[2] \notin Claimed}
    IN  /\ proc[p].cmd \in {"pre", "intra"} /\ s \in proc[p].todo /\ proc[p].claims = {}
        /\ s \notin sound => holds = MayHold(p, s)
        /\ due' = due \cup free
        /\ proc' = [proc EXCEPT ![p].todo = @ \ {s}, ![p].claims = found \ free,
                                ![p].alerts = @ \cup free]
        /\ UNCHANGED <<world, claimed, heard, troubles, outboxVars>>

\* claim_monitor_alert: one INSERT OR IGNORE, committed at once. Who inserted the row keeps
\* the alert.
BugClaim(p, a) ==
    /\ proc[p].cmd = "intra" /\ a \in proc[p].claims
    /\ \A b \in proc[p].claims : Turn[a[2][2]] <= Turn[b[2][2]]
    /\ due' = due \cup {a} /\ claimed' = claimed \cup {a}
    /\ proc' = [proc EXCEPT ![p].claims = @ \ {a}, ![p].alerts = @ \cup {a}]
    /\ UNCHANGED <<world, heard, troubles, outboxVars>>
Claim(p, a) ==
    /\ proc[p].cmd = "intra" /\ a \in proc[p].claims
    /\ \A b \in proc[p].claims : Turn[a[2][2]] <= Turn[b[2][2]]
    /\ due' = due \cup {a} /\ claimed' = claimed \cup {a}
    /\ proc' = [proc EXCEPT ![p].claims = @ \ {a}, ![p].alerts = @ \cup ({a} \ claimed)]
    /\ UNCHANGED <<world, heard, troubles, outboxVars>>

\* post_market_check: no verdict without sound data. The rationale of a verdict quotes the bars.
Verdict(s) ==
    IF s \notin sound THEN "none"
    ELSE bars[s].verdict

PostType(s) == CASE Verdict(s) = "exit" -> "POST_EXIT" [] Verdict(s) = "entry" -> "POST_ENTRY"
                 [] Verdict(s) = "none" -> "POST_NO_CHANGE"
PostPayload(s) ==
    IF s \notin sound THEN <<"gate", 0>>
    ELSE IF Verdict(s) = "none" THEN <<"quiet", 0>>
    ELSE <<"verdict", bars[s].revision>>

\* post_market_to_outbox of a symbol; a mismatch raises and ends the command.
Post(p, s) ==
    /\ proc[p].cmd = "post" /\ s \in proc[p].todo
    /\ Record(<<s, proc[p].day, PostType(s)>>, PostPayload(s))
    /\ proc' = [proc EXCEPT ![p].todo = @ \ {s}]
    /\ UNCHANGED <<world, claimed, heard, due, troubles>>
PostRaises(p, s) ==
    /\ proc[p].cmd = "post" /\ s \in proc[p].todo
    /\ Mismatch(<<s, proc[p].day, PostType(s)>>, PostPayload(s))
    /\ proc' = [proc EXCEPT ![p].todo = {}]
    /\ UNCHANGED <<world, claimed, heard, due, troubles, outboxVars>>

\* collect_signals of a symbol, in any order: its ENTRY or EXIT is stored under the day of
\* its last bar before the decision goes on; a mismatch raises and the decision is lost.
CollectPayload(s) == <<"verdict", bars[s].revision>>
CollectType(s) == IF Verdict(s) = "exit" THEN "EXIT" ELSE "ENTRY"
Collect(p, s) ==
    /\ proc[p].cmd = "collect" /\ s \in proc[p].todo
    /\ IF Verdict(s) = "none" THEN UNCHANGED outboxVars
       ELSE Record(<<s, bars[s].last, CollectType(s)>>, CollectPayload(s))
    /\ proc' = [proc EXCEPT ![p].todo = @ \ {s}]
    /\ UNCHANGED <<world, claimed, heard, due, troubles>>
CollectRaises(p, s) ==
    /\ proc[p].cmd = "collect" /\ s \in proc[p].todo /\ Verdict(s) # "none"
    /\ Mismatch(<<s, bars[s].last, CollectType(s)>>, CollectPayload(s))
    /\ proc' = [proc EXCEPT ![p].todo = {}]
    /\ UNCHANGED <<world, claimed, heard, due, troubles, outboxVars>>

\* The alerts are delivered one by one when all symbols are done; a failure is
\* counted and the alert is gone.
Deliver(p, a, ok) ==
    /\ proc[p].todo = {} /\ proc[p].claims = {} /\ a \in proc[p].alerts
    /\ ~ok => troubles < MaxTroubles
    /\ heard' = [heard EXCEPT ![a] = IF ok THEN @ + 1 ELSE @]
    /\ troubles' = IF ok THEN troubles ELSE troubles + 1
    /\ proc' = [proc EXCEPT ![p].alerts = @ \ {a}]
    /\ UNCHANGED <<world, claimed, due, outboxVars>>

BugFinish(p) ==
    /\ proc[p].cmd # "none" /\ proc[p].todo = {} /\ proc[p].claims = {}
    /\ proc' = [proc EXCEPT ![p] = Idle]
    /\ UNCHANGED <<world, claimed, heard, due, troubles, outboxVars>>
Finish(p) ==
    /\ proc[p].cmd # "none" /\ proc[p].todo = {} /\ proc[p].claims = {} /\ proc[p].alerts = {}
    /\ proc' = [proc EXCEPT ![p] = Idle]
    /\ UNCHANGED <<world, claimed, heard, due, troubles, outboxVars>>

Dies(p) ==
    /\ proc[p].cmd # "none" /\ troubles < MaxTroubles
    /\ troubles' = troubles + 1
    /\ proc' = [proc EXCEPT ![p] = Idle]
    /\ UNCHANGED <<world, claimed, heard, due, outboxVars>>

OutboxStep ==
    /\ \E d \in scene.dispatchers :
          \/ List(d)
          \/ \E e \in Entries : MarkSending(d, e)
          \/ \E reached, ok \in BOOLEAN : SendEntry(d, reached, ok)
          \/ MarkDone(d)
    /\ UNCHANGED monitorVars
OutboxTrouble ==
    /\ troubles < MaxTroubles /\ troubles' = troubles + 1
    /\ \E d \in scene.dispatchers : sending[d] # Resting /\ DispatcherDies(d)
    /\ UNCHANGED <<world, claimed, heard, due, proc>>

Next ==
    \/ NewDay
    \/ \E s \in scene.scope : BarsWithoutManifest(s) \/ \E v \in Verdicts(s) : SyncBars(s, v)
    \/ AccountChanges
    \/ \E p \in Procs, cmd \in scene.commands : Start(p, cmd)
    \/ \E p \in Procs, s \in Symbols :
          \/ \E holds \in SUBSET MayHold(p, s) : CheckSymbol(p, s, holds)
          \/ Post(p, s) \/ PostRaises(p, s)
          \/ Collect(p, s) \/ CollectRaises(p, s)
    \/ \E p \in Procs, a \in Alerts : Claim(p, a) \/ \E ok \in BOOLEAN : Deliver(p, a, ok)
    \/ \E p \in Procs : Finish(p) \/ Dies(p)
    \/ OutboxStep
    \/ OutboxTrouble

Spec == Init /\ [][Next]_vars

-----------------------------------------------------------------------------

\* An intraday alert whose condition is claimed in monitor_alert_dedupe is delivered at most
\* once in a day, by one process or by several, before or after a crash, although it is
\* claimed in one step and delivered in a later one (db.py:1305).
HeardOnce == \A a \in Alerts : a[2] \in Claimed => heard[a] <= 1

\* From monitor.py:11, "同一条件同一天只提醒一次": every condition of the intraday monitor is
\* alerted once in a day. Violated: stop_breached is appended without _log_alert
\* (monitor.py:304) and delivered at every run while the price stays where it is.
OnceADay == \A a \in Alerts : a[2][1] = "intra" => heard[a] <= 1

\* As long as nothing dies and no notification fails, an alert some command found
\* due is delivered once no command is at work: a claim taken by one process is
\* never another one's silence (monitor.py:299).
DueIsHeard ==
    (troubles = 0 /\ \A p \in Procs : proc[p] = Idle) => \A a \in due : heard[a] > 0
=============================================================================
