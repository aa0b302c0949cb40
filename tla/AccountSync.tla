------------------------------- MODULE AccountSync ------------------------------
(***************************************************************************)
(* The account row of the Core store, whose sync_status LIVE trading hangs *)
(* on, and the commands that write it: `tc account sync` and `positions`   *)
(* (shared/account.py, sync_runtime_state), every reader that goes through *)
(* ensure_synced, and `tc execution reconcile` (reconcile_runtime).        *)
(*                                                                         *)
(* Each of them reads the row, talks to the broker and writes the row in   *)
(* separate statements; no transaction spans them.                         *)
(***************************************************************************)
EXTENDS Naturals

CONSTANTS
    Procs,          \* processes that run commands
    Commands,       \* a subset of {"sync", "positions", "show", "reconcile"}
    Overlap,        \* whether a command may start while another one runs
    MaxTroubles     \* bound: crashes, failed queries and failed hydrations

ASSUME AccountAssumption ==
    /\ Commands \subseteq {"sync", "positions", "show", "reconcile"}
    /\ Overlap \in BOOLEAN
    /\ MaxTroubles \in Nat

Status == {"SYNCED", "STALE", "RECONCILING", "MISMATCH", "UNKNOWN"}
NoRow == "no row"
Times == {"never", "fresh", "old"}
Outcomes == {"ok", "partial", "failed", "mismatch"}
Steps == {"idle", "fetch", "write", "compare", "settle", "ensure", "stale",
          "previous", "mark", "poll", "plans", "current", "restore"}

VARIABLES
    status,     \* trading_account.sync_status
    assets,     \* cash and buying_power have been stored
    updated,    \* age of updated_at against FRESHNESS_SECONDS
    success,    \* age of last_success_at
    agree,      \* the broker's positions are those of the local portfolio
    found,      \* a mismatch was written and no comparison has succeeded since
    covered,    \* a reconciliation wrote over that MISMATCH and has not put it back
    failing,    \* a reconciliation failed or died and no sync has written the row since
    troubles,   \* troubles so far
    pc,         \* per process: next step
    cmd,        \* per process: the command
    outcome,    \* per process: what the queries of this stage gave
    old         \* per process: the row's status and freshness as it read them

rowVars == <<status, assets, updated, success>>
ghostVars == <<found, covered, failing>>
vars == <<rowVars, agree, ghostVars, troubles, pc, cmd, outcome, old>>

\* Types of the row and of the processes.
TypeOK ==
    /\ status \in Status \cup {NoRow}
    /\ assets \in BOOLEAN /\ agree \in BOOLEAN /\ found \in BOOLEAN
    /\ covered \in BOOLEAN /\ failing \in BOOLEAN
    /\ updated \in Times /\ success \in Times
    /\ troubles \in 0..MaxTroubles
    /\ pc \in [Procs -> Steps]
    /\ cmd \in [Procs -> Commands \cup {"none"}]
    /\ outcome \in [Procs -> Outcomes]
    /\ old \in [Procs -> [status : Status \cup {NoRow}, fresh : BOOLEAN]]

Init ==
    /\ status = NoRow /\ assets = FALSE /\ updated = "never" /\ success = "never"
    /\ agree \in BOOLEAN
    /\ found = FALSE /\ covered = FALSE /\ failing = FALSE /\ troubles = 0
    /\ pc = [p \in Procs |-> "idle"]
    /\ cmd = [p \in Procs |-> "none"]
    /\ outcome = [p \in Procs |-> "ok"]
    /\ old = [p \in Procs |-> [status |-> NoRow, fresh |-> FALSE]]

Goto(p, step) == pc' = [pc EXCEPT ![p] = step] /\ UNCHANGED cmd
Leave(p) == pc' = [pc EXCEPT ![p] = "idle"] /\ cmd' = [cmd EXCEPT ![p] = "none"]

Trouble == troubles < MaxTroubles /\ troubles' = troubles + 1

\* An outcome of the broker queries; all but a good one is a trouble.
Gives(p, o) ==
    /\ outcome' = [outcome EXCEPT ![p] = o]
    /\ IF o \in {"partial", "failed"} THEN Trouble ELSE UNCHANGED troubles

\* _is_fresh(last_success_at or updated_at).
BugNeedsSuccess == success = "fresh"
RecentlySeen == IF success # "never" THEN success = "fresh" ELSE updated = "fresh"

ReadRow(p) == old' = [old EXCEPT ![p] = [status |-> status, fresh |-> RecentlySeen]]

\* set_account_sync_status: an UPSERT that keeps the times of an existing row, and
\* stamps updated_at on a new one.
SetStatus(s) ==
    /\ status' = s
    /\ updated' = IF status = NoRow THEN "fresh" ELSE updated
    /\ UNCHANGED <<assets, success>>

BugForgetsMismatch(s) == IF s = NoRow THEN "UNKNOWN" ELSE "STALE"
Degraded(s) == CASE s = NoRow -> "UNKNOWN"
                 [] s = "MISMATCH" -> "MISMATCH"
                 [] OTHER -> "STALE"

(***************************************************************************)
(* Starting a command                                                      *)
(***************************************************************************)
First(c) == CASE c = "sync" -> "fetch" [] c = "positions" -> "compare"
              [] c = "show" -> "ensure" [] c = "reconcile" -> "previous"

Start(p, c) ==
    /\ pc[p] = "idle"
    /\ Overlap \/ \A q \in Procs : pc[q] = "idle"
    /\ pc' = [pc EXCEPT ![p] = First(c)]
    /\ cmd' = [cmd EXCEPT ![p] = c]
    /\ UNCHANGED <<rowVars, agree, ghostVars, troubles, outcome, old>>

(***************************************************************************)
(* sync_account                                                            *)
(***************************************************************************)
\* The queries, and the row as read for the status to persist.
Fetch(p) ==
    /\ pc[p] = "fetch"
    /\ \E o \in {"ok", "partial", "failed"} : Gives(p, o)
    /\ ReadRow(p)
    /\ Goto(p, "write")
    /\ UNCHANGED <<rowVars, agree, ghostVars>>

\* upsert_account replaces the whole row: last_success_at is cleared when the status
\* stays MISMATCH.
UpsertAccount(s) ==
    /\ status' = s /\ assets' = TRUE /\ updated' = "fresh"
    /\ success' = IF s = "SYNCED" THEN "fresh" ELSE "never"

\* A complete snapshot is stored with its times.
Write(p) ==
    /\ pc[p] = "write"
    /\ IF outcome[p] = "ok"
       THEN UpsertAccount(IF old[p].status = "MISMATCH" THEN "MISMATCH" ELSE "SYNCED")
       ELSE SetStatus(Degraded(old[p].status))
    /\ failing' = FALSE
    /\ Goto(p, "compare")
    /\ UNCHANGED <<agree, found, covered, troubles, outcome, old>>

(***************************************************************************)
(* sync_positions                                                          *)
(***************************************************************************)
\* The broker's positions against the local portfolio, and then the row.
Compare(p) ==
    /\ pc[p] = "compare"
    /\ \E o \in {"ok", "mismatch", "partial", "failed"} :
         /\ o = "mismatch" => ~agree
         /\ o \in {"ok", "partial"} => agree
         /\ Gives(p, o)
    /\ ReadRow(p)
    /\ Goto(p, "settle")
    /\ UNCHANGED <<rowVars, agree, ghostVars>>

AfterPositions(p) == IF cmd[p] = "sync" THEN Goto(p, "ensure") ELSE Leave(p)

\* A match lifts a MISMATCH only when the account was seen recently.
Settle(p) ==
    /\ pc[p] = "settle"
    /\ CASE outcome[p] = "mismatch" -> SetStatus("MISMATCH")
         [] outcome[p] \in {"partial", "failed"} -> SetStatus(Degraded(old[p].status))
         [] outcome[p] = "ok" /\ old[p].status = NoRow -> SetStatus("UNKNOWN")
         [] outcome[p] = "ok" /\ old[p].status = "MISMATCH" /\ old[p].fresh -> SetStatus("SYNCED")
         [] OTHER -> UNCHANGED rowVars
    /\ found' = CASE outcome[p] = "mismatch" -> TRUE
                  [] outcome[p] = "ok" -> FALSE
                  [] OTHER -> found
    /\ covered' = (covered /\ outcome[p] \in {"partial", "failed"})
    /\ failing' = (failing /\ status' = status)
    /\ AfterPositions(p)
    /\ UNCHANGED <<agree, troubles, outcome, old>>

(***************************************************************************)
(* ensure_synced                                                           *)
(***************************************************************************)
Ensure(p) ==
    /\ pc[p] = "ensure"
    /\ IF status = "SYNCED" /\ updated # "fresh" THEN Goto(p, "stale") ELSE Leave(p)
    /\ UNCHANGED <<rowVars, agree, ghostVars, troubles, outcome, old>>

MarkStale(p) ==
    /\ pc[p] = "stale"
    /\ SetStatus("STALE")
    /\ Leave(p)
    /\ UNCHANGED <<agree, ghostVars, troubles, outcome, old>>

(***************************************************************************)
(* reconcile_runtime                                                       *)
(***************************************************************************)
ReadPrevious(p) ==
    /\ pc[p] = "previous"
    /\ ReadRow(p)
    /\ Goto(p, "mark")
    /\ UNCHANGED <<rowVars, agree, ghostVars, troubles, outcome>>

Mark(p) ==
    /\ pc[p] = "mark"
    /\ SetStatus("RECONCILING")
    /\ covered' = found
    /\ Goto(p, "poll")
    /\ UNCHANGED <<agree, found, failing, troubles, outcome, old>>

\* poll_active_orders: a missing answer is remembered and reconcile_plan runs all the same.
Poll(p) ==
    /\ pc[p] = "poll"
    /\ \E o \in {"ok", "failed"} : Gives(p, o)
    /\ Goto(p, "plans")
    /\ UNCHANGED <<rowVars, agree, ghostVars, old>>

\* reconcile_plan of every plan: a mismatch of a LIVE plan makes the account MISMATCH,
\* one of a PAPER plan only fails the command.
Plans(p) ==
    /\ pc[p] = "plans"
    /\ \/ /\ outcome' = [outcome EXCEPT ![p] = "mismatch"]
          /\ \/ SetStatus("MISMATCH") /\ found' = TRUE /\ covered' = FALSE
             \/ UNCHANGED <<rowVars, found, covered>>
       \/ UNCHANGED <<rowVars, found, covered, outcome>>
    /\ Goto(p, "current")
    /\ UNCHANGED <<agree, failing, troubles, old>>

BugIgnoresPoll(p) == outcome[p] # "mismatch"
Passed(p) == outcome[p] = "ok"

\* The previous status comes back only when all went well and the row still says
\* RECONCILING.
Current(p) ==
    /\ pc[p] = "current"
    /\ IF Passed(p) /\ status = "RECONCILING" THEN Goto(p, "restore") ELSE Leave(p)
    /\ failing' = (failing \/ outcome[p] # "ok")
    /\ UNCHANGED <<rowVars, agree, found, covered, troubles, outcome, old>>

Restore(p) ==
    /\ pc[p] = "restore"
    /\ SetStatus(IF old[p].status = NoRow THEN "UNKNOWN" ELSE old[p].status)
    /\ covered' = (covered /\ old[p].status # "MISMATCH")
    /\ Leave(p)
    /\ UNCHANGED <<agree, found, failing, troubles, outcome, old>>

(***************************************************************************)
(* Crashes, time and the positions                                         *)
(***************************************************************************)
\* Steps of a reconciliation that has marked the row and not yet settled it.
Unsettled == {"poll", "plans", "current", "restore"}

Crash(p) ==
    /\ pc[p] # "idle"
    /\ Trouble
    /\ Leave(p)
    /\ failing' = (failing \/ pc[p] \in Unsettled)
    /\ UNCHANGED <<rowVars, agree, found, covered, outcome, old>>

\* FRESHNESS_SECONDS pass: more than any command takes.
Ageing ==
    /\ \A p \in Procs : pc[p] = "idle"
    /\ updated' = IF updated = "never" THEN "never" ELSE "old"
    /\ success' = IF success = "never" THEN "never" ELSE "old"
    /\ UNCHANGED <<status, assets, agree, ghostVars, troubles, pc, cmd, outcome, old>>

\* The broker trades, or the local portfolio is edited.
PositionsMove ==
    /\ agree' = ~agree
    /\ UNCHANGED <<rowVars, ghostVars, troubles, pc, cmd, outcome, old>>

Step(p) ==
    \/ Fetch(p) \/ Write(p) \/ Compare(p) \/ Settle(p) \/ Ensure(p) \/ MarkStale(p)
    \/ ReadPrevious(p) \/ Mark(p) \/ Poll(p) \/ Plans(p) \/ Current(p) \/ Restore(p)

Next ==
    \/ \E p \in Procs : \/ \E c \in Commands : Start(p, c)
                        \/ Step(p) \/ Crash(p)
    \/ Ageing \/ PositionsMove

Spec == Init /\ [][Next]_vars

\* The timer starts `account sync` again and again; a command that is not killed
\* takes its steps.
FairSpec ==
    /\ Spec
    /\ \A p \in Procs : WF_vars(Step(p)) /\ SF_vars(Start(p, "sync"))

(***************************************************************************)
(* Properties                                                              *)
(***************************************************************************)
\* Once a comparison with the broker failed, the account is not SYNCED again before
\* one has succeeded (account.py:12 and 412).
MismatchHolds == found => status # "SYNCED"

\* The same, as far as the code keeps it: every command, whatever it is told and
\* wherever it dies, leaves a MISMATCH that no reconciliation wrote over standing until
\* a comparison succeeds, and a reconciliation that goes well puts it back.
MismatchKept == found /\ ~covered => status # "SYNCED"

\* A reconciliation that found a mismatch, got no answer or died on its way leaves the
\* account in a state that forbids LIVE orders, until a sync looks again (operations.py:95).
ReconcileFailsClosed == failing => status # "SYNCED"

\* SYNCED is said of an account whose cash and buying power are known: comparing
\* positions alone cannot say it (account.py:408).
SyncedHasAssets == status = "SYNCED" => assets

\* The account is not locked out for ever: whatever happened before, once the
\* positions agree the scheduled sync makes it SYNCED again.
Recovers == <>[]agree => []<>(status = "SYNCED")
===============================================================================
