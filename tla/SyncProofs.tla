------------------------------- MODULE SyncProofs -------------------------------
(***************************************************************************)
(* What is synchronised from the broker and the provider, for any number   *)
(* of processes.  The account row and its commands: their types; and, when *)
(* commands do not overlap, that a mismatch stands and a failed            *)
(* reconciliation blocks.  The daily bars: their types; that the manifest  *)
(* promises nothing that is not stored; that a gate that passes stands on  *)
(* a history without holes; and, with one sync at a time, on the content   *)
(* that was hashed, which no later sync rewrites.                          *)
(***************************************************************************)
EXTENDS AccountSync, DataSync, FiniteSetTheorems, WellFoundedInduction, TLAPS

USE AccountAssumption

-----------------------------------------------------------------------------
(* Types.                                                                  *)

LEMMA DegradedStatus ==
    ASSUME NEW s \in Status \cup {NoRow}
    PROVE  /\ Degraded(s) \in Status /\ Degraded(s) # "SYNCED"
           /\ s = "MISMATCH" => Degraded(s) = "MISMATCH"
           /\ Degraded(s) = "MISMATCH" => s = "MISMATCH"
BY DEF Degraded, Status, NoRow

\* Writing a status leaves a row of its type.
LEMMA SettingStatus ==
    ASSUME TypeOK, NEW s \in Status, SetStatus(s)
    PROVE  /\ status' = s /\ status' \in Status \cup {NoRow}
           /\ assets' \in BOOLEAN /\ updated' \in Times /\ success' \in Times
BY DEF SetStatus, TypeOK, Times

LEMMA Moving ==
    ASSUME TypeOK, NEW p \in Procs,
           (\E step \in Steps : Goto(p, step)) \/ Leave(p)
    PROVE  /\ pc' \in [Procs -> Steps] /\ cmd' \in [Procs -> Commands \cup {"none"}]
           /\ \A q \in Procs \ {p} : pc'[q] = pc[q]
BY DEF Goto, Leave, TypeOK, Steps

LEMMA Giving ==
    ASSUME TypeOK, NEW p \in Procs, NEW o \in Outcomes, Gives(p, o)
    PROVE  outcome' \in [Procs -> Outcomes] /\ troubles' \in 0..MaxTroubles
BY SMT DEF Gives, Trouble, TypeOK

LEMMA Reading ==
    ASSUME TypeOK, NEW p \in Procs, ReadRow(p)
    PROVE  /\ old' \in [Procs -> [status : Status \cup {NoRow}, fresh : BOOLEAN]]
           /\ old'[p].status = status
<1>1. RecentlySeen \in BOOLEAN
  BY DEF RecentlySeen
<1> QED BY <1>1 DEF ReadRow, TypeOK

\* What Settle writes.
LEMMA Settling ==
    ASSUME TypeOK, NEW p \in Procs, Settle(p)
    PROVE  /\ status' \in Status \cup {NoRow}
           /\ assets' \in BOOLEAN /\ updated' \in Times /\ success' \in Times
           /\ found' \in BOOLEAN /\ covered' \in BOOLEAN
           /\ outcome[p] = "mismatch" => status' = "MISMATCH" /\ ~covered' /\ found'
           /\ outcome[p] \in {"partial", "failed"} =>
                 status' = Degraded(old[p].status) /\ found' = found /\ covered' = covered
           /\ outcome[p] = "ok" => ~found'
<1>1. outcome[p] \in Outcomes /\ old[p].status \in Status \cup {NoRow} /\ old[p].fresh \in BOOLEAN
  BY DEF TypeOK
<1>2. CASE outcome[p] = "mismatch"
  <2>1. SetStatus("MISMATCH") /\ found' = TRUE /\ covered' = FALSE
    BY <1>2 DEF Settle
  <2> QED BY <1>2, <2>1, SettingStatus DEF Status
<1>3. CASE outcome[p] \in {"partial", "failed"}
  <2>1. SetStatus(Degraded(old[p].status)) /\ found' = found /\ covered' = (covered /\ TRUE)
    BY <1>3 DEF Settle
  <2> QED BY <1>1, <1>3, <2>1, SettingStatus, DegradedStatus DEF TypeOK
<1>4. CASE outcome[p] = "ok"
  <2>1. found' = FALSE /\ covered' = FALSE
    BY <1>4 DEF Settle
  <2>2. SetStatus("UNKNOWN") \/ SetStatus("SYNCED") \/ UNCHANGED rowVars
    BY <1>4 DEF Settle
  <2> QED BY <1>4, <2>1, <2>2, SettingStatus DEF Status, rowVars, TypeOK
<1> QED BY <1>1, <1>2, <1>3, <1>4 DEF Outcomes

LEMMA Typed == TypeOK /\ [Next]_vars => TypeOK'
<1> SUFFICES ASSUME TypeOK, [Next]_vars PROVE TypeOK'
  OBVIOUS
<1> USE DEF ghostVars
<1>1. ASSUME NEW p \in Procs, NEW c \in Commands, Start(p, c) PROVE TypeOK'
  <2>1. First(c) \in Steps
    BY <1>1 DEF First, Steps
  <2> QED BY <1>1, <2>1 DEF Start, TypeOK, rowVars
<1>2. ASSUME NEW p \in Procs, Fetch(p) PROVE TypeOK'
  <2>1. Goto(p, "write") /\ \E o \in Outcomes : Gives(p, o)
    BY <1>2 DEF Fetch, Outcomes
  <2> QED BY <1>2, <2>1, Moving, Giving, Reading DEF Fetch, TypeOK, rowVars, Steps
<1>3. ASSUME NEW p \in Procs, Write(p) PROVE TypeOK'
  <2>1. old[p].status \in Status \cup {NoRow}
    BY DEF TypeOK
  <2>2. /\ status' \in Status \cup {NoRow}
        /\ assets' \in BOOLEAN /\ updated' \in Times /\ success' \in Times
    BY <1>3, <2>1, SettingStatus, DegradedStatus DEF Write, UpsertAccount, Status, Times
  <2>3. pc' \in [Procs -> Steps] /\ cmd' \in [Procs -> Commands \cup {"none"}]
    BY <1>3, Moving DEF Write, Steps
  <2> QED BY <1>3, <2>2, <2>3 DEF Write, TypeOK
<1>4. ASSUME NEW p \in Procs, Compare(p) PROVE TypeOK'
  <2>1. Goto(p, "settle") /\ \E o \in Outcomes : Gives(p, o)
    BY <1>4 DEF Compare, Outcomes
  <2> QED BY <1>4, <2>1, Moving, Giving, Reading DEF Compare, TypeOK, rowVars, Steps
<1>5. ASSUME NEW p \in Procs, Settle(p) PROVE TypeOK'
  <2>1. pc' \in [Procs -> Steps] /\ cmd' \in [Procs -> Commands \cup {"none"}]
    BY <1>5, Moving DEF Settle, AfterPositions, Steps
  <2>2. failing' \in BOOLEAN /\ UNCHANGED <<agree, troubles, outcome, old>>
    BY <1>5 DEF Settle, TypeOK
  <2> QED BY <1>5, <2>1, <2>2, Settling DEF TypeOK
<1>6. ASSUME NEW p \in Procs, Ensure(p) PROVE TypeOK'
  <2>1. pc' \in [Procs -> Steps] /\ cmd' \in [Procs -> Commands \cup {"none"}]
    BY <1>6, Moving DEF Ensure, Steps
  <2> QED BY <1>6, <2>1 DEF Ensure, TypeOK, rowVars
<1>7. ASSUME NEW p \in Procs, MarkStale(p) PROVE TypeOK'
  BY <1>7, Moving, SettingStatus DEF MarkStale, TypeOK, Status
<1>8. ASSUME NEW p \in Procs, ReadPrevious(p) PROVE TypeOK'
  BY <1>8, Moving, Reading DEF ReadPrevious, TypeOK, rowVars, Steps
<1>9. ASSUME NEW p \in Procs, Mark(p) PROVE TypeOK'
  BY <1>9, Moving, SettingStatus DEF Mark, TypeOK, Status, Steps
<1>10. ASSUME NEW p \in Procs, Poll(p) PROVE TypeOK'
  <2>1. Goto(p, "plans") /\ \E o \in Outcomes : Gives(p, o)
    BY <1>10 DEF Poll, Outcomes
  <2> QED BY <1>10, <2>1, Moving, Giving DEF Poll, TypeOK, rowVars, Steps
<1>11. ASSUME NEW p \in Procs, Plans(p) PROVE TypeOK'
  <2>1. outcome' \in [Procs -> Outcomes] /\ found' \in BOOLEAN /\ covered' \in BOOLEAN
    BY <1>11 DEF Plans, TypeOK, Outcomes
  <2>2. SetStatus("MISMATCH") \/ UNCHANGED rowVars
    BY <1>11 DEF Plans
  <2>3. /\ status' \in Status \cup {NoRow}
        /\ assets' \in BOOLEAN /\ updated' \in Times /\ success' \in Times
    BY <2>2, SettingStatus DEF rowVars, TypeOK, Status
  <2>4. pc' \in [Procs -> Steps] /\ cmd' \in [Procs -> Commands \cup {"none"}]
    BY <1>11, Moving DEF Plans, Steps
  <2> QED BY <1>11, <2>1, <2>3, <2>4 DEF Plans, TypeOK
<1>12. ASSUME NEW p \in Procs, Current(p) PROVE TypeOK'
  <2>1. pc' \in [Procs -> Steps] /\ cmd' \in [Procs -> Commands \cup {"none"}]
    BY <1>12, Moving DEF Current, Steps
  <2> QED BY <1>12, <2>1 DEF Current, TypeOK, rowVars
<1>13. ASSUME NEW p \in Procs, Restore(p) PROVE TypeOK'
  <2>1. old[p].status \in Status \cup {NoRow}
    BY DEF TypeOK
  <2>2. \E s \in Status : SetStatus(s)
    BY <1>13, <2>1 DEF Restore, Status
  <2>3. covered' \in BOOLEAN
    BY <1>13 DEF Restore, TypeOK
  <2> QED BY <1>13, <2>2, <2>3, Moving, SettingStatus DEF Restore, TypeOK
<1>14. ASSUME NEW p \in Procs, Crash(p) PROVE TypeOK'
  <2>1. troubles' \in 0..MaxTroubles
    BY <1>14, SMT DEF Crash, Trouble, TypeOK
  <2> QED BY <1>14, <2>1, Moving DEF Crash, TypeOK, rowVars
<1>15. CASE Ageing
  BY <1>15 DEF Ageing, TypeOK, Times
<1>16. CASE PositionsMove
  BY <1>16 DEF PositionsMove, TypeOK, rowVars
<1>17. CASE UNCHANGED vars
  BY <1>17 DEF vars, rowVars, TypeOK
<1> QED
  BY <1>1, <1>2, <1>3, <1>4, <1>5, <1>6, <1>7, <1>8, <1>9, <1>10, <1>11, <1>12, <1>13,
     <1>14, <1>15, <1>16, <1>17 DEF Next, Step

LEMMA InitTyped == Init => TypeOK
<1> SUFFICES ASSUME Init PROVE TypeOK
  OBVIOUS
<1>1. troubles \in 0..MaxTroubles
  BY SMT DEF Init
<1>2. [status |-> NoRow, fresh |-> FALSE] \in [status : Status \cup {NoRow}, fresh : BOOLEAN]
  OBVIOUS
<1>3. old \in [Procs -> [status : Status \cup {NoRow}, fresh : BOOLEAN]]
  BY <1>2 DEF Init
<1> QED BY <1>1, <1>3 DEF Init, TypeOK, Times, Steps, Outcomes

\* The account row and what the commands hold of it keep their types, whether commands
\* overlap or not.
THEOREM TypeCorrect == Spec => []TypeOK
<1> QED BY InitTyped, Typed, PTL DEF Spec

-----------------------------------------------------------------------------
(* One command at a time.                                                  *)

\* At most one command is under way, and the row is as it left it.
OneCommand == \A p, q \in Procs : pc[p] # "idle" /\ pc[q] # "idle" => p = q

RowAsRead ==
    \A p \in Procs :
        /\ pc[p] \in {"write", "settle"} => old[p].status = status
        /\ pc[p] = "stale" => status = "SYNCED"
        /\ pc[p] \in {"poll", "plans", "restore"} => status = "RECONCILING"
        /\ pc[p] = "current" => status \in {"RECONCILING", "MISMATCH"}

\* A mismatch no reconciliation has written over is in the row.
MismatchStands == found /\ ~covered => status = "MISMATCH"

\* A reconciliation will not restore SYNCED over an earlier failure.
NoSyncedToRestore ==
    \A p \in Procs : pc[p] \in {"mark", "poll", "plans", "current", "restore"} /\ failing =>
        old[p].status # "SYNCED"

IInv ==
    /\ TypeOK /\ OneCommand /\ RowAsRead
    /\ MismatchStands /\ ReconcileFailsClosed /\ NoSyncedToRestore

\* After a step of the only command under way, the others are still idle.
LEMMA OthersIdle ==
    ASSUME IInv, NEW p \in Procs, pc[p] # "idle",
           \A q \in Procs \ {p} : pc'[q] = pc[q]
    PROVE  OneCommand' /\ \A q \in Procs \ {p} : pc[q] = "idle" /\ pc'[q] = "idle"
<1>1. \A q \in Procs \ {p} : pc[q] = "idle"
  BY DEF IInv, OneCommand
<1> QED BY <1>1 DEF OneCommand

\* Where a step that moves p lands.
LEMMA Landing ==
    ASSUME TypeOK, NEW p \in Procs
    PROVE  /\ \A step \in Steps : Goto(p, step) => pc'[p] = step
           /\ Leave(p) => pc'[p] = "idle"
           /\ \A step \in Steps : Goto(p, step) => \A q \in Procs \ {p} : pc'[q] = pc[q]
           /\ Leave(p) => \A q \in Procs \ {p} : pc'[q] = pc[q]
BY DEF Goto, Leave, TypeOK

LEMMA Initially == Init => IInv
<1> SUFFICES ASSUME Init PROVE IInv
  OBVIOUS
<1>1. TypeOK
  BY InitTyped
<1>2. \A p \in Procs : pc[p] = "idle"
  BY DEF Init
<1> QED
  BY <1>1, <1>2 DEF IInv, OneCommand, RowAsRead, MismatchStands, ReconcileFailsClosed,
     NoSyncedToRestore, Init

\* A step of p that keeps the row and what is known of mismatches and failures.
LEMMA RowKept ==
    ASSUME IInv, TypeOK', NEW p \in Procs, pc[p] # "idle",
           \A q \in Procs \ {p} : pc'[q] = pc[q],
           UNCHANGED <<status, found, covered, failing>>,
           pc'[p] \notin {"stale", "poll", "plans", "current", "restore"},
           pc'[p] \in {"write", "settle"} => old'[p].status = status,
           pc'[p] = "mark" => old'[p].status = status
    PROVE  IInv'
<1>1. OneCommand' /\ \A q \in Procs \ {p} : pc'[q] = "idle"
  BY OthersIdle
<1>2. RowAsRead'
  BY <1>1 DEF RowAsRead
<1>3. MismatchStands' /\ ReconcileFailsClosed'
  BY DEF IInv, MismatchStands, ReconcileFailsClosed
<1>4. NoSyncedToRestore'
  BY <1>1 DEF IInv, ReconcileFailsClosed, NoSyncedToRestore
<1> QED BY <1>1, <1>2, <1>3, <1>4 DEF IInv

LEMMA Keeps ==
    ASSUME ~Overlap, IInv, [Next]_vars PROVE IInv'
<1> USE DEF rowVars, ghostVars
<1>0. TypeOK /\ TypeOK'
  BY Typed DEF IInv
<1>1. ASSUME NEW p \in Procs, NEW c \in Commands, Start(p, c) PROVE IInv'
  <2>1. \A q \in Procs : pc[q] = "idle"
    BY <1>1 DEF Start
  <2>2. \A q \in Procs : pc'[q] = IF q = p THEN First(c) ELSE "idle"
    BY <1>0, <1>1, <2>1 DEF Start, TypeOK
  <2>3. First(c) \in {"fetch", "compare", "ensure", "previous"}
    BY DEF First
  <2>4. OneCommand' /\ RowAsRead' /\ NoSyncedToRestore'
    BY <2>2, <2>3 DEF OneCommand, RowAsRead, NoSyncedToRestore
  <2>5. MismatchStands' /\ ReconcileFailsClosed'
    BY <1>1 DEF Start, IInv, MismatchStands, ReconcileFailsClosed
  <2> QED BY <1>0, <2>4, <2>5 DEF IInv
<1>2. ASSUME NEW p \in Procs, Fetch(p) PROVE IInv'
  <2>1. pc[p] # "idle" /\ Goto(p, "write") /\ ReadRow(p)
    BY <1>2 DEF Fetch
  <2>2. pc'[p] = "write" /\ old'[p].status = status /\ \A q \in Procs \ {p} : pc'[q] = pc[q]
    BY <1>0, <2>1, Landing, Reading DEF Steps
  <2> QED BY <1>0, <1>2, <2>1, <2>2, RowKept DEF Fetch
<1>3. ASSUME NEW p \in Procs, Write(p) PROVE IInv'
  <2>1. pc[p] = "write" /\ old[p].status = status /\ Goto(p, "compare")
    BY <1>3 DEF Write, IInv, RowAsRead
  <2>2. pc'[p] = "compare" /\ \A q \in Procs \ {p} : pc'[q] = pc[q]
    BY <1>0, <2>1, Landing DEF Steps
  <2>3. OneCommand' /\ \A q \in Procs \ {p} : pc'[q] = "idle"
    BY <2>1, <2>2, OthersIdle
  <2>4. status = "MISMATCH" => status' = "MISMATCH"
    BY <1>0, <1>3, <2>1, DegradedStatus DEF Write, UpsertAccount, SetStatus, TypeOK
  <2>5. ~failing' /\ UNCHANGED <<found, covered>>
    BY <1>3 DEF Write
  <2>6. RowAsRead' /\ NoSyncedToRestore'
    BY <2>2, <2>3 DEF RowAsRead, NoSyncedToRestore
  <2> QED
    BY <1>0, <2>3, <2>4, <2>5, <2>6 DEF IInv, MismatchStands, ReconcileFailsClosed
<1>4. ASSUME NEW p \in Procs, Compare(p) PROVE IInv'
  <2>1. pc[p] # "idle" /\ Goto(p, "settle") /\ ReadRow(p)
    BY <1>4 DEF Compare
  <2>2. pc'[p] = "settle" /\ old'[p].status = status /\ \A q \in Procs \ {p} : pc'[q] = pc[q]
    BY <1>0, <2>1, Landing, Reading DEF Steps
  <2> QED BY <1>0, <1>4, <2>1, <2>2, RowKept DEF Compare
<1>5. ASSUME NEW p \in Procs, Settle(p) PROVE IInv'
  <2>1. /\ pc[p] = "settle" /\ old[p].status = status
        /\ Goto(p, "ensure") \/ Leave(p)
    BY <1>5 DEF Settle, AfterPositions, IInv, RowAsRead
  <2>2. pc'[p] \in {"ensure", "idle"} /\ \A q \in Procs \ {p} : pc'[q] = pc[q]
    BY <1>0, <2>1, Landing DEF Steps
  <2>3. OneCommand' /\ \A q \in Procs \ {p} : pc'[q] = "idle"
    BY <2>1, <2>2, OthersIdle
  <2>4. RowAsRead' /\ NoSyncedToRestore'
    BY <2>2, <2>3 DEF RowAsRead, NoSyncedToRestore
  <2>5. outcome[p] \in Outcomes /\ status \in Status \cup {NoRow}
    BY <1>0 DEF TypeOK
  <2>6. MismatchStands'
    BY <1>0, <1>5, <2>1, <2>5, Settling, DegradedStatus DEF Outcomes, IInv, MismatchStands
  <2>7. failing' => failing /\ status' = status
    BY <1>5 DEF Settle
  <2>8. ReconcileFailsClosed'
    BY <2>7 DEF IInv, ReconcileFailsClosed
  <2> QED BY <1>0, <2>3, <2>4, <2>6, <2>8 DEF IInv
<1>6. ASSUME NEW p \in Procs, Ensure(p) PROVE IInv'
  <2>1. /\ pc[p] = "ensure" /\ UNCHANGED <<status, found, covered, failing>>
        /\ Leave(p) \/ (Goto(p, "stale") /\ status = "SYNCED")
    BY <1>6 DEF Ensure
  <2>2. /\ pc'[p] = "idle" \/ (pc'[p] = "stale" /\ status = "SYNCED")
        /\ \A q \in Procs \ {p} : pc'[q] = pc[q]
    BY <1>0, <2>1, Landing DEF Steps
  <2>3. OneCommand' /\ \A q \in Procs \ {p} : pc'[q] = "idle"
    BY <2>1, <2>2, OthersIdle
  <2>4. RowAsRead' /\ NoSyncedToRestore'
    BY <2>1, <2>2, <2>3 DEF RowAsRead, NoSyncedToRestore
  <2> QED
    BY <1>0, <2>1, <2>3, <2>4 DEF IInv, MismatchStands, ReconcileFailsClosed
<1>7. ASSUME NEW p \in Procs, MarkStale(p) PROVE IInv'
  <2>1. /\ pc[p] = "stale" /\ status = "SYNCED" /\ status' = "STALE" /\ Leave(p)
        /\ UNCHANGED <<found, covered, failing>>
    BY <1>7 DEF MarkStale, SetStatus, IInv, RowAsRead
  <2>2. pc'[p] = "idle" /\ \A q \in Procs \ {p} : pc'[q] = pc[q]
    BY <1>0, <2>1, Landing DEF Steps
  <2>3. OneCommand' /\ \A q \in Procs \ {p} : pc'[q] = "idle"
    BY <2>1, <2>2, OthersIdle
  <2>4. RowAsRead' /\ NoSyncedToRestore'
    BY <2>2, <2>3 DEF RowAsRead, NoSyncedToRestore
  <2> QED
    BY <1>0, <2>1, <2>3, <2>4 DEF IInv, MismatchStands, ReconcileFailsClosed
<1>8. ASSUME NEW p \in Procs, ReadPrevious(p) PROVE IInv'
  <2>1. pc[p] # "idle" /\ Goto(p, "mark") /\ ReadRow(p)
    BY <1>8 DEF ReadPrevious
  <2>2. pc'[p] = "mark" /\ old'[p].status = status /\ \A q \in Procs \ {p} : pc'[q] = pc[q]
    BY <1>0, <2>1, Landing, Reading DEF Steps
  <2> QED BY <1>0, <1>8, <2>1, <2>2, RowKept DEF ReadPrevious
<1>9. ASSUME NEW p \in Procs, Mark(p) PROVE IInv'
  <2>1. /\ pc[p] = "mark" /\ status' = "RECONCILING" /\ Goto(p, "poll")
        /\ covered' = found /\ UNCHANGED <<found, failing, old>>
    BY <1>9 DEF Mark, SetStatus
  <2>2. pc'[p] = "poll" /\ \A q \in Procs \ {p} : pc'[q] = pc[q]
    BY <1>0, <2>1, Landing DEF Steps
  <2>3. OneCommand' /\ \A q \in Procs \ {p} : pc'[q] = "idle"
    BY <2>1, <2>2, OthersIdle
  <2>4. RowAsRead' /\ NoSyncedToRestore'
    BY <2>1, <2>2, <2>3 DEF IInv, RowAsRead, NoSyncedToRestore
  <2> QED
    BY <1>0, <2>1, <2>3, <2>4 DEF IInv, MismatchStands, ReconcileFailsClosed
<1>10. ASSUME NEW p \in Procs, Poll(p) PROVE IInv'
  <2>1. /\ pc[p] = "poll" /\ Goto(p, "plans")
        /\ UNCHANGED <<status, found, covered, failing, old>>
    BY <1>10 DEF Poll
  <2>2. pc'[p] = "plans" /\ \A q \in Procs \ {p} : pc'[q] = pc[q]
    BY <1>0, <2>1, Landing DEF Steps
  <2>3. OneCommand' /\ \A q \in Procs \ {p} : pc'[q] = "idle"
    BY <2>1, <2>2, OthersIdle
  <2>4. RowAsRead' /\ NoSyncedToRestore'
    BY <2>1, <2>2, <2>3 DEF IInv, RowAsRead, NoSyncedToRestore
  <2> QED
    BY <1>0, <2>1, <2>3, <2>4 DEF IInv, MismatchStands, ReconcileFailsClosed
<1>11. ASSUME NEW p \in Procs, Plans(p) PROVE IInv'
  <2>1. /\ pc[p] = "plans" /\ Goto(p, "current") /\ UNCHANGED <<failing, old>>
        /\ \/ status' = "MISMATCH" /\ found' = TRUE /\ covered' = FALSE
           \/ UNCHANGED <<status, found, covered>>
    BY <1>11 DEF Plans, SetStatus
  <2>2. pc'[p] = "current" /\ \A q \in Procs \ {p} : pc'[q] = pc[q]
    BY <1>0, <2>1, Landing DEF Steps
  <2>3. OneCommand' /\ \A q \in Procs \ {p} : pc'[q] = "idle"
    BY <2>1, <2>2, OthersIdle
  <2>4. RowAsRead' /\ NoSyncedToRestore'
    BY <2>1, <2>2, <2>3 DEF IInv, RowAsRead, NoSyncedToRestore
  <2> QED
    BY <1>0, <2>1, <2>3, <2>4 DEF IInv, MismatchStands, ReconcileFailsClosed
<1>12. ASSUME NEW p \in Procs, Current(p) PROVE IInv'
  <2>1. /\ pc[p] = "current" /\ status \in {"RECONCILING", "MISMATCH"}
        /\ UNCHANGED <<status, found, covered, old>>
        /\ Leave(p) \/ (Goto(p, "restore") /\ status = "RECONCILING" /\ failing' = failing)
    BY <1>0, <1>12 DEF Current, Passed, IInv, RowAsRead, TypeOK
  <2>2. /\ \/ pc'[p] = "idle"
           \/ pc'[p] = "restore" /\ status = "RECONCILING" /\ failing' = failing
        /\ \A q \in Procs \ {p} : pc'[q] = pc[q]
    BY <1>0, <2>1, Landing DEF Steps
  <2>3. OneCommand' /\ \A q \in Procs \ {p} : pc'[q] = "idle"
    BY <2>1, <2>2, OthersIdle
  <2>4. RowAsRead' /\ NoSyncedToRestore'
    BY <2>1, <2>2, <2>3 DEF IInv, RowAsRead, NoSyncedToRestore
  <2> QED
    BY <1>0, <2>1, <2>3, <2>4 DEF IInv, MismatchStands, ReconcileFailsClosed
<1>13. ASSUME NEW p \in Procs, Restore(p) PROVE IInv'
  <2>1. /\ pc[p] = "restore" /\ status = "RECONCILING" /\ Leave(p)
        /\ status' = IF old[p].status = NoRow THEN "UNKNOWN" ELSE old[p].status
        /\ covered' = (covered /\ old[p].status # "MISMATCH")
        /\ UNCHANGED <<found, failing>>
    BY <1>13 DEF Restore, SetStatus, IInv, RowAsRead
  <2>2. pc'[p] = "idle" /\ \A q \in Procs \ {p} : pc'[q] = pc[q]
    BY <1>0, <2>1, Landing DEF Steps
  <2>3. OneCommand' /\ \A q \in Procs \ {p} : pc'[q] = "idle"
    BY <2>1, <2>2, OthersIdle
  <2>4. RowAsRead' /\ NoSyncedToRestore'
    BY <2>2, <2>3 DEF RowAsRead, NoSyncedToRestore
  <2>5. MismatchStands'
    BY <2>1 DEF IInv, MismatchStands, NoRow
  <2>6. ReconcileFailsClosed'
    BY <2>1 DEF IInv, NoSyncedToRestore, ReconcileFailsClosed
  <2> QED BY <1>0, <2>3, <2>4, <2>5, <2>6 DEF IInv
<1>14. ASSUME NEW p \in Procs, Crash(p) PROVE IInv'
  <2>1. /\ pc[p] # "idle" /\ Leave(p) /\ UNCHANGED <<status, found, covered>>
        /\ failing' = (failing \/ pc[p] \in Unsettled)
    BY <1>14 DEF Crash
  <2>2. pc'[p] = "idle" /\ \A q \in Procs \ {p} : pc'[q] = pc[q]
    BY <1>0, <2>1, Landing DEF Steps
  <2>3. OneCommand' /\ \A q \in Procs \ {p} : pc'[q] = "idle"
    BY <2>1, <2>2, OthersIdle
  <2>4. RowAsRead' /\ NoSyncedToRestore'
    BY <2>2, <2>3 DEF RowAsRead, NoSyncedToRestore
  <2>5. pc[p] \in Unsettled => status \in {"RECONCILING", "MISMATCH"}
    BY DEF IInv, RowAsRead, Unsettled
  <2> QED
    BY <1>0, <2>1, <2>3, <2>4, <2>5 DEF IInv, MismatchStands, ReconcileFailsClosed
<1>15. CASE Ageing \/ PositionsMove \/ UNCHANGED vars
  <2>1. UNCHANGED <<status, found, covered, failing, pc, old>>
    BY <1>15 DEF Ageing, PositionsMove, vars
  <2> QED
    BY <1>0, <2>1 DEF IInv, OneCommand, RowAsRead, MismatchStands, ReconcileFailsClosed,
       NoSyncedToRestore
<1> QED
  BY <1>1, <1>2, <1>3, <1>4, <1>5, <1>6, <1>7, <1>8, <1>9, <1>10, <1>11, <1>12, <1>13,
     <1>14, <1>15 DEF Next, Step

\* While commands do not overlap, a mismatch that no reconciliation wrote over stands
\* until a comparison succeeds, whatever fails and whoever dies (account.py:412). One that a
\* reconciliation wrote over and did not put back may be lost to the next sync.
THEOREM MismatchIsKept == ASSUME ~Overlap PROVE Spec => []MismatchKept
<1>1. IInv /\ [Next]_vars => IInv'
  BY Keeps
<1>2. IInv => MismatchKept
  BY DEF IInv, MismatchStands, MismatchKept
<1> QED BY Initially, <1>1, <1>2, PTL DEF Spec

\* While commands do not overlap, an account whose reconciliation found a mismatch, got no
\* answer or died is not SYNCED before a sync has looked again (operations.py:95).
THEOREM FailureBlocks == ASSUME ~Overlap PROVE Spec => []ReconcileFailsClosed
<1>1. IInv /\ [Next]_vars => IInv'
  BY Keeps
<1>2. IInv => ReconcileFailsClosed
  BY DEF IInv
<1> QED BY Initially, <1>1, <1>2, PTL DEF Spec

-----------------------------------------------------------------------------
(* The daily bars.                                                         *)

\* Days without a hole between them.
Convex(S) == \A a, b \in S : \A c \in Days : a <= c /\ c <= b => c \in S

\* What a manifest that was set says of the bars: enough of them, all of them stored,
\* the last one it names among them.
Promised(m) ==
    /\ m.count >= MinBars /\ m.count = Cardinality(Dates(m.content))
    /\ Dates(m.content) \subseteq Dates(bars)
    /\ m.last \in Dates(m.content)

\* What a sync fetched: the last bars up to the day it did, which is today or the day
\* before.
Fetched(r) ==
    /\ \E f \in r.since..day :
          Dates(r.rows) = {d \in Days : d <= f /\ d > f - (IF Complete(r.read) THEN Window ELSE Full)}
    /\ ~Complete(r.read) => Cardinality(Dates(r.rows)) >= MinBars

SyncerInv(p) ==
    LET r == proc[p]
    IN  /\ r.step # "idle" => r.since \in (day - 1)..day /\ p \in workers
        /\ r.read # NoManifest => Promised(r.read)
        /\ r.step \in {"calendar", "store"} => Fetched(r)
        /\ r.step = "count" => Cardinality(Dates(bars)) >= MinBars /\ r.last \in Dates(bars)
        /\ r.step = "manifest" =>
              /\ Dates(r.rows) \subseteq Dates(bars) /\ Cardinality(Dates(r.rows)) >= MinBars
              /\ r.last \in Dates(r.rows)

WholeInv ==
    ~late => /\ Convex(Dates(bars))
             /\ Dates(bars) # {} => \E d \in Dates(bars) : day - d <= Window

StoredInv ==
    /\ Dates(bars) \subseteq 1..day
    /\ manifest # NoManifest => Promised(manifest)
    /\ \A p \in Syncers : SyncerInv(p)
    /\ WholeInv

\* No bar of t is later than x.
UpTo(t, x) == \A d \in Dates(t) : d <= x

\* One sync at a time: the content hashed is the content stored, up to the day the
\* manifest names, and a sync finds no bar later than the day it began.
AloneInv ==
    Alone => /\ \A d \in Dates(manifest.content) : manifest.content[d] = bars[d]
             /\ UpTo(manifest.content, manifest.last)
             /\ \A p \in Syncers :
                   /\ proc[p].step # "idle" => proc[p].read = manifest
                   /\ proc[p].step \in {"fetch", "calendar", "store"} => UpTo(bars, proc[p].since)
                   /\ proc[p].step = "count" => UpTo(bars, proc[p].last)
                   /\ proc[p].step = "manifest" =>
                         /\ \A d \in Dates(proc[p].rows) : proc[p].rows[d] = bars[d]
                         /\ UpTo(proc[p].rows, proc[p].last)

Manifest == [last : 0..MaxDay, count : 0..MaxDay, content : Table]
Syncer == [step : {"idle", "fetch", "calendar", "store", "count", "manifest"},
           since : 0..MaxDay, read : Manifest, rows : Table, last : 0..MaxDay]

LEMMA Bounds ==
    /\ Full \in Nat /\ Window \in Nat /\ MinBars \in Nat /\ Window >= 1 /\ MinBars >= 1
    /\ Window <= Full /\ Quota \in Nat /\ FirstDay \in Nat /\ FirstDay >= 1
    /\ MaxDay \in Nat /\ FirstDay <= MaxDay /\ MaxSplits \in Nat /\ MaxCrashes \in Nat
BY DataSyncAssumption

LEMMA DaysCount ==
    ASSUME NEW S \in SUBSET Days
    PROVE  /\ IsFiniteSet(S) /\ Cardinality(S) \in 0..MaxDay
           /\ Cardinality(S) >= 1 => S # {}
<1>1. IsFiniteSet(Days) /\ Cardinality(Days) = MaxDay
  BY Bounds, FS_Interval DEF Days
<1>2. IsFiniteSet(S) /\ Cardinality(S) <= Cardinality(Days) /\ Cardinality(S) \in Nat
  BY <1>1, FS_Subset, FS_CardinalityType
<1> QED
  BY <1>1, <1>2, Bounds, FS_EmptySet

LEMMA MoreDays ==
    ASSUME NEW T \in SUBSET Days, NEW S \in SUBSET T
    PROVE  /\ Cardinality(S) <= Cardinality(T)
           /\ Cardinality(S) = Cardinality(T) => S = T
BY DaysCount, FS_Subset

\* Among any natural numbers there is a least one, among any days a last one.
LEMMA NatMin == ASSUME NEW T, T \subseteq Nat, T # {} PROVE \E x \in T : \A y \in T : x <= y
<1> DEFINE Less == OpToRel(<, Nat)
<1>1. IsWellFoundedOn(Less, Nat)
  BY NatLessThanWellFounded
<1>2. \A a, b \in Nat : a < b => <<a, b>> \in Less
  BY DEF OpToRel
<1> HIDE DEF Less
<1>3. PICK x \in T : \A y \in T : ~(<<y, x>> \in Less)
  BY <1>1, WFMin, Zenon
<1>4. ASSUME NEW y \in T PROVE x <= y
  <2>1. x \in Nat /\ y \in Nat
    OBVIOUS
  <2>2. ~(y < x)
    BY <1>2, <1>3, <2>1
  <2> QED
    BY <2>1, <2>2
<1> QED
  BY <1>4

LEMMA LastDay ==
    ASSUME NEW S \in SUBSET Days, S # {}
    PROVE  \E d \in S : \A e \in S : e <= d
<1> DEFINE T == {MaxDay - d : d \in S}
<1>1. \A d \in S : d \in Nat /\ MaxDay - d \in Nat
  BY Bounds DEF Days
<1>2. T \subseteq Nat /\ T # {}
  BY <1>1
<1>3. PICK x \in T : \A y \in T : x <= y
  BY <1>2, NatMin
<1>4. PICK d \in S : x = MaxDay - d
  BY <1>3
<1>5. \A e \in S : MaxDay - d <= MaxDay - e
  BY <1>3, <1>4
<1> QED
  BY <1>1, <1>5, Bounds

LEMMA LastIsLast ==
    ASSUME NEW t, Dates(t) # {}
    PROVE  /\ Last(t) \in Dates(t) /\ Last(t) \in Days
           /\ \A e \in Dates(t) : e <= Last(t)
<1>1. Dates(t) \in SUBSET Days
  BY DEF Dates
<1>2. \E d \in Dates(t) : \A e \in Dates(t) : e <= d
  BY <1>1, LastDay
<1> QED
  BY <1>1, <1>2 DEF Last

\* The provider gives the newest bars, up to today.
LEMMA CandleDates ==
    ASSUME SyncTypeOK, NEW n \in Nat
    PROVE  /\ Candlesticks(n) \in Table
           /\ Dates(Candlesticks(n)) = {d \in Days : d <= day /\ d > day - n}
<1>1. day \in Nat /\ basis \in 0..MaxSplits /\ basis # -1 /\ inSession \in BOOLEAN
  BY Bounds DEF SyncTypeOK, Days
<1> DEFINE bar(d) == [finished |-> (d < day \/ ~inSession), basis |-> basis]
<1>2. \A d \in Days : bar(d) \in Row /\ bar(d) # NoBar
  <2>1. \A d \in Days : bar(d).basis = basis /\ NoBar.basis = -1
    BY DEF NoBar
  <2>2. \A d \in Days : bar(d) \in Row
    BY <1>1 DEF Row
  <2> QED
    BY <1>1, <2>1, <2>2
<1>3. \A d \in Days : Candlesticks(n)[d] = IF d \in (day - n + 1)..day THEN bar(d) ELSE NoBar
  BY DEF Candlesticks
<1>4. Candlesticks(n) = [d \in Days |-> Candlesticks(n)[d]]
  BY DEF Candlesticks
<1> HIDE DEF bar
<1>5. Candlesticks(n) \in Table
  BY <1>2, <1>3, <1>4 DEF Table
<1>6. \A d \in Days : d \in (day - n + 1)..day <=> d <= day /\ d > day - n
  BY <1>1 DEF Days
<1>7. \A d \in Days : Candlesticks(n)[d] # NoBar <=> d <= day /\ d > day - n
  BY <1>2, <1>3, <1>6
<1> QED
  BY <1>5, <1>7 DEF Dates

LEMMA EmptyBars ==
    /\ Empty \in Table /\ Dates(Empty) = {} /\ NoManifest \in Manifest /\ Idle \in Syncer
    /\ Idle.step = "idle" /\ Idle.read = NoManifest /\ Idle.rows = Empty
<1>1. Empty \in Table /\ Dates(Empty) = {}
  BY DEF Empty, Table, Dates
<1>2. NoManifest \in Manifest
  BY <1>1, Bounds DEF NoManifest, Manifest
<1> QED
  BY <1>1, <1>2, Bounds DEF Idle, Syncer

LEMMA Typing == SyncTypeOK => proc \in [Syncers -> Syncer] /\ manifest \in Manifest
BY DEF SyncTypeOK, Syncer, Manifest

LEMMA Moves ==
    ASSUME SyncTypeOK, NEW p \in Syncers, NEW r \in Syncer, proc' = [proc EXCEPT ![p] = r]
    PROVE  proc' \in [Syncers -> Syncer] /\ proc'[p] = r /\ \A q \in Syncers \ {p} : proc'[q] = proc[q]
BY Typing

LEMMA Reserving ==
    ASSUME SyncTypeOK, NEW k \in Kinds, Reserve(k)
    PROVE  used' \in [Kinds -> 0..Quota]
<1>1. used \in [Kinds -> 0..Quota] /\ Quota \in Nat
  BY Bounds DEF SyncTypeOK
<1>2. used[k] \in 0..Quota /\ used[k] < Quota /\ used' = [used EXCEPT ![k] = used[k] + 1]
  BY <1>1 DEF Reserve
<1>3. used[k] + 1 \in 0..Quota
  BY <1>1, <1>2
<1> QED
  BY <1>1, <1>2, <1>3

\* A write keeps the bars a bar each, and takes none away.
LEMMA Storing ==
    ASSUME SyncTypeOK, NEW p \in Syncers, Store(p)
    PROVE  /\ bars' \in Table
           /\ Dates(bars') = Dates(bars) \cup New(proc[p].read, proc[p].rows)
           /\ \A d \in Days : d \notin New(proc[p].read, proc[p].rows) => bars'[d] = bars[d]
           /\ \A d \in New(proc[p].read, proc[p].rows) : bars'[d] = proc[p].rows[d]
<1> DEFINE new == New(proc[p].read, proc[p].rows)
<1>1. bars' = [d \in Days |-> IF d \in new THEN proc[p].rows[d] ELSE bars[d]]
  BY DEF Store
<1>2. proc[p].rows \in Table /\ bars \in Table
  BY Typing DEF Syncer, SyncTypeOK
<1>3. \A d \in new : d \in Days /\ proc[p].rows[d] # NoBar
  BY DEF New, Dates
<1> HIDE DEF new
<1>4. \A d \in Days : d \notin new => bars'[d] = bars[d]
  BY <1>1
<1>5. \A d \in new : bars'[d] = proc[p].rows[d]
  BY <1>1, <1>3
<1>6. bars' \in Table
  BY <1>1, <1>2 DEF Table
<1>7. Dates(bars') = Dates(bars) \cup new
  BY <1>3, <1>4, <1>5 DEF Dates
<1> QED
  BY <1>4, <1>5, <1>6, <1>7 DEF new

\* A sync that stores something remembers the last of what it fetched.
LEMMA StoredLast ==
    ASSUME SyncTypeOK, NEW p \in Syncers, Store(p), proc' # [proc EXCEPT ![p] = Idle]
    PROVE  /\ Last(proc[p].rows) \in Dates(proc[p].rows)
           /\ UpTo(proc[p].rows, Last(proc[p].rows))
           /\ Last(proc[p].rows) \in 0..MaxDay
           /\ Last(proc[p].rows) \in New(proc[p].read, proc[p].rows)
<1>1. New(proc[p].read, proc[p].rows) # {}
  BY DEF Store
<1>2. PICK d \in Dates(proc[p].rows) : Complete(proc[p].read) => d > proc[p].read.last
  BY <1>1 DEF New
<1>3. /\ Last(proc[p].rows) \in Dates(proc[p].rows) /\ Last(proc[p].rows) \in Days
      /\ UpTo(proc[p].rows, Last(proc[p].rows))
  BY <1>2, LastIsLast DEF UpTo
<1>4. /\ Last(proc[p].rows) \in 0..MaxDay /\ d \in 0..MaxDay /\ proc[p].read.last \in 0..MaxDay
  BY <1>2, <1>3, Typing, Bounds DEF Days, Dates, Syncer, Manifest
<1>5. d =< Last(proc[p].rows)
  BY <1>2, <1>3 DEF UpTo
<1>6. Complete(proc[p].read) => Last(proc[p].rows) > proc[p].read.last
  BY <1>2, <1>4, <1>5, Bounds
<1> QED
  BY <1>3, <1>4, <1>6 DEF New

LEMMA BarsTypeStep == SyncTypeOK /\ StoredInv /\ [SyncNext]_syncVars => SyncTypeOK'
<1> SUFFICES ASSUME SyncTypeOK, StoredInv, [SyncNext]_syncVars PROVE SyncTypeOK'
  OBVIOUS
<1> USE Bounds
<1>1. CASE SessionEnds
  BY <1>1 DEF SessionEnds, SyncTypeOK, store
<1>2. CASE SessionBegins
  <2>1. day' \in Days
    BY <1>2 DEF SessionBegins, SyncTypeOK, Days
  <2>2. used' \in [Kinds -> 0..Quota]
    BY <1>2 DEF SessionBegins
  <2>3. late' \in BOOLEAN
    BY <1>2 DEF SessionBegins, SyncTypeOK
  <2> QED
    BY <1>2, <2>1, <2>2, <2>3 DEF SessionBegins, SyncTypeOK, store
<1>3. CASE Split
  BY <1>3 DEF Split, SyncTypeOK, store
<1> USE DEF market, store
<1> DEFINE rec(p) == proc[p]
<1>4. ASSUME NEW p \in Syncers, Begin(p) PROVE SyncTypeOK'
  <2> DEFINE r == [Idle EXCEPT !.step = "fetch", !.since = day, !.read = manifest]
  <2>0. day \in 0..MaxDay /\ manifest \in Manifest
    BY Typing DEF SyncTypeOK, Days
  <2>1. r \in Syncer
    BY <2>0, EmptyBars DEF Syncer, Idle
  <2>2. proc' = [proc EXCEPT ![p] = r]
    BY <1>4 DEF Begin
  <2> HIDE DEF r
  <2>3. proc' \in [Syncers -> Syncer]
    BY <2>1, <2>2, Moves
  <2>4. used' \in [Kinds -> 0..Quota]
    BY <1>4, Reserving DEF Begin, Kinds
  <2> QED
    BY <1>4, <2>3, <2>4 DEF Begin, SyncTypeOK, Syncer, Manifest
<1>5. ASSUME NEW p \in Syncers, FetchBars(p) PROVE SyncTypeOK'
  <2> DEFINE n == IF Complete(proc[p].read) THEN Window ELSE Full
             r == [proc[p] EXCEPT !.step = "calendar", !.rows = Candlesticks(n)]
  <2>1. n \in Nat /\ Candlesticks(n) \in Table
    BY CandleDates
  <2>2. r \in Syncer /\ Idle \in Syncer
    BY <2>1, Typing, EmptyBars DEF Syncer
  <2>3. proc' = [proc EXCEPT ![p] = r] \/ proc' = [proc EXCEPT ![p] = Idle]
    BY <1>5 DEF FetchBars
  <2> HIDE DEF r
  <2>4. proc' \in [Syncers -> Syncer]
    BY <2>2, <2>3, Moves
  <2> QED
    BY <1>5, <2>4 DEF FetchBars, SyncTypeOK, Syncer, Manifest
<1>6. ASSUME NEW p \in Syncers, SyncCalendar(p) PROVE SyncTypeOK'
  <2>1. proc' \in [Syncers -> Syncer]
    BY <1>6, Typing DEF SyncCalendar, Syncer
  <2>2. used' \in [Kinds -> 0..Quota]
    BY <1>6, Reserving DEF SyncCalendar, Kinds
  <2>3. calendar' \in 0..MaxDay
    BY <1>6 DEF SyncCalendar, SyncTypeOK, Days
  <2> QED
    BY <1>6, <2>1, <2>2, <2>3 DEF SyncCalendar, SyncTypeOK, Syncer, Manifest
<1>7. ASSUME NEW p \in Syncers, CalendarRefused(p) PROVE SyncTypeOK'
  <2>1. proc' \in [Syncers -> Syncer]
    BY <1>7, Moves, EmptyBars DEF CalendarRefused
  <2> QED
    BY <1>7, <2>1 DEF CalendarRefused, SyncTypeOK, Syncer, Manifest
<1>8. ASSUME NEW p \in Syncers, Store(p) PROVE SyncTypeOK'
  <2>1. ASSUME proc' = [proc EXCEPT ![p] = Idle] PROVE proc' \in [Syncers -> Syncer]
    BY <2>1, Moves, EmptyBars
  <2>2. ASSUME proc' # [proc EXCEPT ![p] = Idle] PROVE proc' \in [Syncers -> Syncer]
    <3> DEFINE last == Last(proc[p].rows)
               r1 == [proc[p] EXCEPT !.step = "count", !.rows = Empty, !.last = last]
               r2 == [proc[p] EXCEPT !.step = "manifest", !.last = last]
    <3>1. \/ proc' = [proc EXCEPT ![p] = r1] \/ proc' = [proc EXCEPT ![p] = r2]
      BY <1>8, <2>2 DEF Store
    <3>2. last \in Dates(proc[p].rows) /\ last \in 0..MaxDay
      BY <1>8, <2>2, StoredLast
    <3>3. r1 \in Syncer /\ r2 \in Syncer
      BY <3>2, Typing, EmptyBars DEF Syncer
    <3> HIDE DEF r1, r2
    <3> QED
      BY <3>1, <3>3, Moves
  <2>3. proc' \in [Syncers -> Syncer]
    BY <2>1, <2>2
  <2>4. bars' \in Table
    BY <1>8, Storing
  <2> QED
    BY <1>8, <2>3, <2>4 DEF Store, SyncTypeOK, Syncer, Manifest
<1>9. ASSUME NEW p \in Syncers, Count(p) PROVE SyncTypeOK'
  <2> DEFINE r == [proc[p] EXCEPT !.step = "manifest", !.rows = bars]
  <2>1. proc' = [proc EXCEPT ![p] = r] /\ bars \in Table
    BY <1>9 DEF Count, SyncTypeOK
  <2>2. r \in Syncer
    BY <2>1, Typing DEF Syncer
  <2> HIDE DEF r
  <2>3. proc' \in [Syncers -> Syncer]
    BY <2>1, <2>2, Moves
  <2> QED
    BY <1>9, <2>3 DEF Count, SyncTypeOK, Syncer, Manifest
<1>10. ASSUME NEW p \in Syncers, SetManifest(p) PROVE SyncTypeOK'
  <2> DEFINE rows == proc[p].rows
  <2>1. rows \in Table /\ Dates(rows) \in SUBSET Days
    BY Typing DEF Syncer, Dates
  <2>2. Cardinality(Dates(rows)) >= MinBars
    BY <1>10 DEF SetManifest, StoredInv, SyncerInv
  <2>3. Cardinality(Dates(rows)) \in 0..MaxDay /\ Dates(rows) # {}
    BY <2>1, <2>2, DaysCount
  <2>4. proc[p].last \in 0..MaxDay
    BY Typing DEF Syncer
  <2>5. manifest' = [last |-> proc[p].last, count |-> Cardinality(Dates(rows)), content |-> rows]
    BY <1>10 DEF SetManifest
  <2> HIDE DEF rows
  <2>6. manifest' \in Manifest
    BY <2>1, <2>3, <2>4, <2>5 DEF Manifest
  <2>7. proc' \in [Syncers -> Syncer]
    BY <1>10, Moves, EmptyBars DEF SetManifest
  <2> QED
    BY <1>10, <2>6, <2>7 DEF SetManifest, SyncTypeOK, Syncer, Manifest
<1>11. ASSUME NEW p \in Syncers, Dies(p) PROVE SyncTypeOK'
  <2>1. proc' \in [Syncers -> Syncer]
    BY <1>11, Moves, EmptyBars DEF Dies
  <2>2. crashes' \in 0..MaxCrashes
    BY <1>11 DEF Dies, SyncTypeOK
  <2> QED
    BY <1>11, <2>1, <2>2 DEF Dies, SyncTypeOK, Syncer, Manifest
<1>12. CASE UNCHANGED syncVars
  BY <1>12 DEF syncVars, SyncTypeOK
<1> QED
  BY <1>1, <1>2, <1>3, <1>4, <1>5, <1>6, <1>7, <1>8, <1>9, <1>10, <1>11, <1>12 DEF SyncNext

\* A bar is never taken away, so what was promised stays so.
LEMMA PromiseKept ==
    ASSUME NEW m, Promised(m), Dates(bars) \subseteq Dates(bars') PROVE Promised(m)'
BY DEF Promised

\* A process that does not step keeps its invariant while the day goes on; only one that is
\* in the middle of a sync must not see a second night.
LEMMA OtherSyncer ==
    ASSUME SyncTypeOK, NEW q \in Syncers, SyncerInv(q), proc'[q] = proc[q], workers' = workers,
           Dates(bars) \subseteq Dates(bars'),
           day' = day \/ (day' = day + 1 /\ (proc[q] = Idle \/ proc[q].since = day))
    PROVE  SyncerInv(q)'
<1> DEFINE r == proc[q]
<1>1. day \in Nat /\ r.since \in Nat /\ r = proc'[q]
  BY Typing, Bounds DEF SyncTypeOK, Days, Syncer
<1>2. r.step # "idle" => r.since \in (day' - 1)..day' /\ q \in workers'
  BY <1>1, EmptyBars DEF SyncerInv
<1>3. r.read # NoManifest => Promised(r.read)'
  BY PromiseKept DEF SyncerInv
<1>4. r.step \in {"calendar", "store"} => Fetched(r)'
  <2>1. \A f \in r.since..day : f \in r.since..day'
    BY <1>1
  <2> QED
    BY <2>1 DEF SyncerInv, Fetched
<1>5. Cardinality(Dates(bars)) <= Cardinality(Dates(bars'))
  BY MoreDays DEF Dates
<1>6. Cardinality(Dates(bars)) \in Nat /\ Cardinality(Dates(bars')) \in Nat
  BY DaysCount, Bounds DEF Dates
<1>7. r.step = "count" => Cardinality(Dates(bars')) >= MinBars /\ r.last \in Dates(bars')
  BY <1>5, <1>6, Bounds DEF SyncerInv
<1>8. r.step = "manifest" => /\ Dates(r.rows) \subseteq Dates(bars') /\ Cardinality(Dates(r.rows)) >= MinBars
                            /\ r.last \in Dates(r.rows)
  BY DEF SyncerInv
<1> QED
  BY <1>1, <1>2, <1>3, <1>4, <1>7, <1>8 DEF SyncerInv

LEMMA IdleSyncer ==
    ASSUME NEW p \in Syncers, proc'[p] = Idle PROVE SyncerInv(p)'
BY EmptyBars DEF SyncerInv

\* A step of one process that stores no bar and no manifest.
LEMMA QuietStep ==
    ASSUME SyncTypeOK, StoredInv, NEW p \in Syncers, NEW r \in Syncer,
           proc' = [proc EXCEPT ![p] = r], SyncerInv(p)',
           UNCHANGED <<day, bars, manifest, workers, late>>
    PROVE  StoredInv'
<1>1. \A q \in Syncers : SyncerInv(q)'
  BY Moves, OtherSyncer DEF StoredInv
<1>2. Promised(manifest)' <=> Promised(manifest)
  BY DEF Promised
<1>3. WholeInv'
  BY DEF StoredInv, WholeInv, Convex
<1> QED
  BY <1>1, <1>2, <1>3 DEF StoredInv

\* New bars leave no hole: they begin after the last one the sync read, or further back
\* than the bars reach.
LEMMA StoreIsWhole ==
    ASSUME SyncTypeOK, StoredInv, NEW p \in Syncers, Store(p) PROVE WholeInv'
<1> DEFINE r == proc[p]
           B == Dates(bars)
           new == New(r.read, r.rows)
           n == IF Complete(r.read) THEN Window ELSE Full
<1> SUFFICES ASSUME ~late
             PROVE  /\ Convex(Dates(bars'))
                    /\ Dates(bars') # {} => \E d \in Dates(bars') : day - d <= Window
  BY DEF Store, market, WholeInv
<1>0. r.since \in (day - 1)..day
  BY DEF StoredInv, SyncerInv, Store
<1>1. /\ day \in Nat /\ day \in 1..MaxDay /\ r.since \in Nat /\ r.since \in (day - 1)..day
      /\ r.read.last \in Nat
  <2>1. r \in Syncer /\ day \in Days
    BY Typing DEF SyncTypeOK
  <2>2. r.since \in Nat /\ r.read.last \in Nat
    BY <2>1, Bounds DEF Syncer, Manifest
  <2> QED
    BY <1>0, <2>1, <2>2, Bounds DEF Days
<1>2. PICK f \in r.since..day : Dates(r.rows) = {d \in Days : d <= f /\ d > f - n}
  BY DEF Store, StoredInv, SyncerInv, Fetched
<1>3. n \in Nat /\ n >= Window /\ f \in Nat /\ f >= day - 1 /\ f <= day
  BY <1>1, <1>2, Bounds
<1>4. Dates(bars') = B \cup new
  BY Storing
<1>5. B \subseteq 1..day /\ B \subseteq Days /\ \A d \in Days : d \in Nat /\ d >= 1 /\ d <= MaxDay
  BY Bounds DEF StoredInv, Dates, Days
<1>6. Convex(B) /\ (B # {} => \E d \in B : day - d <= Window)
  BY DEF StoredInv, WholeInv
<1>7. \A d \in Days : d \in new <=> d <= f /\ d > f - n /\ (Complete(r.read) => d > r.read.last)
  BY <1>2 DEF New
<1>8. new \subseteq Days
  BY DEF New, Dates
<1>9. Complete(r.read) => r.read.last \in B
  BY DEF Complete, StoredInv, SyncerInv, Promised
<1> HIDE DEF r, B, new, n
<1>10. Convex(B \cup new)
  <2> SUFFICES ASSUME NEW a \in B \cup new, NEW b \in B \cup new, NEW c \in Days,
                      a <= c, c <= b, c \notin B
               PROVE  c \in new
    BY DEF Convex
  <2>1. \A x, y \in B : ~(x <= c /\ c <= y)
    BY <1>6 DEF Convex
  <2>2. c \in Nat /\ a \in Nat /\ b \in Nat /\ a \in Days /\ b \in Days
    BY <1>5, <1>8
  <2>3. CASE a \in B /\ b \in new
    <3>1. PICK d \in B : day - d <= Window
      BY <1>6, <2>3
    <3>2. ~(c <= d) /\ d \in Nat
      BY <2>1, <2>3, <1>5
    <3>3. c > f - n /\ c <= f
      BY <3>1, <3>2, <1>1, <1>3, <1>7, <2>2, <2>3, Bounds
    <3>4. Complete(r.read) => c > r.read.last
      BY <1>1, <1>9, <2>1, <2>2, <2>3
    <3> QED
      BY <1>7, <3>3, <3>4
  <2>4. CASE a \in new /\ b \in B
    <3>1. ~Complete(r.read)
      BY <1>1, <1>7, <1>9, <2>1, <2>2, <2>4
    <3>2. b \in Nat /\ b <= day /\ c # b
      BY <1>1, <1>5, <2>4
    <3>3. c <= f /\ c > f - n
      BY <3>2, <1>1, <1>3, <1>7, <2>2, <2>4
    <3> QED
      BY <1>7, <3>1, <3>3
  <2>5. CASE a \in new /\ b \in new
    BY <1>1, <1>3, <1>7, <2>2, <2>5
  <2> QED
    BY <2>1, <2>3, <2>4, <2>5
<1>11. ASSUME B \cup new # {} PROVE \E d \in B \cup new : day - d <= Window
  <2>1. CASE B # {}
    BY <1>6, <2>1
  <2>2. CASE B = {}
    <3>1. PICK d \in new : TRUE
      BY <1>11, <2>2
    <3>2. ~Complete(r.read)
      BY <1>9, <2>2
    <3>3. f \in Days /\ n >= 1
      BY <3>1, <1>1, <1>3, <1>5, <1>7, <1>8, Bounds DEF Days
    <3>4. f \in new
      BY <3>2, <3>3, <1>3, <1>7
    <3>5. day - f <= Window
      BY <1>1, <1>3, Bounds
    <3> QED
      BY <3>4, <3>5
  <2> QED
    BY <2>1, <2>2
<1> QED
  BY <1>4, <1>10, <1>11

LEMMA StoredInit == SyncInit => StoredInv /\ AloneInv
<1> SUFFICES ASSUME SyncInit PROVE StoredInv /\ AloneInv
  OBVIOUS
<1>1. \A p \in Syncers : proc[p] = Idle
  BY DEF SyncInit
<1>2. \A p \in Syncers : SyncerInv(p)
  BY <1>1, EmptyBars DEF SyncerInv
<1>3. bars = Empty /\ manifest = NoManifest /\ Dates(bars) = {} /\ manifest.content = Empty
  BY EmptyBars DEF SyncInit, NoManifest
<1>4. WholeInv
  BY <1>3 DEF WholeInv, Convex
<1>5. AloneInv
  BY <1>1, <1>3, EmptyBars DEF AloneInv, UpTo
<1> QED
  BY <1>2, <1>3, <1>4, <1>5 DEF StoredInv

LEMMA StoredStep == SyncTypeOK /\ StoredInv /\ [SyncNext]_syncVars => StoredInv'
<1> SUFFICES ASSUME SyncTypeOK, StoredInv, [SyncNext]_syncVars PROVE StoredInv'
  OBVIOUS
<1>0. SyncTypeOK'
  BY BarsTypeStep
<1> DEFINE Quiet == UNCHANGED <<day, bars, manifest, workers, late>>
<1>1. ASSUME Quiet, UNCHANGED proc PROVE StoredInv'
  <2>1. \A p \in Syncers : SyncerInv(p)'
    BY <1>1, OtherSyncer DEF StoredInv
  <2>2. WholeInv' /\ (Promised(manifest)' <=> Promised(manifest))
    BY <1>1 DEF StoredInv, WholeInv, Convex, Promised
  <2> QED
    BY <1>1, <2>1, <2>2 DEF StoredInv
<1>2. CASE SessionEnds \/ Split \/ UNCHANGED syncVars
  BY <1>1, <1>2 DEF SessionEnds, Split, syncVars, store
<1>3. CASE SessionBegins
  <2>1. day \in Nat /\ day >= 1 /\ day' = day + 1 /\ late \in BOOLEAN /\ late' \in BOOLEAN
    BY <1>0, <1>3, Bounds DEF SessionBegins, SyncTypeOK, Days
  <2>2. \A p \in Syncers : SyncerInv(p)'
    BY <1>3, OtherSyncer DEF StoredInv, SessionBegins, store
  <2>3. WholeInv'
    <3> SUFFICES ASSUME ~late' PROVE WholeInv'
      BY DEF WholeInv
    <3>1. ~late /\ (Dates(bars) # {} => ~(day + 1 - Last(bars) > Window)) /\ bars' = bars
      BY <1>3 DEF SessionBegins, store
    <3>2. ASSUME Dates(bars) # {} PROVE \E d \in Dates(bars) : day' - d <= Window
      <4>1. Last(bars) \in Dates(bars) /\ Last(bars) \in Days
        BY <3>2, LastIsLast
      <4>2. day' - Last(bars) <= Window
        BY <2>1, <3>1, <3>2, <4>1, Bounds DEF Days
      <4> QED
        BY <4>1, <4>2
    <3> QED
      BY <3>1, <3>2 DEF WholeInv, Convex, StoredInv
  <2>4. Dates(bars') \subseteq 1..day'
    BY <1>3, <2>1 DEF SessionBegins, store, StoredInv
  <2>5. manifest' # NoManifest => Promised(manifest)'
    BY <1>3 DEF SessionBegins, store, StoredInv, Promised
  <2> QED
    BY <2>2, <2>3, <2>4, <2>5 DEF StoredInv
<1>4. ASSUME NEW p \in Syncers, Begin(p) PROVE StoredInv'
  <2> DEFINE r == [Idle EXCEPT !.step = "fetch", !.since = day, !.read = manifest]
  <2>1. proc' = [proc EXCEPT ![p] = r] /\ Quiet /\ p \in workers
    BY <1>4 DEF Begin, market, store
  <2>2. day \in 0..MaxDay /\ manifest \in Manifest /\ day \in Nat /\ day >= 1
    BY Typing, Bounds DEF SyncTypeOK, Days
  <2>3. r \in Syncer /\ r.step = "fetch" /\ r.since = day /\ r.read = manifest
    BY <2>2, EmptyBars DEF Syncer, Idle
  <2> HIDE DEF r
  <2>4. proc'[p] = r
    BY <2>1, <2>3, Moves
  <2>5. day \in (day - 1)..day
    BY <2>2
  <2>6. manifest # NoManifest => Promised(manifest)'
    BY <2>1 DEF StoredInv, Promised
  <2>7. SyncerInv(p)'
    BY <2>1, <2>3, <2>4, <2>5, <2>6 DEF SyncerInv
  <2> QED
    BY <2>1, <2>3, <2>7, QuietStep
<1>5. ASSUME NEW p \in Syncers, proc' = [proc EXCEPT ![p] = Idle], Quiet PROVE StoredInv'
  <2>1. Idle \in Syncer
    BY EmptyBars
  <2>2. SyncerInv(p)'
    BY <1>5, <2>1, Moves, IdleSyncer
  <2> QED
    BY <1>5, <2>1, <2>2, QuietStep
<1>6. ASSUME NEW p \in Syncers, NEW r \in Syncer, proc' = [proc EXCEPT ![p] = r], Quiet,
             proc[p].step # "idle", r.since = proc[p].since, r.read = proc[p].read,
             r.step \in {"calendar", "store"} => Fetched(r),
             r.step # "count",
             r.step = "manifest" =>
                /\ Dates(r.rows) \subseteq Dates(bars) /\ Cardinality(Dates(r.rows)) >= MinBars
                /\ r.last \in Dates(r.rows)
      PROVE  StoredInv'
  <2>1. proc'[p] = r
    BY <1>6, Moves
  <2>2. r.since \in (day - 1)..day /\ p \in workers
    BY <1>6 DEF StoredInv, SyncerInv
  <2>3. r.read # NoManifest => Promised(r.read)'
    BY <1>6 DEF StoredInv, SyncerInv, Promised
  <2>4. Fetched(r)' <=> Fetched(r)
    BY <1>6 DEF Fetched
  <2>5. SyncerInv(p)'
    BY <1>6, <2>1, <2>2, <2>3, <2>4 DEF SyncerInv
  <2> QED
    BY <1>6, <2>5, QuietStep
<1>7. ASSUME NEW p \in Syncers, FetchBars(p) PROVE StoredInv'
  <2> DEFINE n == IF Complete(proc[p].read) THEN Window ELSE Full
             r == [proc[p] EXCEPT !.step = "calendar", !.rows = Candlesticks(n)]
  <2>1. n \in Nat /\ Candlesticks(n) \in Table
    BY Bounds, CandleDates
  <2>2. r \in Syncer
    BY <2>1, Typing DEF Syncer
  <2>3. Quiet /\ proc[p].step = "fetch"
    BY <1>7 DEF FetchBars, market, store
  <2>4. /\ r.step = "calendar" /\ r.since = proc[p].since /\ r.read = proc[p].read
        /\ r.rows = Candlesticks(n)
    BY Typing DEF Syncer
  <2>5. \/ proc' = [proc EXCEPT ![p] = Idle]
        \/ /\ proc' = [proc EXCEPT ![p] = r]
           /\ Complete(proc[p].read) \/ Cardinality(Dates(Candlesticks(n))) >= MinBars
    BY <1>7 DEF FetchBars
  <2>6. CASE proc' = [proc EXCEPT ![p] = Idle]
    BY <1>5, <2>3, <2>6
  <2>7. CASE /\ proc' = [proc EXCEPT ![p] = r]
             /\ Complete(proc[p].read) \/ Cardinality(Dates(Candlesticks(n))) >= MinBars
    <3>1. day \in r.since..day
      BY <2>3, <2>4, Typing, Bounds DEF StoredInv, SyncerInv, SyncTypeOK, Days, Syncer
    <3>2. Dates(r.rows) = {d \in Days : d <= day /\ d > day - n}
      BY <2>1, <2>4, CandleDates
    <3>3. ~Complete(r.read) => Cardinality(Dates(r.rows)) >= MinBars
      BY <2>4, <2>7
    <3>4. Fetched(r)
      BY <2>4, <3>1, <3>2, <3>3 DEF Fetched
    <3> HIDE DEF r
    <3> QED
      BY <1>6, <2>2, <2>3, <2>4, <2>7, <3>4
  <2> QED
    BY <2>5, <2>6, <2>7
<1>8. ASSUME NEW p \in Syncers, SyncCalendar(p) PROVE StoredInv'
  <2> DEFINE r == [proc[p] EXCEPT !.step = "store"]
  <2>1. r \in Syncer /\ proc' = [proc EXCEPT ![p] = r] /\ Quiet /\ proc[p].step = "calendar"
    BY <1>8, Typing DEF SyncCalendar, market, Syncer
  <2>2. /\ r.step = "store" /\ r.since = proc[p].since /\ r.read = proc[p].read
        /\ r.rows = proc[p].rows
    BY Typing DEF Syncer
  <2>3. Fetched(proc[p])
    BY <2>1 DEF StoredInv, SyncerInv
  <2> HIDE DEF r
  <2>4. Fetched(r)
    BY <2>2, <2>3 DEF Fetched
  <2> QED
    BY <1>6, <2>1, <2>2, <2>4
<1>9. ASSUME NEW p \in Syncers, CalendarRefused(p) \/ Dies(p) PROVE StoredInv'
  BY <1>5, <1>9 DEF CalendarRefused, Dies, market, store
<1>10. ASSUME NEW p \in Syncers, Store(p) PROVE StoredInv'
  <2> DEFINE new == New(proc[p].read, proc[p].rows)
             last == Last(proc[p].rows)
             r1 == [proc[p] EXCEPT !.step = "count", !.rows = Empty, !.last = last]
             r2 == [proc[p] EXCEPT !.step = "manifest", !.last = last]
  <2>1. /\ day' = day /\ manifest' = manifest /\ workers' = workers /\ late' = late
        /\ proc[p].step = "store"
    BY <1>10 DEF Store, market
  <2>2. Dates(bars') = Dates(bars) \cup new
    BY <1>10, Storing
  <2>a. proc' # [proc EXCEPT ![p] = Idle] => last \in Dates(proc[p].rows) /\ last \in new /\ last \in 0..MaxDay
    BY <1>10, StoredLast
  <2>3. Idle \in Syncer /\ (proc' # [proc EXCEPT ![p] = Idle] => r1 \in Syncer /\ r2 \in Syncer)
    BY <2>a, Typing, EmptyBars DEF Syncer
  <2>4. \/ proc' = [proc EXCEPT ![p] = r1] /\ Complete(proc[p].read)
        \/ proc' = [proc EXCEPT ![p] = r2] /\ ~Complete(proc[p].read)
        \/ proc' = [proc EXCEPT ![p] = Idle]
    BY <1>10 DEF Store
  <2> HIDE DEF r1, r2, last
  <2>5. \A q \in Syncers \ {p} : proc'[q] = proc[q]
    BY <2>3, <2>4, Moves
  <2>6. \A q \in Syncers \ {p} : SyncerInv(q)'
    BY <2>1, <2>2, <2>5, OtherSyncer DEF StoredInv
  <2>70. PICK m : m = proc[p].read
    OBVIOUS
  <2>7. /\ proc[p].since \in (day' - 1)..day' /\ p \in workers' /\ Fetched(proc[p])
        /\ m # NoManifest => Promised(m)
    BY <2>1, <2>70 DEF StoredInv, SyncerInv
  <2>8. m # NoManifest => Promised(m)'
    BY <2>2, <2>7, PromiseKept
  <2>9. SyncerInv(p)'
    <3>1. CASE /\ proc' = [proc EXCEPT ![p] = r1] /\ Complete(proc[p].read)
               /\ proc' # [proc EXCEPT ![p] = Idle]
      <4>1. proc'[p] = r1
        BY <2>3, <3>1, Moves
      <4>2. r1.step = "count" /\ r1.since = proc[p].since /\ r1.read = proc[p].read /\ r1.last = last
        BY Typing DEF Syncer, r1
      <4>b. last \in Dates(bars')
        BY <2>2, <2>a, <3>1
      <4>3. Promised(m)' /\ bars' \in Table
        BY <2>8, <2>70, <3>1, <1>10, Storing DEF Complete
      <4>4. Cardinality(Dates(m.content)) <= Cardinality(Dates(bars'))
        BY <4>3, MoreDays DEF Promised, Dates
      <4>5. Cardinality(Dates(m.content)) >= MinBars
        BY <4>3 DEF Promised
      <4>6. Cardinality(Dates(bars')) \in Nat /\ Cardinality(Dates(m.content)) \in Nat
        BY DaysCount, Bounds DEF Dates
      <4>7. Cardinality(Dates(bars')) >= MinBars
        BY <4>4, <4>5, <4>6, Bounds
      <4> QED
        BY <2>7, <2>70, <2>8, <4>1, <4>2, <4>7, <4>b DEF SyncerInv
    <3>2. CASE /\ proc' = [proc EXCEPT ![p] = r2] /\ ~Complete(proc[p].read)
               /\ proc' # [proc EXCEPT ![p] = Idle]
      <4>1. proc'[p] = r2
        BY <2>3, <3>2, Moves
      <4>2. /\ r2.step = "manifest" /\ r2.since = proc[p].since /\ r2.read = proc[p].read
            /\ r2.rows = proc[p].rows /\ r2.last = last
        BY Typing DEF Syncer, r2
      <4>3. new = Dates(proc[p].rows)
        BY <3>2 DEF New
      <4>4. Cardinality(Dates(proc[p].rows)) >= MinBars
        BY <2>7, <3>2 DEF Fetched
      <4> QED
        BY <2>2, <2>7, <2>70, <2>8, <2>a, <3>2, <4>1, <4>2, <4>3, <4>4 DEF SyncerInv
    <3>3. CASE proc' = [proc EXCEPT ![p] = Idle]
      BY <2>3, <3>3, Moves, IdleSyncer
    <3> QED
      BY <2>4, <3>1, <3>2, <3>3
  <2>10. WholeInv'
    BY <1>10, StoreIsWhole
  <2>11. Dates(bars') \subseteq 1..day'
    <3>1. PICK f \in proc[p].since..day : \A d \in Dates(proc[p].rows) : d \in Days /\ d <= f
      BY <2>7 DEF Fetched
    <3>2. day \in Nat /\ f \in Int /\ f <= day
      BY <3>1, Typing, Bounds DEF SyncTypeOK, Days, Syncer
    <3>3. new \subseteq 1..day
      BY <3>1, <3>2, Bounds DEF New, Days
    <3> QED
      BY <2>1, <2>2, <3>3 DEF StoredInv
  <2>12. manifest' # NoManifest => Promised(manifest)'
    BY <2>1, <2>2, PromiseKept DEF StoredInv, Promised
  <2> QED
    BY <2>6, <2>9, <2>10, <2>11, <2>12 DEF StoredInv
<1>11. ASSUME NEW p \in Syncers, Count(p) PROVE StoredInv'
  <2> DEFINE r == [proc[p] EXCEPT !.step = "manifest", !.rows = bars]
  <2>1. proc' = [proc EXCEPT ![p] = r] /\ Quiet /\ proc[p].step = "count"
    BY <1>11 DEF Count, market, store
  <2>2. bars \in Table
    BY DEF SyncTypeOK
  <2>3. r \in Syncer /\ r.step = "manifest" /\ r.rows = bars
    BY <2>2, Typing DEF Syncer
  <2>4. r.since = proc[p].since /\ r.read = proc[p].read /\ r.last = proc[p].last
    BY Typing DEF Syncer
  <2>5. Cardinality(Dates(bars)) >= MinBars /\ proc[p].last \in Dates(bars)
    BY <2>1 DEF StoredInv, SyncerInv
  <2> HIDE DEF r
  <2> QED
    BY <1>6, <2>1, <2>3, <2>4, <2>5
<1>12. ASSUME NEW p \in Syncers, SetManifest(p) PROVE StoredInv'
  <2> DEFINE rows == proc[p].rows
  <2>1. /\ manifest' = [last |-> proc[p].last, count |-> Cardinality(Dates(rows)), content |-> rows]
        /\ proc' = [proc EXCEPT ![p] = Idle] /\ UNCHANGED <<day, bars, workers, late>>
        /\ proc[p].step = "manifest"
    BY <1>12 DEF SetManifest, market
  <2>2. Idle \in Syncer /\ proc'[p] = Idle /\ \A q \in Syncers \ {p} : proc'[q] = proc[q]
    BY <2>1, EmptyBars, Moves
  <2>3. \A q \in Syncers : SyncerInv(q)'
    BY <2>1, <2>2, OtherSyncer, IdleSyncer DEF StoredInv
  <2>4. WholeInv'
    BY <2>1 DEF StoredInv, WholeInv, Convex
  <2>5. /\ Dates(rows) \subseteq Dates(bars) /\ Cardinality(Dates(rows)) >= MinBars
        /\ proc[p].last \in Dates(rows)
    BY <2>1 DEF StoredInv, SyncerInv
  <2> HIDE DEF rows
  <2>8. Promised(manifest)'
    BY <2>1, <2>5 DEF Promised
  <2> QED
    BY <2>1, <2>3, <2>4, <2>8 DEF StoredInv
<1> QED
  BY <1>2, <1>3, <1>4, <1>7, <1>8, <1>9, <1>10, <1>11, <1>12 DEF SyncNext

\* One worker is the only one.
LEMMA OnlyWorker ==
    ASSUME SyncTypeOK, Alone, NEW p \in workers, NEW q \in workers PROVE p = q
<1>1. IsFiniteSet(workers)
  BY DataSyncAssumption, FS_Subset DEF SyncTypeOK
<1>2. PICK x : workers = {x}
  BY <1>1, FS_Singleton DEF Alone
<1> QED
  BY <1>2

\* Content that counted what was stored is not touched by a later write.
LEMMA BehindManifest ==
    ASSUME SyncTypeOK, StoredInv, NEW p \in Syncers, Store(p), proc[p].read = manifest,
           UpTo(manifest.content, manifest.last)
    PROVE  /\ \A d \in 1..manifest.last : bars'[d] = bars[d]
           /\ \A d \in Dates(manifest.content) : bars'[d] = bars[d]
<1> DEFINE new == New(proc[p].read, proc[p].rows)
<1>1. manifest \in Manifest /\ bars' \in Table /\ bars \in Table
  BY Typing, Storing DEF SyncTypeOK
<1>2. \A d \in Days : d \notin new => bars'[d] = bars[d]
  BY Storing
<1>3. \A d \in Dates(manifest.content) : d \in Days
  BY DEF Dates
<1>4. CASE Complete(manifest)
  <2>1. \A d \in new : d > manifest.last /\ d \in Days
    BY <1>4 DEF New, Dates
  <2>2. manifest.last \in Dates(manifest.content) /\ manifest.last \in Nat
    BY <1>1, <1>4, Bounds DEF StoredInv, Promised, Complete, Manifest
  <2>3. \A d \in Dates(manifest.content) : d <= manifest.last
    BY DEF UpTo
  <2>4. \A d \in 1..manifest.last : d \in Days /\ ~(d > manifest.last)
    BY <1>3, <2>2, Bounds DEF Days
  <2>5. \A d \in Dates(manifest.content) : ~(d > manifest.last)
    BY <1>3, <2>2, <2>3, Bounds DEF Days
  <2> HIDE DEF new
  <2> QED
    BY <1>2, <1>3, <2>1, <2>4, <2>5
<1>5. CASE ~Complete(manifest)
  <2>1. manifest = NoManifest
    BY <1>5 DEF Complete, StoredInv, Promised
  <2>2. manifest.last = 0 /\ Dates(manifest.content) = {}
    BY <2>1, EmptyBars DEF NoManifest
  <2> QED
    BY <2>2
<1> QED
  BY <1>4, <1>5

LEMMA AloneStep ==
    SyncTypeOK /\ StoredInv /\ AloneInv /\ [SyncNext]_syncVars => AloneInv'
<1> SUFFICES ASSUME SyncTypeOK, StoredInv, AloneInv, [SyncNext]_syncVars, Alone'
             PROVE  AloneInv'
  BY DEF AloneInv
<1>0. workers' = workers /\ Alone
  <2>1. workers' = workers
    BY DEF SyncNext, SessionEnds, SessionBegins, Split, Begin, FetchBars, SyncCalendar,
           CalendarRefused, Store, Count, SetManifest, Dies, syncVars
  <2> QED
    BY <2>1 DEF Alone
<1> DEFINE Same(m, t) == \A d \in Dates(m) : m[d] = t[d]
           \* What the one sync relies on.
           Hand(r, m, t) ==
               /\ r.step # "idle" => r.read = m
               /\ r.step \in {"fetch", "calendar", "store"} => UpTo(t, r.since)
               /\ r.step = "count" => UpTo(t, r.last)
               /\ r.step = "manifest" => Same(r.rows, t) /\ UpTo(r.rows, r.last)
<1>1. Same(manifest.content, bars) /\ UpTo(manifest.content, manifest.last)
  BY <1>0 DEF AloneInv
<1>2. \A p \in Syncers : Hand(proc[p], manifest, bars)
  BY <1>0 DEF AloneInv
<1>3. Hand(Idle, manifest', bars')
  BY EmptyBars
<1>4. ASSUME Same(manifest'.content, bars'), UpTo(manifest.content, manifest.last)',
             \A p \in Syncers : Hand(proc'[p], manifest', bars')
      PROVE  AloneInv'
  BY <1>4 DEF AloneInv, UpTo
<1>5. CASE SessionEnds \/ SessionBegins \/ Split \/ UNCHANGED syncVars
  <2>1. UNCHANGED <<proc, manifest, bars>>
    BY <1>5 DEF SessionEnds, SessionBegins, Split, syncVars, store
  <2> QED
    BY <1>1, <1>2, <1>4, <2>1 DEF UpTo
<1>6. \A p \in Syncers : proc[p].step # "idle" => p \in workers
  BY DEF StoredInv, SyncerInv
\* A step of one process, the only one with anything in hand.
<1>7. ASSUME NEW p \in Syncers, NEW r \in Syncer, p \in workers, proc' = [proc EXCEPT ![p] = r],
             Same(manifest'.content, bars'), UpTo(manifest.content, manifest.last)',
             Hand(r, manifest', bars')
      PROVE  AloneInv'
  <2>1. proc'[p] = r /\ \A q \in Syncers \ {p} : proc'[q] = proc[q]
    BY <1>7, Moves
  <2>2. \A q \in Syncers \ {p} : q \notin workers
    BY <1>0, <1>7, OnlyWorker
  <2>3. \A q \in Syncers \ {p} : proc[q].step = "idle"
    BY <1>6, <2>2
  <2>4. \A q \in Syncers \ {p} : Hand(proc'[q], manifest', bars')
    BY <2>1, <2>3
  <2>5. \A q \in Syncers : Hand(proc'[q], manifest', bars')
    BY <1>7, <2>1, <2>4
  <2> HIDE DEF Hand, Same
  <2> QED
    BY <1>4, <1>7, <2>5
<1>8. Idle \in Syncer /\ Idle.step = "idle"
  BY EmptyBars
<1>a. ASSUME UNCHANGED <<bars, manifest>>
      PROVE  Same(manifest'.content, bars') /\ UpTo(manifest.content, manifest.last)'
  BY <1>1, <1>a DEF UpTo
<1>9. ASSUME NEW p \in Syncers, Begin(p) PROVE AloneInv'
  <2> DEFINE r == [Idle EXCEPT !.step = "fetch", !.since = day, !.read = manifest]
  <2>1. proc' = [proc EXCEPT ![p] = r] /\ UNCHANGED <<bars, manifest>> /\ p \in workers
    BY <1>9 DEF Begin, store
  <2>2. day \in 0..MaxDay /\ manifest \in Manifest
    BY Typing, Bounds DEF SyncTypeOK, Days
  <2>3. r \in Syncer /\ r.step = "fetch" /\ r.read = manifest /\ r.since = day
    BY <2>2, EmptyBars DEF Syncer, Idle
  <2>4. UpTo(bars, day)
    BY <2>2 DEF StoredInv, UpTo
  <2> HIDE DEF r
  <2>5. Hand(r, manifest', bars')
    BY <2>1, <2>3, <2>4 DEF UpTo
  <2> HIDE DEF Hand, Same
  <2> QED
    BY <1>7, <1>a, <2>1, <2>3, <2>5
<1>10. ASSUME NEW p \in Syncers, FetchBars(p) PROVE AloneInv'
  <2> DEFINE n == IF Complete(proc[p].read) THEN Window ELSE Full
             r == [proc[p] EXCEPT !.step = "calendar", !.rows = Candlesticks(n)]
  <2>1. Candlesticks(n) \in Table
    BY Bounds, CandleDates
  <2>2. /\ r \in Syncer /\ r.step = "calendar" /\ r.read = proc[p].read
        /\ r.since = proc[p].since
    BY <2>1, Typing DEF Syncer
  <2>3. UNCHANGED <<bars, manifest>> /\ proc[p].step = "fetch" /\ p \in workers
    BY <1>6, <1>10 DEF FetchBars, store
  <2>4. proc' = [proc EXCEPT ![p] = Idle] \/ proc' = [proc EXCEPT ![p] = r]
    BY <1>10 DEF FetchBars
  <2> HIDE DEF r
  <2>5. Hand(r, manifest', bars')
    BY <1>2, <2>2, <2>3 DEF UpTo
  <2> HIDE DEF Hand, Same
  <2> QED
    BY <1>3, <1>7, <1>8, <1>a, <2>2, <2>3, <2>4, <2>5
<1>11. ASSUME NEW p \in Syncers, SyncCalendar(p) PROVE AloneInv'
  <2> DEFINE r == [proc[p] EXCEPT !.step = "store"]
  <2>1. r \in Syncer /\ r.step = "store" /\ r.read = proc[p].read /\ r.since = proc[p].since
    BY Typing DEF Syncer
  <2>2. proc' = [proc EXCEPT ![p] = r] /\ UNCHANGED <<bars, manifest>> /\ proc[p].step = "calendar"
    BY <1>11 DEF SyncCalendar
  <2> HIDE DEF r
  <2>3. Hand(r, manifest', bars') /\ p \in workers
    BY <1>2, <1>6, <2>1, <2>2 DEF UpTo
  <2> HIDE DEF Hand, Same
  <2> QED
    BY <1>7, <1>a, <2>1, <2>2, <2>3
<1>12. ASSUME NEW p \in Syncers, CalendarRefused(p) \/ Dies(p) PROVE AloneInv'
  <2>1. /\ proc' = [proc EXCEPT ![p] = Idle] /\ UNCHANGED <<bars, manifest>>
    BY <1>12 DEF CalendarRefused, Dies, store
  <2>2. proc'[p] = Idle /\ \A q \in Syncers \ {p} : proc'[q] = proc[q]
    BY <1>8, <2>1, Moves
  <2>3. \A q \in Syncers \ {p} : Hand(proc'[q], manifest', bars')
    BY <1>2, <2>1, <2>2 DEF UpTo
  <2>4. \A q \in Syncers : Hand(proc'[q], manifest', bars')
    BY <1>3, <2>2, <2>3
  <2> HIDE DEF Hand, Same
  <2> QED
    BY <1>4, <1>a, <2>1, <2>4
<1>13. ASSUME NEW p \in Syncers, Store(p) PROVE AloneInv'
  <2> DEFINE new == New(proc[p].read, proc[p].rows)
             last == Last(proc[p].rows)
             r1 == [proc[p] EXCEPT !.step = "count", !.rows = Empty, !.last = last]
             r2 == [proc[p] EXCEPT !.step = "manifest", !.last = last]
  <2>0. manifest' = manifest /\ proc[p].step = "store"
    BY <1>13 DEF Store
  <2>1. proc[p].read = manifest /\ p \in workers /\ UpTo(bars, proc[p].since) /\ Fetched(proc[p])
    BY <2>0, <1>2, <1>6 DEF StoredInv, SyncerInv
  <2>2. Same(manifest.content, bars') /\ UpTo(manifest.content, manifest.last)
    BY <1>1, <1>13, <2>1, BehindManifest
  <2>3. \A d \in new : bars'[d] = proc[p].rows[d]
    BY <1>13, Storing
  <2>4. Dates(bars') = Dates(bars) \cup new /\ new \subseteq Dates(proc[p].rows)
    BY <1>13, Storing DEF New
  <2>5. ~Complete(proc[p].read) => Same(proc[p].rows, bars')
    BY <2>3 DEF New
  <2>6. \/ proc' = [proc EXCEPT ![p] = Idle]
        \/ proc' = [proc EXCEPT ![p] = r1]
        \/ proc' = [proc EXCEPT ![p] = r2] /\ ~Complete(proc[p].read)
    BY <1>13 DEF Store
  <2>7. ASSUME proc' # [proc EXCEPT ![p] = Idle]
        PROVE  last \in Dates(proc[p].rows) /\ UpTo(proc[p].rows, last) /\ last \in 0..MaxDay
    BY <1>13, <2>7, StoredLast
  <2>8. ASSUME proc' # [proc EXCEPT ![p] = Idle]
        PROVE  r1 \in Syncer /\ r2 \in Syncer
    BY <2>7, <2>8, Typing, EmptyBars DEF Syncer
  <2>9. /\ r1.step = "count" /\ r1.read = manifest /\ r1.last = last
        /\ r2.step = "manifest" /\ r2.read = manifest /\ r2.rows = proc[p].rows /\ r2.last = last
    BY <2>1, Typing DEF Syncer
  <2> HIDE DEF r1, r2, new, last
  <2>10. ASSUME proc' # [proc EXCEPT ![p] = Idle] PROVE UpTo(bars', last)
    <3> DEFINE n == IF Complete(proc[p].read) THEN Window ELSE Full
    <3>1. PICK f \in proc[p].since..day : Dates(proc[p].rows) = {d \in Days : d <= f /\ d > f - n}
      BY <2>1 DEF Fetched
    <3>2. n \in Nat /\ n >= 1 /\ proc[p].since \in Nat /\ day \in 1..MaxDay
      BY Bounds, Typing DEF Syncer, SyncTypeOK, Days
    <3> HIDE DEF n
    <3>3. last \in Days /\ last <= f /\ f \in Int /\ proc[p].since <= f /\ f <= day
      BY <2>7, <2>10, <3>1, <3>2
    <3>4. f \in Dates(proc[p].rows)
      BY <3>1, <3>2, <3>3, Bounds DEF Days
    <3>5. f <= last
      BY <2>7, <2>10, <3>4 DEF UpTo
    <3>6. ASSUME NEW d \in Dates(bars) PROVE d <= last
      <4>1. d <= proc[p].since /\ d \in Days
        BY <2>1 DEF UpTo, Dates
      <4> QED
        BY <4>1, <3>2, <3>3, <3>5, Bounds DEF Days
    <3> QED
      BY <2>4, <2>7, <2>10, <3>6 DEF UpTo
  <2>11. CASE proc' = [proc EXCEPT ![p] = r1] /\ proc' # [proc EXCEPT ![p] = Idle]
    <3>1. Hand(r1, manifest', bars')
      BY <2>0, <2>9, <2>10, <2>11
    <3> HIDE DEF Hand, Same
    <3> QED
      BY <1>7, <2>0, <2>1, <2>2, <2>8, <2>11, <3>1
  <2>12. CASE /\ proc' = [proc EXCEPT ![p] = r2] /\ ~Complete(proc[p].read)
              /\ proc' # [proc EXCEPT ![p] = Idle]
    <3>1. Hand(r2, manifest', bars')
      BY <2>0, <2>5, <2>7, <2>9, <2>12
    <3> HIDE DEF Hand, Same
    <3> QED
      BY <1>7, <2>0, <2>1, <2>2, <2>8, <2>12, <3>1
  <2>13. CASE proc' = [proc EXCEPT ![p] = Idle]
    <3> HIDE DEF Hand, Same
    <3> QED
      BY <1>3, <1>7, <1>8, <2>0, <2>1, <2>2, <2>13
  <2> QED
    BY <2>6, <2>11, <2>12, <2>13
<1>14. ASSUME NEW p \in Syncers, Count(p) PROVE AloneInv'
  <2> DEFINE r == [proc[p] EXCEPT !.step = "manifest", !.rows = bars]
  <2>1. proc' = [proc EXCEPT ![p] = r] /\ UNCHANGED <<bars, manifest>> /\ proc[p].step = "count"
    BY <1>14 DEF Count, store
  <2>2. bars \in Table
    BY DEF SyncTypeOK
  <2>3. /\ r \in Syncer /\ r.step = "manifest" /\ r.rows = bars /\ r.read = proc[p].read
        /\ r.last = proc[p].last
    BY <2>2, Typing DEF Syncer
  <2> HIDE DEF r
  <2>4. Hand(r, manifest', bars') /\ p \in workers
    BY <1>2, <1>6, <2>1, <2>3
  <2> HIDE DEF Hand, Same
  <2> QED
    BY <1>7, <1>a, <2>1, <2>3, <2>4
<1>15. ASSUME NEW p \in Syncers, SetManifest(p) PROVE AloneInv'
  <2>1. /\ manifest' = [last |-> proc[p].last, count |-> Cardinality(Dates(proc[p].rows)),
                        content |-> proc[p].rows]
        /\ bars' = bars /\ proc[p].step = "manifest"
        /\ proc' = [proc EXCEPT ![p] = Idle]
    BY <1>15 DEF SetManifest
  <2>2. manifest'.content = proc[p].rows /\ manifest'.last = proc[p].last
    BY <2>1
  <2>3. Same(manifest'.content, bars') /\ UpTo(manifest.content, manifest.last)' /\ p \in workers
    BY <1>2, <1>6, <2>1, <2>2 DEF UpTo
  <2> HIDE DEF Hand, Same
  <2> QED
    BY <1>3, <1>7, <1>8, <2>1, <2>3
<1> QED
  BY <1>5, <1>9, <1>10, <1>11, <1>12, <1>13, <1>14, <1>15 DEF SyncNext

\* A history without holes runs from its first day to its last.
LEMMA WholeIsInterval ==
    ASSUME SyncTypeOK, Convex(Dates(bars)), Dates(bars) # {}
    PROVE  Dates(bars) = (CHOOSE d \in Dates(bars) : d - 1 \notin Dates(bars))..Last(bars)
<1> DEFINE B == Dates(bars)
<1>1. B \subseteq Days /\ \A d \in Days : d \in Nat /\ d >= 1
  BY Bounds DEF Dates, Days
<1>2. \E d \in B : d - 1 \notin B
  <2>1. B \subseteq Nat /\ B # {}
    BY <1>1
  <2>2. PICK x \in B : \A y \in B : x <= y
    BY <2>1, NatMin
  <2> QED
    BY <1>1, <2>2
<1>3. PICK x : x = CHOOSE d \in B : d - 1 \notin B
  OBVIOUS
<1>4. x \in B /\ x - 1 \notin B
  BY <1>2, <1>3
<1>5. Last(bars) \in B /\ \A e \in B : e <= Last(bars)
  BY LastIsLast
<1>6. \A a, b \in B : \A c \in Days : a <= c /\ c <= b => c \in B
  BY DEF Convex
<1>7. PICK z : z = Last(bars)
  OBVIOUS
<1> HIDE DEF B
<1>8. ASSUME NEW e \in B PROVE e \in x..z
  <2>1. e \in Nat /\ x \in Nat /\ e >= 1 /\ e <= z /\ z \in Nat
    BY <1>1, <1>4, <1>5, <1>7
  <2>2. CASE e < x
    <3>1. x - 1 \in Days /\ e <= x - 1 /\ x - 1 <= x
      BY <1>1, <1>4, <2>1, <2>2, Bounds DEF Days
    <3> QED
      BY <1>4, <1>6, <3>1
  <2> QED
    BY <2>1, <2>2
<1>9. ASSUME NEW e \in x..z PROVE e \in B
  <2>1. x \in Nat /\ z \in Nat /\ x \in Days /\ z \in Days /\ z \in B
    BY <1>1, <1>4, <1>5, <1>7
  <2>2. e \in Days /\ x <= e /\ e <= z
    BY <2>1, Bounds DEF Days
  <2> QED
    BY <1>4, <1>6, <2>1, <2>2
<1>10. B = x..z
  BY <1>8, <1>9
<1> QED
  BY <1>3, <1>7, <1>10 DEF B

LEMMA GateFacts ==
    SyncTypeOK /\ StoredInv /\ AloneInv => HealthyIsWhole /\ VersionIsContent /\ ManifestIsStored
<1> SUFFICES ASSUME SyncTypeOK, StoredInv, AloneInv
             PROVE  HealthyIsWhole /\ VersionIsContent /\ ManifestIsStored
  OBVIOUS
<1>1. manifest # NoManifest => Promised(manifest)
  BY DEF StoredInv
<1>2. HealthyIsWhole
  <2> SUFFICES ASSUME Healthy, ~late
               PROVE  Dates(bars) = (CHOOSE d \in Dates(bars) : d - 1 \notin Dates(bars))..Last(bars)
    BY DEF HealthyIsWhole
  <2>1. Dates(bars) # {}
    BY <1>1 DEF Healthy, Promised
  <2>2. Convex(Dates(bars))
    BY DEF StoredInv, WholeInv
  <2> QED
    BY <2>1, <2>2, WholeIsInterval
<1>3. VersionIsContent
  <2> SUFFICES ASSUME Alone, Healthy PROVE manifest.content = bars
    BY DEF VersionIsContent
  <2>1. Promised(manifest) /\ manifest.count = Cardinality(Dates(bars))
    BY <1>1 DEF Healthy
  <2>2. Dates(manifest.content) = Dates(bars)
    BY <2>1, MoreDays DEF Promised, Dates
  <2>3. manifest.content \in Table /\ bars \in Table
    BY Typing DEF Manifest, SyncTypeOK
  <2>4. \A d \in Days : manifest.content[d] = bars[d]
    <3>1. \A d \in Dates(bars) : manifest.content[d] = bars[d]
      BY <2>2 DEF AloneInv
    <3>2. \A d \in Days : d \notin Dates(bars) => manifest.content[d] = NoBar /\ bars[d] = NoBar
      BY <2>2 DEF Dates
    <3> QED
      BY <3>1, <3>2
  <2> QED
    BY <2>3, <2>4 DEF Table
<1>4. ManifestIsStored
  <2>1. CASE manifest = NoManifest
    BY <2>1, EmptyBars DEF ManifestIsStored, NoManifest
  <2>2. CASE manifest # NoManifest
    BY <1>1, <2>2 DEF ManifestIsStored, Promised
  <2> QED
    BY <2>1, <2>2
<1> QED
  BY <1>2, <1>3, <1>4

LEMMA HistoryStep ==
    ASSUME SyncTypeOK, StoredInv, AloneInv, [SyncNext]_syncVars, Alone
    PROVE  \A d \in 1..manifest.last : bars'[d] = bars[d]
<1>1. ASSUME NEW p \in Syncers, Store(p) PROVE \A d \in 1..manifest.last : bars'[d] = bars[d]
  <2>1. proc[p].step = "store"
    BY <1>1 DEF Store
  <2>2. proc[p].read = manifest /\ UpTo(manifest.content, manifest.last)
    BY <2>1 DEF AloneInv
  <2> QED
    BY <1>1, <2>2, BehindManifest
<1>2. CASE UNCHANGED bars
  BY <1>2
<1> QED
  BY <1>1, <1>2 DEF SyncNext, SessionEnds, SessionBegins, Split, Begin, FetchBars, SyncCalendar,
     CalendarRefused, Count, SetManifest, Dies, syncVars, store

-----------------------------------------------------------------------------

LEMMA BarsInductive == SyncSpec => [](SyncTypeOK /\ StoredInv /\ AloneInv)
<1>1. SyncInit => SyncTypeOK
  <2> SUFFICES ASSUME SyncInit PROVE SyncTypeOK
    OBVIOUS
  <2>1. /\ bars \in Table /\ manifest \in Manifest /\ proc \in [Syncers -> Syncer]
        /\ used \in [Kinds -> 0..Quota] /\ day \in Days /\ 0 \in 0..MaxSplits /\ 0 \in 0..MaxCrashes
        /\ 0 \in 0..MaxDay
    BY EmptyBars, Bounds DEF SyncInit, Days
  <2> QED
    BY <2>1 DEF SyncInit, SyncTypeOK, Syncer, Manifest
<1>2. SyncInit => SyncTypeOK /\ StoredInv /\ AloneInv
  BY <1>1, StoredInit
<1>3. SyncTypeOK /\ StoredInv /\ AloneInv /\ [SyncNext]_syncVars => (SyncTypeOK /\ StoredInv /\ AloneInv)'
  BY BarsTypeStep, StoredStep, AloneStep
<1> QED
  BY <1>2, <1>3, PTL DEF SyncSpec

\* The stored days, the manifest and what every sync holds are of their types, for any number
\* of syncers, days, splits and crashes: cache_symbol never sets a manifest for no bar at all.
THEOREM BarsTypeCorrect == SyncSpec => []SyncTypeOK
BY BarsInductive, PTL

\* Whoever dies between two writes, and however many syncs overlap: the manifest never
\* promises a bar that is not stored, because upsert_bars comes first (pipeline.py:347, 499).
THEOREM PromisedIsStored == SyncSpec => []ManifestIsStored
<1>1. SyncTypeOK /\ StoredInv /\ AloneInv => ManifestIsStored
  BY GateFacts
<1> QED
  BY <1>1, BarsInductive, PTL

\* A gate that passes stands on a history without holes, for any window and any length of a
\* first fetch, as long as the store was never further behind than an increment reaches:
\* completed_bar_freshness compares the last day only (pipeline.py:554).
THEOREM GateIsWhole == SyncSpec => []HealthyIsWhole
<1>1. SyncTypeOK /\ StoredInv /\ AloneInv => HealthyIsWhole
  BY GateFacts
<1> QED
  BY <1>1, BarsInductive, PTL

\* With one sync at a time the recorded version is the stored content whenever the gate
\* passes, although _symbol_data_health compares the counts only (pipeline.py:501).
THEOREM VersionNamesContent == SyncSpec => []VersionIsContent
<1>1. SyncTypeOK /\ StoredInv /\ AloneInv => VersionIsContent
  BY GateFacts
<1> QED
  BY <1>1, BarsInductive, PTL

\* With one sync at a time no later sync rewrites a bar that was hashed: increment rows begin
\* after last_completed, and a first fetch happens while there is no manifest (pipeline.py:487).
THEOREM HashedStays == SyncSpec => HashedHistoryStays
<1>1. SyncTypeOK /\ StoredInv /\ AloneInv /\ [SyncNext]_syncVars =>
         [Alone => \A d \in 1..manifest.last : bars'[d] = bars[d]]_syncVars
  BY HistoryStep
<1> QED
  BY <1>1, BarsInductive, PTL DEF SyncSpec, HashedHistoryStays
=============================================================================
