--------------------------------- MODULE DataSync -------------------------------
(***************************************************************************)
(* The daily bars of a symbol in the Core store (research/pipeline.py):    *)
(* cache_symbol fetches a long history once and appends the newest bars    *)
(* from then on, under the API quota; the manifest says what is stored,    *)
(* and the data gate of research and production compares the two.  Every   *)
(* write commits on its own; a sync may die between any two of them, and   *)
(* the command may run twice at the same time.                             *)
(***************************************************************************)
EXTENDS Integers, FiniteSets

CONSTANTS
    Syncers,        \* processes that may run cache_symbol
    Full,           \* bars of a first fetch
    Window,         \* bars of an increment (60)
    MinBars,        \* MIN_RESEARCH_BARS
    Lag,            \* sessions the market may be behind: 1 for US, 0 for HK and CN
    Quota,          \* calls of a kind the daily window allows
    FirstDay, MaxDay, MaxSplits, MaxCrashes     \* bounds

ASSUME DataSyncAssumption ==
    /\ Full \in Nat /\ Window \in 1..Full /\ MinBars \in 1..Full
    /\ Lag \in {0, 1} /\ Quota \in Nat
    /\ FirstDay \in Nat \ {0} /\ MaxDay \in Nat /\ FirstDay <= MaxDay
    /\ MaxSplits \in Nat /\ MaxCrashes \in Nat
    /\ IsFiniteSet(Syncers)

VARIABLES
    day, inSession, basis,  \* the last session that began, whether it goes on, splits so far
    bars,       \* the bar stored for a session
    manifest,   \* data_manifest: last_completed, bar_count and the content hashed
    calendar,   \* the last day trading_calendar covers
    used,       \* api_quota_usage of today's window, per kind of call
    workers,    \* the processes in use
    proc,       \* per process: its step, the day it began, the manifest it read, the rows it got
                \* and the last of those it stored
    late,       \* some day the store was further behind than an increment reaches
    crashes

syncVars == <<day, inSession, basis, bars, manifest, calendar, used, workers, proc, late, crashes>>
market == <<day, inSession, basis>>
store == <<bars, manifest, calendar>>

Days == 1..MaxDay
Kinds == {"kline", "calendar"}
Row == [finished : BOOLEAN, basis : 0..MaxSplits]
NoBar == [finished |-> FALSE, basis |-> -1]
Table == [Days -> Row \cup {NoBar}]
Empty == [d \in Days |-> NoBar]
NoManifest == [last |-> 0, count |-> 0, content |-> Empty]

Dates(t) == {d \in Days : t[d] # NoBar}
Last(t) == CHOOSE d \in Dates(t) : \A e \in Dates(t) : e <= d

Idle == [step |-> "idle", since |-> 0, read |-> NoManifest, rows |-> Empty, last |-> 0]

\* Types of the store and of the processes.
SyncTypeOK ==
    /\ day \in Days /\ inSession \in BOOLEAN /\ basis \in 0..MaxSplits
    /\ bars \in Table
    /\ manifest \in [last : 0..MaxDay, count : 0..MaxDay, content : Table]
    /\ calendar \in 0..MaxDay
    /\ used \in [Kinds -> 0..Quota]
    /\ workers \in SUBSET Syncers \ {{}}
    /\ proc \in [Syncers -> [step : {"idle", "fetch", "calendar", "store", "count", "manifest"},
                           since : 0..MaxDay,
                           read : [last : 0..MaxDay, count : 0..MaxDay, content : Table],
                           rows : Table, last : 0..MaxDay]]
    /\ late \in BOOLEAN /\ crashes \in 0..MaxCrashes

SyncInit ==
    /\ day = FirstDay /\ inSession = TRUE /\ basis = 0
    /\ bars = Empty /\ manifest = NoManifest /\ calendar = 0
    /\ used = [k \in Kinds |-> 0]
    /\ workers \in SUBSET Syncers \ {{}}
    /\ proc = [p \in Syncers |-> Idle]
    /\ late = FALSE /\ crashes = 0

-----------------------------------------------------------------------------
(* The market and its provider.                                            *)

SessionEnds ==
    /\ inSession /\ inSession' = FALSE
    /\ UNCHANGED <<day, basis, store, used, workers, proc, late, crashes>>
\* The quota window is a UTC day.  No sync goes on for more than one night.
SessionBegins ==
    /\ ~inSession /\ day < MaxDay
    /\ \A p \in Syncers : proc[p] = Idle \/ proc[p].since = day
    /\ day' = day + 1 /\ inSession' = TRUE
    /\ used' = [k \in Kinds |-> 0]
    /\ late' = (late \/ (Dates(bars) # {} /\ day + 1 - Last(bars) > Window))
    /\ UNCHANGED <<basis, store, workers, proc, crashes>>
Split ==
    /\ ~inSession /\ basis < MaxSplits /\ basis' = basis + 1
    /\ UNCHANGED <<day, inSession, store, used, workers, proc, late, crashes>>

\* candlesticks(count): the newest sessions, the one in progress among them, all
\* of them adjusted to today's basis.
BugCandlesticks(count) ==
    [d \in Days |-> IF d \in (day - count + 1)..day /\ ~(count = Full /\ d = day - 1)
                    THEN [finished |-> (d < day \/ ~inSession), basis |-> basis] ELSE NoBar]
Candlesticks(count) ==
    [d \in Days |-> IF d \in (day - count + 1)..day
                    THEN [finished |-> (d < day \/ ~inSession), basis |-> basis] ELSE NoBar]

-----------------------------------------------------------------------------
(* cache_symbol.                                                           *)

\* _manifest_complete.
Complete(m) == m # NoManifest /\ m.count >= MinBars

\* _reserve_longbridge: the reservation and its refusal are one transaction.
BugReserve(k) == used[k] <= Quota /\ used' = [used EXCEPT ![k] = @ + 1]
Reserve(k) == used[k] < Quota /\ used' = [used EXCEPT ![k] = @ + 1]
Refused(k) == used[k] >= Quota

\* The manifest decides between a first fetch and an increment; a call is reserved.
Begin(p) ==
    /\ p \in workers /\ proc[p] = Idle
    /\ Reserve("kline")
    /\ proc' = [proc EXCEPT ![p] = [Idle EXCEPT !.step = "fetch", !.since = day, !.read = manifest]]
    /\ UNCHANGED <<market, store, workers, late, crashes>>

FetchBars(p) ==
    /\ proc[p].step = "fetch"
    /\ LET rows == Candlesticks(IF Complete(proc[p].read) THEN Window ELSE Full)
           enough == Complete(proc[p].read) \/ Cardinality(Dates(rows)) >= MinBars
       IN  proc' = [proc EXCEPT ![p] =
              IF enough THEN [proc[p] EXCEPT !.step = "calendar", !.rows = rows] ELSE Idle]
    /\ UNCHANGED <<market, store, used, workers, late, crashes>>

\* _sync_market_calendar; a refused reservation raises out of the sync.
SyncCalendar(p) ==
    /\ proc[p].step = "calendar"
    /\ Reserve("calendar")
    /\ calendar' = day
    /\ proc' = [proc EXCEPT ![p].step = "store"]
    /\ UNCHANGED <<market, bars, manifest, workers, late, crashes>>
CalendarRefused(p) ==
    /\ proc[p].step = "calendar" /\ Refused("calendar")
    /\ proc' = [proc EXCEPT ![p] = Idle]
    /\ UNCHANGED <<market, store, used, workers, late, crashes>>

\* upsert_bars: all rows of a first fetch, those after last_completed of an increment.
New(read, rows) == {d \in Dates(rows) : Complete(read) => d > read.last}

Store(p) ==
    LET new == New(proc[p].read, proc[p].rows)
        last == Last(proc[p].rows)
    IN  /\ proc[p].step = "store"
        /\ bars' = [d \in Days |-> IF d \in new THEN proc[p].rows[d] ELSE bars[d]]
        /\ proc' = [proc EXCEPT ![p] =
              IF new = {} THEN Idle
              ELSE IF Complete(proc[p].read) THEN [proc[p] EXCEPT !.step = "count", !.rows = Empty, !.last = last]
              ELSE [proc[p] EXCEPT !.step = "manifest", !.last = last]]
        /\ UNCHANGED <<market, manifest, calendar, used, workers, late, crashes>>

\* An increment counts and hashes all that is stored now.
Count(p) ==
    /\ proc[p].step = "count"
    /\ proc' = [proc EXCEPT ![p].step = "manifest", ![p].rows = bars]
    /\ UNCHANGED <<market, store, used, workers, late, crashes>>

\* set_manifest and update_manifest_increment: the last day is that of the bars this
\* sync stored, whoever else has stored later ones.
SetManifest(p) ==
    LET rows == proc[p].rows
    IN  /\ proc[p].step = "manifest"
        /\ manifest' = [last |-> proc[p].last, count |-> Cardinality(Dates(rows)), content |-> rows]
        /\ proc' = [proc EXCEPT ![p] = Idle]
        /\ UNCHANGED <<market, bars, calendar, used, workers, late, crashes>>

\* The process dies, or the provider raises.
Dies(p) ==
    /\ proc[p] # Idle /\ crashes < MaxCrashes
    /\ crashes' = crashes + 1
    /\ proc' = [proc EXCEPT ![p] = Idle]
    /\ UNCHANGED <<market, store, used, workers, late>>

SyncNext ==
    \/ SessionEnds \/ SessionBegins \/ Split
    \/ \E p \in Syncers :
          \/ Begin(p) \/ FetchBars(p) \/ SyncCalendar(p) \/ CalendarRefused(p)
          \/ Store(p) \/ Count(p) \/ SetManifest(p) \/ Dies(p)

SyncSpec == SyncInit /\ [][SyncNext]_syncVars

-----------------------------------------------------------------------------

\* completed_bar_freshness: the calendar covers today, and the newest bar is that of
\* the last session but Lag.
Fresh == calendar >= day /\ Last(bars) >= day - Lag

\* _symbol_data_health of a symbol with known metadata: SYNCED.
BugHealthy == manifest # NoManifest /\ Fresh
Healthy == manifest # NoManifest /\ manifest.count = Cardinality(Dates(bars)) /\ Fresh

Alone == Cardinality(workers) = 1

\* The manifest never promises a bar that is not stored: bars are written first,
\* whoever dies in between and whoever else writes (pipeline.py:347, 499).
ManifestIsStored ==
    /\ Dates(manifest.content) \subseteq Dates(bars)
    /\ manifest # NoManifest => manifest.last \in Dates(bars)

\* A gate that passes stands on a history without holes, as long as the store was
\* never further behind than an increment reaches; nothing but the number of bars
\* is compared, so the gate itself would not see one (pipeline.py:554).
HealthyIsWhole ==
    Healthy /\ ~late => Dates(bars) = (CHOOSE d \in Dates(bars) : d - 1 \notin Dates(bars))..Last(bars)

\* A gate that passes means the recorded version is the stored content, although
\* only the counts are compared, if one sync runs at a time (pipeline.py:501).
VersionIsContent == Alone /\ Healthy => manifest.content = bars

\* What a research has hashed is never rewritten by a later sync: bars up to
\* last_completed stay as they are, if one sync runs at a time (pipeline.py:487).
HashedHistoryStays ==
    [][Alone => \A d \in 1..manifest.last : bars'[d] = bars[d]]_syncVars

\* From docs/usage.md:133, "只用完成日线": what the gate lets through are finished
\* bars, those of ended sessions at least.
GatePassesFinishedBars ==
    Healthy => \A d \in Dates(bars) : d < day => bars[d].finished

\* From longbridge_client.py:642, "前复权保证跨拆股/合股的价格连续": all bars the
\* gate lets through are adjusted to one basis.
GatePassesOneBasis ==
    Healthy => \A d, e \in Dates(bars) : bars[d].basis = bars[e].basis
=============================================================================
