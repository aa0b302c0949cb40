---------------------------- MODULE ResearchRun ----------------------------
(***************************************************************************)
(* `tc research` on one symbol (research/pipeline.py, research_symbol): a  *)
(* run chooses parameters on the development bars, opens the final holdout *)
(* at most once and moves the symbol's lifecycle.  Runs overlap (CLI and   *)
(* batch are separate processes), die between two statements, and `tc      *)
(* research cache` may append bars meanwhile.                              *)
(*                                                                         *)
(* The bars are append-only: a data set is the number of its bars, and the *)
(* sha256 in the manifest is the number it was computed over.  A walk      *)
(* forward and a backtest are functions of the bars and the grid, so the   *)
(* candidate of a holdout is its grid; their values are picked once.       *)
(* The archive and the subscription written last are left out.             *)
(***************************************************************************)
EXTENDS Naturals, FiniteSets

CONSTANTS Runs,          \* command processes
          Grids,         \* full, small, adx
          FirstBars,     \* bars cached at the start
          MaxBars,       \* bound: bars in the cache
          MaxStarts,     \* bound: runs that are started
          HoldoutBars,   \* max(10%, 126)
          Crashes,       \* whether processes may die
          CacheOverlaps, \* whether a cache command may run beside a research
          DevOutcomes,   \* what decide_lifecycle and the robustness gate may say
          TestOutcomes   \* what the holdout and the frozen statistics may say

ASSUME SizesAssumption == /\ FirstBars \in Nat /\ MaxBars \in Nat
                          /\ HoldoutBars \in Nat /\ MaxStarts \in Nat
                          /\ HoldoutBars < FirstBars /\ FirstBars =< MaxBars
ASSUME OutcomesAssumption ==
    /\ DevOutcomes \subseteq {"verified", "research_only", "degraded"}
    /\ TestOutcomes \subseteq {"pass", "thin", "small", "fail"}
    /\ Crashes \in BOOLEAN /\ CacheOverlaps \in BOOLEAN

VARIABLES bars, manifest, caching,   \* tables bars, data_manifest; a cache command
          lifecycle, version,        \* the symbol's row; its latest strategy_version
          holdout,                   \* research_holdout by id
          run,                       \* the local state of each process
          dev, test,                 \* the outcomes, once computed
          starts, looks, passes, failed   \* history

vars == <<bars, manifest, caching, lifecycle, version, holdout, run, dev, test,
          starts, looks, passes, failed>>

Data     == FirstBars .. MaxBars
Holdouts == Data \X Data             \* <<data_version, last bar>>
Evidence == Data \X Grids
None     == [status |-> "none"]

Statuses  == {"candidate", "backtesting", "research_only", "shadow", "verified",
              "degraded", "removed"}
Rows      == [status : Statuses, fails : Nat, evidence : Evidence \cup {<<>>}]
Results   == TestOutcomes \cup {"none"}
Sealings  == [status : {"SEALED", "OPENED", "CONSUMED", "CONTAMINATED"},
              owner : Grids, result : Results]
Versions  == [status : Statuses, data : Data, grid : Grids, bars : Data,
              accepted : BOOLEAN]

(* What a process knows at each point of research_symbol.                  *)
Idle    == [pc |-> "idle"]
Chosen  == [pc : {"filtered"}, grid : Grids]
Loaded  == [pc : {"loaded"}, grid : Grids, bars : Data]
Working == [pc : {"developed", "sealed", "opened", "measured", "decided", "judged"},
            grid : Grids, bars : Data, data : Data, decision : Statuses,
            accepted : BOOLEAN]
Writing == [pc : {"reread"}, row : Rows, decision : Statuses, grid : Grids,
            bars : Data, data : Data, accepted : BOOLEAN]
Written == [pc : {"recorded"}, status : Statuses, grid : Grids, bars : Data,
            data : Data, accepted : BOOLEAN]
Locals  == {Idle} \cup Chosen \cup Loaded \cup Working \cup Writing \cup Written

HoldoutId(r)  == <<run[r].data, run[r].bars>>
EvidenceOf(r) == <<run[r].data, run[r].grid>>
At(r, pc)     == run[r].pc = pc
Window(h)     == (h[2] - HoldoutBars + 1) .. h[2]

-----------------------------------------------------------------------------
(* The cache: incremental_update upserts what is newer than the manifest,  *)
(* then hashes everything and updates the manifest.                        *)
AppendBars ==
    /\ ~caching /\ (CacheOverlaps \/ \A r \in Runs : At(r, "idle"))
    /\ bars' \in {bars, bars + 1} \cap Data /\ bars' > manifest
    /\ caching' = TRUE
    /\ UNCHANGED <<manifest, lifecycle, version, holdout, run, dev, test,
                   starts, looks, passes, failed>>

UpdateManifest ==
    /\ caching /\ manifest' = bars /\ caching' = FALSE
    /\ UNCHANGED <<bars, lifecycle, version, holdout, run, dev, test,
                   starts, looks, passes, failed>>

-----------------------------------------------------------------------------
(* One run.                                                                *)
Goto(r, fields) == run' = [run EXCEPT ![r] = fields]
Kept            == UNCHANGED <<bars, manifest, caching>>
History         == UNCHANGED <<starts, looks, passes, failed>>

(* research_candidate: the prefilter accepts bars the manifest describes.  *)
Prefilter(r, g) ==
    /\ At(r, "idle") /\ starts < MaxStarts
    /\ manifest = bars /\ (CacheOverlaps \/ ~caching)
    /\ starts' = starts + 1
    /\ Goto(r, [pc |-> "filtered", grid |-> g])
    /\ Kept /\ UNCHANGED <<lifecycle, version, holdout, dev, test, looks, passes, failed>>

(* set_lifecycle(symbol, "backtesting") leaves the evidence chain alone.   *)
BugUntouched(row) == row
Backtesting(row) == [row EXCEPT !.status = "backtesting"]

Load(r) ==
    /\ At(r, "filtered")
    /\ lifecycle' = Backtesting(lifecycle)
    /\ Goto(r, [pc |-> "loaded", grid |-> run[r].grid, bars |-> bars])
    /\ Kept /\ History /\ UNCHANGED <<version, holdout, dev, test>>

(* The walk forward on the bars that were read; the manifest is read only  *)
(* when it is done.                                                        *)
Develop(r) ==
    LET d == <<run[r].bars, run[r].grid>> IN
    /\ At(r, "loaded")
    /\ \E o \in IF dev[d] = "unknown" THEN DevOutcomes ELSE {dev[d]} :
         /\ dev' = [dev EXCEPT ![d] = o]
         /\ Goto(r, [pc |-> "developed", grid |-> run[r].grid, bars |-> run[r].bars,
                     data |-> manifest, decision |-> o, accepted |-> FALSE])
    /\ Kept /\ History /\ UNCHANGED <<lifecycle, version, holdout, test>>

(* seal_research_holdout                                                   *)
BugSealedOver(h, g) ==
    IF holdout[h] = None THEN [status |-> "SEALED", owner |-> g, result |-> "none"]
    ELSE [holdout[h] EXCEPT !.owner = g]
Sealed(h, g) ==
    CASE holdout[h] = None -> [status |-> "SEALED", owner |-> g, result |-> "none"]
      [] holdout[h] # None /\ holdout[h].owner = g -> holdout[h]
      [] OTHER -> [holdout[h] EXCEPT !.status = "CONTAMINATED"]

Seal(r) ==
    /\ At(r, "developed")
    /\ holdout' = [holdout EXCEPT ![HoldoutId(r)] = Sealed(HoldoutId(r), run[r].grid)]
    /\ Goto(r, [run[r] EXCEPT !.pc =
                 IF run[r].decision = "verified" THEN "sealed" ELSE "decided"])
    /\ Kept /\ History /\ UNCHANGED <<lifecycle, version, dev, test>>

(* What research_symbol makes of a holdout result.                         *)
Verdict(o) ==
    CASE o = "pass"             -> "verified"
      [] o \in {"thin", "small"} -> "shadow"
      [] o = "fail"             -> "degraded"
Accepted(o) == o \in {"pass", "thin"}

(* open_research_holdout                                                   *)
BugMayReopen(h, g) == holdout[h].status \in {"SEALED", "OPENED"} /\ holdout[h].owner = g
MayOpen(h, g)    == holdout[h].status = "SEALED" /\ holdout[h].owner = g
MayReplay(h, g)  == holdout[h].status = "CONSUMED" /\ holdout[h].owner = g

Open(r) ==
    LET h == HoldoutId(r)  g == run[r].grid IN
    /\ At(r, "sealed")
    /\ \/ /\ MayOpen(h, g)
          /\ holdout' = [holdout EXCEPT ![h].status = "OPENED"]
          /\ Goto(r, [run[r] EXCEPT !.pc = "opened"])
       \/ /\ ~MayOpen(h, g) /\ MayReplay(h, g)
          /\ Goto(r, [run[r] EXCEPT !.pc = "decided",
                                    !.decision = Verdict(holdout[h].result),
                                    !.accepted = Accepted(holdout[h].result)])
          /\ UNCHANGED holdout
       \/ /\ ~MayOpen(h, g) /\ ~MayReplay(h, g)
          /\ holdout' = [holdout EXCEPT ![h].status = "CONTAMINATED"]
          /\ Goto(r, [run[r] EXCEPT !.pc = "decided", !.decision = "degraded"])
    /\ Kept /\ History /\ UNCHANGED <<lifecycle, version, dev, test>>

(* _evaluate_final_holdout: from here on the holdout has been seen.        *)
Evaluate(r) ==
    LET h == HoldoutId(r)  d == <<run[r].bars, run[r].grid>> IN
    /\ At(r, "opened")
    /\ \E o \in IF test[d] = "unknown" THEN TestOutcomes ELSE {test[d]} :
         /\ test' = [test EXCEPT ![d] = o]
         /\ passes' = IF o = "pass" THEN passes \cup {EvidenceOf(r)} ELSE passes
    /\ looks' = [looks EXCEPT ![h] = @ + 1]
    /\ Goto(r, [run[r] EXCEPT !.pc = "measured"])
    /\ Kept /\ UNCHANGED <<lifecycle, version, holdout, dev, starts, failed>>

(* consume_research_holdout; when it raises the run is over and the symbol *)
(* stays in "backtesting".                                                 *)
BugMayConsume(h, g) == holdout[h].owner = g
MayConsume(h, g) == holdout[h].status = "OPENED" /\ holdout[h].owner = g

Consume(r) ==
    LET h == HoldoutId(r)
        o == test[<<run[r].bars, run[r].grid>>] IN
    /\ At(r, "measured")
    /\ \/ /\ MayConsume(h, run[r].grid)
          /\ holdout' = [holdout EXCEPT ![h].status = "CONSUMED", ![h].result = o]
          /\ Goto(r, [run[r] EXCEPT !.pc = "decided", !.decision = Verdict(o),
                                    !.accepted = Accepted(o)])
       \/ /\ ~MayConsume(h, run[r].grid)
          /\ Goto(r, Idle) /\ UNCHANGED holdout
    /\ Kept /\ History /\ UNCHANGED <<lifecycle, version, dev, test>>

(* _next_lifecycle_status, on the row as it is then                        *)
Next_status(decision, row, e) ==
    CASE decision # "degraded"   -> decision
      [] decision = "degraded" /\ row.evidence = e ->
             IF row.status \in {"degraded", "removed"} THEN row.status ELSE "degraded"
      [] decision = "degraded" /\ row.evidence # e ->
             IF row.status = "removed" \/ row.fails >= 1 THEN "removed" ELSE "degraded"

Judge(r) ==
    /\ At(r, "decided")
    /\ Goto(r, [run[r] EXCEPT !.pc = "judged",
                 !.decision = Next_status(run[r].decision, lifecycle, EvidenceOf(r))])
    /\ Kept /\ History /\ UNCHANGED <<lifecycle, version, holdout, dev, test>>

(* set_lifecycle reads the row again, then updates it: no transaction.     *)
Reread(r) ==
    /\ At(r, "judged")
    /\ Goto(r, [pc |-> "reread", row |-> lifecycle, decision |-> run[r].decision,
                grid |-> run[r].grid, bars |-> run[r].bars, data |-> run[r].data,
                accepted |-> run[r].accepted])
    /\ Kept /\ History /\ UNCHANGED <<lifecycle, version, holdout, dev, test>>

Fails(row, status, e) ==
    IF status \in {"degraded", "removed"} /\ row.evidence # e
    THEN row.fails + 1 ELSE row.fails

Record(r) ==
    LET e == EvidenceOf(r)  s == run[r].decision IN
    /\ At(r, "reread")
    /\ lifecycle' = [status |-> s, fails |-> Fails(run[r].row, s, e), evidence |-> e]
    /\ failed' = IF s \in {"degraded", "removed"} THEN failed \cup {e} ELSE failed
    /\ Goto(r, [pc |-> "recorded", status |-> s, grid |-> run[r].grid,
                bars |-> run[r].bars, data |-> run[r].data, accepted |-> run[r].accepted])
    /\ Kept /\ UNCHANGED <<version, holdout, dev, test, starts, looks, passes>>

(* save_strategy_version                                                   *)
VersionOf(r) == [status |-> run[r].status, data |-> run[r].data, grid |-> run[r].grid,
                 bars |-> run[r].bars, accepted |-> run[r].accepted]

SaveVersion(r) ==
    /\ At(r, "recorded")
    /\ version' = VersionOf(r)
    /\ Goto(r, Idle)
    /\ Kept /\ History /\ UNCHANGED <<lifecycle, holdout, dev, test>>

(* A process dies; its connection holds no transaction between the steps.  *)
Crash(r) ==
    /\ Crashes /\ ~At(r, "idle") /\ Goto(r, Idle)
    /\ Kept /\ History /\ UNCHANGED <<lifecycle, version, holdout, dev, test>>

CrashCache ==
    /\ Crashes /\ caching /\ caching' = FALSE
    /\ UNCHANGED <<bars, manifest, lifecycle, version, holdout, run, dev, test>> /\ History

-----------------------------------------------------------------------------
Init ==
    /\ bars = FirstBars /\ manifest = FirstBars /\ caching = FALSE
    /\ lifecycle = [status |-> "candidate", fails |-> 0, evidence |-> <<>>]
    /\ version = None
    /\ holdout = [h \in Holdouts |-> None]
    /\ run = [r \in Runs |-> Idle]
    /\ dev = [d \in Data \X Grids |-> "unknown"] /\ test = dev
    /\ starts = 0 /\ looks = [h \in Holdouts |-> 0] /\ passes = {} /\ failed = {}

Step(r) == \/ \E g \in Grids : Prefilter(r, g)
           \/ Load(r) \/ Develop(r) \/ Seal(r) \/ Open(r) \/ Evaluate(r) \/ Consume(r)
           \/ Judge(r) \/ Reread(r) \/ Record(r) \/ SaveVersion(r) \/ Crash(r)

Next == AppendBars \/ UpdateManifest \/ CrashCache \/ \E r \in Runs : Step(r)

Spec == Init /\ [][Next]_vars
-----------------------------------------------------------------------------
TypeOK ==
    /\ bars \in Data /\ manifest \in Data /\ caching \in BOOLEAN
    /\ lifecycle \in Rows
    /\ version \in Versions \cup {None}
    /\ holdout \in [Holdouts -> Sealings \cup {None}]
    /\ run \in [Runs -> Locals]
    /\ dev \in [Data \X Grids -> DevOutcomes \cup {"unknown"}]
    /\ test \in [Data \X Grids -> TestOutcomes \cup {"unknown"}]
    /\ starts \in 0 .. MaxStarts /\ looks \in [Holdouts -> Nat]
    /\ passes \subseteq Evidence /\ failed \subseteq Evidence

(* However runs overlap or die, the bars of one holdout are evaluated at   *)
(* most once (open_research_holdout: one final evaluation).                *)
OneExposure == \A h \in Holdouts : looks[h] =< 1

(* A contaminated holdout is never anything else again, not even when the  *)
(* run that opened it before the contamination comes back to consume it.   *)
ContaminatedStays ==
    [][\A h \in Holdouts : holdout[h] # None /\ holdout[h].status = "CONTAMINATED"
                              => holdout'[h] = holdout[h]]_vars

(* A symbol is verified only on evidence whose own holdout was evaluated   *)
(* and passed, in this run or in the one whose result it replays.          *)
VerifiedWasTested == lifecycle.status = "verified" => lifecycle.evidence \in passes

(* One run at a time: the holdout behind a verified symbol is consumed, by *)
(* that candidate, and not contaminated.                                   *)
VerifiedIsClean ==
    lifecycle.status = "verified" =>
        \E b \in Data : LET h == <<lifecycle.evidence[1], b>> IN
            /\ holdout[h] # None
            /\ holdout[h].status = "CONSUMED" /\ holdout[h].owner = lifecycle.evidence[2]

(* set_lifecycle: "fail_count only grows".                                 *)
FailsNeverDrop == [][lifecycle'.fails >= lifecycle.fails]_vars

(* set_lifecycle: the same evidence counts once, so a symbol is removed    *)
(* only after two different evidences failed.                              *)
RemovedByTwo == lifecycle.status = "removed" => Cardinality(failed) >= 2

(* _next_lifecycle_status: running the same evidence again keeps the       *)
(* failed state.  The latest version holds what the run before this left.  *)
RerunKeepsVerdict ==
    [][(/\ version # None /\ version.status = "removed"
        /\ lifecycle'.evidence = <<version.data, version.grid>>)
          => lifecycle'.status # "degraded"]_vars

(* What collect_signals trades on, lifecycle and latest version, is one    *)
(* and the same candidate (save_strategy_version: the plan can be traced). *)
(* Between the two writes of a live run the gate is ahead of the version.  *)
Traceable ==
    /\ lifecycle.status = "verified" /\ version # None
    /\ version.accepted /\ \A r \in Runs : ~At(r, "recorded")
    => <<version.data, version.grid>> = lifecycle.evidence

(* The data version a strategy version names is the data it was made from. *)
VersionOfItsData == version # None => version.data = version.bars

(* The last bars are reserved for one final holdout: no two evaluated      *)
(* holdouts share a bar.                                                   *)
ReservedOnce ==
    \A h, k \in Holdouts : h # k /\ looks[h] > 0 /\ looks[k] > 0
                              => Window(h) \cap Window(k) = {}
=============================================================================
