-------------------------- MODULE ResearchRunProofs --------------------------
(***************************************************************************)
(* For any number of runs, grids and bars: the types, one exposure of each *)
(* holdout and contamination for good.                                     *)
(***************************************************************************)
EXTENDS MCResearchRun, FiniteSetTheorems, TLAPS

(* An outcome is known once it has been computed.                          *)
Known ==
    /\ \A r \in Runs : At(r, "measured") => test[<<run[r].bars, run[r].grid>>] \in TestOutcomes
    /\ \A h \in Holdouts : holdout[h] # None /\ holdout[h].status = "CONSUMED"
                              => holdout[h].result \in TestOutcomes

Opener(r, h) == At(r, "opened") /\ HoldoutId(r) = h

(* A holdout that was not opened has not been seen and nobody is about to  *)
(* look; whoever is about to look is alone and the first.                  *)
Unseen == \A h \in Holdouts :
    holdout[h] = None \/ holdout[h].status = "SEALED"
        => looks[h] = 0 /\ \A r \in Runs : ~Opener(r, h)
FirstLook == \A r \in Runs : \A h \in Holdouts : Opener(r, h) => looks[h] = 0
OneOpener == \A r, s \in Runs : \A h \in Holdouts : Opener(r, h) /\ Opener(s, h) => r = s

(* open and consume are only called on a row that is there.                *)
Present == \A r \in Runs : \A p \in {"sealed", "opened", "measured"} :
               At(r, p) => holdout[HoldoutId(r)] # None

IInv == TypeOK /\ Known /\ Present /\ Unseen /\ FirstLook /\ OneOpener /\ OneExposure

USE SizesAssumption, OutcomesAssumption

(* What a place in research_symbol says about the local record.            *)
LEMMA Places ==
    ASSUME TypeOK, NEW r \in Runs
    PROVE  /\ At(r, "idle") => run[r] = Idle
           /\ At(r, "filtered") => run[r] \in Chosen
           /\ At(r, "loaded") => run[r] \in Loaded
           /\ \A p \in {"developed", "sealed", "opened", "measured", "decided", "judged"} :
                At(r, p) => run[r] \in Working
           /\ At(r, "reread") => run[r] \in Writing
           /\ At(r, "recorded") => run[r] \in Written
  BY DEF TypeOK, Locals, At, Idle, Chosen, Loaded, Working, Writing, Written

(* A step that takes one process somewhere else than to the holdout.       *)
LEMMA Elsewhere ==
    ASSUME IInv, NEW r \in Runs, NEW l, run' = [run EXCEPT ![r] = l],
           l.pc \notin {"sealed", "opened", "measured"},
           UNCHANGED <<holdout, looks, test>>
    PROVE  Known' /\ Present' /\ Unseen' /\ FirstLook' /\ OneOpener' /\ OneExposure'
<1>1. run \in [Runs -> Locals]
  BY DEF IInv, TypeOK
<1>2. \A s \in Runs : run'[s] = IF s = r THEN l ELSE run[s]
  BY <1>1
<1>3. \A s \in Runs, h \in Holdouts : Opener(s, h)' => Opener(s, h)
  BY <1>2 DEF Opener, At, HoldoutId
<1>4. Known' /\ Present'
  BY <1>2 DEF IInv, Known, Present, At, HoldoutId
<1>5. Unseen'
  BY <1>3 DEF IInv, Unseen
<1>6. FirstLook' /\ OneOpener' /\ OneExposure'
  BY <1>3 DEF IInv, FirstLook, OneOpener, OneExposure
<1> QED BY <1>4, <1>5, <1>6

LEMMA Initially == Init => IInv
<1> SUFFICES ASSUME Init PROVE IInv
  OBVIOUS
<1>1. FirstBars \in Data
  BY DEF Data
<1>2. TypeOK
  <2>1. lifecycle \in Rows
    BY DEF Init, Rows, Statuses
  <2>2. run \in [Runs -> Locals]
    BY DEF Init, Locals
  <2>3. holdout \in [Holdouts -> Sealings \cup {None}]
    BY DEF Init
  <2>4. /\ dev \in [Data \X Grids -> DevOutcomes \cup {"unknown"}]
        /\ test \in [Data \X Grids -> TestOutcomes \cup {"unknown"}]
    BY DEF Init
  <2>5. starts \in 0 .. MaxStarts /\ looks \in [Holdouts -> Nat]
    BY DEF Init
  <2> QED BY <1>1, <2>1, <2>2, <2>3, <2>4, <2>5 DEF Init, TypeOK
<1>3. \A r \in Runs : run[r].pc = "idle"
  BY DEF Init, Idle
<1> QED BY <1>2, <1>3 DEF Init, IInv, Known, Present, Unseen, FirstLook, OneOpener, OneExposure,
                          Opener, At

-----------------------------------------------------------------------------
(* A step of r on its own holdout that was there: what the others know     *)
(* stays true.                                                             *)
LEMMA OwnHoldout ==
    ASSUME IInv, NEW r \in Runs, run[r] \in Working, HoldoutId(r) \in Holdouts,
           NEW l \in Working, run' = [run EXCEPT ![r] = l],
           l.bars = run[r].bars, l.data = run[r].data,
           NEW row \in Sealings, holdout' = [holdout EXCEPT ![HoldoutId(r)] = row]
    PROVE  /\ Present'
           /\ run' \in [Runs -> Locals] /\ holdout' \in [Holdouts -> Sealings \cup {None}]
           /\ holdout'[HoldoutId(r)] = row
           /\ \A k \in Holdouts : k # HoldoutId(r) => holdout'[k] = holdout[k]
           /\ \A s \in Runs : run'[s] = IF s = r THEN l ELSE run[s]
           /\ \A s \in Runs, k \in Holdouts : Opener(s, k)' =>
                IF s = r THEN k = HoldoutId(r) /\ l.pc = "opened" ELSE Opener(s, k)
<1>1. run \in [Runs -> Locals] /\ holdout \in [Holdouts -> Sealings \cup {None}]
  BY DEF IInv, TypeOK
<1>2. \A s \in Runs : run'[s] = IF s = r THEN l ELSE run[s]
  BY <1>1
<1>3. /\ holdout'[HoldoutId(r)] = row /\ row # None
      /\ \A k \in Holdouts : k # HoldoutId(r) => holdout'[k] = holdout[k]
  BY <1>1 DEF Sealings, None
<1>4. \A s \in Runs : HoldoutId(s)' = HoldoutId(s)
  BY <1>2 DEF HoldoutId
<1>5. ASSUME NEW s \in Runs, NEW p \in {"sealed", "opened", "measured"}, At(s, p)'
      PROVE  holdout'[HoldoutId(s)'] # None
  <2>1. CASE HoldoutId(s) = HoldoutId(r)
    BY <2>1, <1>3, <1>4
  <2>2. CASE HoldoutId(s) # HoldoutId(r)
    <3>1. At(s, p)
      BY <2>2, <1>5, <1>2 DEF At
    <3>2. HoldoutId(s) \in Holdouts
      BY <3>1, Places DEF IInv, HoldoutId, Holdouts, Working
    <3> QED BY <2>2, <3>1, <3>2, <1>3, <1>4 DEF IInv, Present
  <2> QED BY <2>1, <2>2
<1>6. Present'
  BY <1>5 DEF Present
<1>7. run' \in [Runs -> Locals] /\ holdout' \in [Holdouts -> Sealings \cup {None}]
  BY <1>1 DEF Locals
<1> QED BY <1>2, <1>3, <1>4, <1>6, <1>7 DEF Opener, At

-----------------------------------------------------------------------------
(* The steps, one lemma each where the holdout is concerned.               *)
LEMMA CacheStep ==
    ASSUME IInv, AppendBars \/ UpdateManifest \/ CrashCache PROVE IInv'
<1>1. UNCHANGED <<lifecycle, version, run, holdout, dev, test, starts, looks, passes, failed>>
  BY DEF AppendBars, UpdateManifest, CrashCache, History
<1>2. bars' \in Data /\ manifest' \in Data /\ caching' \in BOOLEAN
  BY DEF AppendBars, UpdateManifest, CrashCache, IInv, TypeOK
<1>3. TypeOK'
  BY <1>1, <1>2 DEF IInv, TypeOK
<1> QED BY <1>1, <1>3 DEF IInv, Known, Present, Unseen, FirstLook, OneOpener, OneExposure,
                          Opener, At, HoldoutId

LEMMA PrefilterStep ==
    ASSUME IInv, NEW r \in Runs, NEW g \in Grids, Prefilter(r, g) PROVE IInv'
<1>1. [pc |-> "filtered", grid |-> g] \in Locals
  BY DEF Locals, Chosen
<1>2. TypeOK'
  BY <1>1 DEF IInv, TypeOK, Prefilter, Goto, Kept
<1>3. Known' /\ Present' /\ Unseen' /\ FirstLook' /\ OneOpener' /\ OneExposure'
  BY Elsewhere DEF Prefilter, Goto
<1> QED BY <1>2, <1>3 DEF IInv

LEMMA LoadStep ==
    ASSUME IInv, NEW r \in Runs, Load(r) PROVE IInv'
<1>1. run[r] \in Chosen
  BY Places DEF IInv, Load
<1>2. [pc |-> "loaded", grid |-> run[r].grid, bars |-> bars] \in Locals
  BY <1>1 DEF Locals, Chosen, Loaded, IInv, TypeOK
<1>3. lifecycle' \in Rows
  BY DEF Load, Backtesting, IInv, TypeOK, Rows, Statuses
<1>4. TypeOK'
  BY <1>2, <1>3 DEF IInv, TypeOK, Load, Goto, Kept, History
<1>5. Known' /\ Present' /\ Unseen' /\ FirstLook' /\ OneOpener' /\ OneExposure'
  BY Elsewhere DEF Load, Goto, History
<1> QED BY <1>4, <1>5 DEF IInv

LEMMA DevelopStep ==
    ASSUME IInv, NEW r \in Runs, Develop(r) PROVE IInv'
<1> DEFINE d == <<run[r].bars, run[r].grid>>
<1>1. run[r] \in Loaded
  BY Places DEF IInv, Develop
<1>2. d \in Data \X Grids
  BY <1>1 DEF Loaded
<1>3. PICK o \in IF dev[d] = "unknown" THEN DevOutcomes ELSE {dev[d]} :
         /\ dev' = [dev EXCEPT ![d] = o]
         /\ Goto(r, [pc |-> "developed", grid |-> run[r].grid, bars |-> run[r].bars,
                     data |-> manifest, decision |-> o, accepted |-> FALSE])
  BY DEF Develop
<1>4. o \in DevOutcomes
  BY <1>2, <1>3 DEF IInv, TypeOK
<1>5. [pc |-> "developed", grid |-> run[r].grid, bars |-> run[r].bars,
       data |-> manifest, decision |-> o, accepted |-> FALSE] \in Locals
  BY <1>1, <1>4 DEF Locals, Loaded, Working, Statuses, IInv, TypeOK
<1>6. TypeOK'
  BY <1>2, <1>3, <1>4, <1>5 DEF IInv, TypeOK, Develop, Goto, Kept, History
<1>7. Known' /\ Present' /\ Unseen' /\ FirstLook' /\ OneOpener' /\ OneExposure'
  BY <1>3, Elsewhere DEF Develop, Goto, History
<1> QED BY <1>6, <1>7 DEF IInv

(* Sealing another candidate's holdout, or one's own again, opens nothing. *)
LEMMA SealStep ==
    ASSUME IInv, NEW r \in Runs, Seal(r) PROVE IInv'
<1> DEFINE h == HoldoutId(r)
           l == [run[r] EXCEPT !.pc = IF run[r].decision = "verified" THEN "sealed" ELSE "decided"]
           row == Sealed(h, run[r].grid)
<1>1. run[r] \in Working
  BY Places DEF IInv, Seal
<1>2. h \in Holdouts
  BY <1>1 DEF HoldoutId, Holdouts, Working
<1>3. l \in Working /\ l.pc \in {"sealed", "decided"} /\ l.bars = run[r].bars /\ l.data = run[r].data
  BY <1>1 DEF Working
<1>4. holdout[h] \in Sealings \cup {None}
  BY <1>2 DEF IInv, TypeOK
<1>5. /\ row \in Sealings
      /\ row.status = "SEALED" => holdout[h] = None \/ holdout[h].status = "SEALED"
      /\ row.status = "CONSUMED" => holdout[h] = row
  BY <1>1, <1>4 DEF Sealed, Sealings, Results, Working, None
<1>6. run' = [run EXCEPT ![r] = l] /\ holdout' = [holdout EXCEPT ![h] = row]
  BY DEF Seal, Goto
<1>7. UNCHANGED <<bars, manifest, caching, starts, looks, passes, failed,
                  lifecycle, version, dev, test>>
  BY DEF Seal, Kept, History
<1> HIDE DEF h, l, row
<1>8. /\ Present'
      /\ run' \in [Runs -> Locals] /\ holdout' \in [Holdouts -> Sealings \cup {None}]
      /\ holdout'[h] = row
      /\ \A k \in Holdouts : k # h => holdout'[k] = holdout[k]
      /\ \A s \in Runs : run'[s] = IF s = r THEN l ELSE run[s]
      /\ \A s \in Runs, k \in Holdouts : Opener(s, k)' =>
           IF s = r THEN k = h /\ l.pc = "opened" ELSE Opener(s, k)
  BY <1>1, <1>2, <1>3, <1>5, <1>6, OwnHoldout DEF h
<1>9. \A s \in Runs, k \in Holdouts : Opener(s, k)' => Opener(s, k)
  BY <1>3, <1>8
<1>10. \A k \in Holdouts : holdout'[k] = None \/ holdout'[k].status = "SEALED"
                              => holdout[k] = None \/ holdout[k].status = "SEALED"
  BY <1>5, <1>8 DEF Sealings, None
<1>11. Unseen' /\ FirstLook' /\ OneOpener' /\ OneExposure'
  BY <1>7, <1>9, <1>10 DEF IInv, Unseen, FirstLook, OneOpener, OneExposure
<1>12. Known'
  BY <1>3, <1>5, <1>7, <1>8 DEF IInv, Known, At
<1>13. TypeOK'
  BY <1>7, <1>8 DEF IInv, TypeOK
<1> QED BY <1>8, <1>11, <1>12, <1>13 DEF IInv

LEMMA VerdictType == ASSUME NEW o \in TestOutcomes
                     PROVE Verdict(o) \in Statuses /\ Accepted(o) \in BOOLEAN
  BY DEF Verdict, Accepted, Statuses

(* Only the one who finds the holdout sealed is sent to look at it.        *)
LEMMA OpenStep ==
    ASSUME IInv, NEW r \in Runs, Open(r) PROVE IInv'
<1> DEFINE h == HoldoutId(r)
           g == run[r].grid
<1>1. run[r] \in Working /\ run[r].pc = "sealed"
  BY Places DEF IInv, Open, At
<1>2. h \in Holdouts
  BY <1>1 DEF HoldoutId, Holdouts, Working
<1>3. run \in [Runs -> Locals] /\ holdout \in [Holdouts -> Sealings \cup {None}]
  BY DEF IInv, TypeOK
<1>4. holdout[h] \in Sealings
  BY <1>2, <1>3 DEF IInv, Present, Open
<1>5. UNCHANGED <<bars, manifest, caching, starts, looks, passes, failed,
                  lifecycle, version, dev, test>>
  BY DEF Open, Kept, History
<1>6. ASSUME MayOpen(h, g), holdout' = [holdout EXCEPT ![h].status = "OPENED"],
             Goto(r, [run[r] EXCEPT !.pc = "opened"])
      PROVE  IInv'
  <2> DEFINE l == [run[r] EXCEPT !.pc = "opened"]
             row == [holdout[h] EXCEPT !.status = "OPENED"]
  <2>1. row \in Sealings /\ row.status = "OPENED"
    BY <1>4 DEF Sealings
  <2>2. l \in Working /\ l.pc = "opened" /\ l.bars = run[r].bars /\ l.data = run[r].data
    BY <1>1 DEF Working
  <2>3. run' = [run EXCEPT ![r] = l] /\ holdout' = [holdout EXCEPT ![h] = row]
    BY <1>6, <1>2, <1>3 DEF Goto
  <2>4. looks[h] = 0 /\ \A s \in Runs : ~Opener(s, h)
    BY <1>6, <1>2 DEF IInv, Unseen, MayOpen
  <2> HIDE DEF h, l, row
  <2>5. /\ Present'
        /\ run' \in [Runs -> Locals] /\ holdout' \in [Holdouts -> Sealings \cup {None}]
        /\ holdout'[h] = row
        /\ \A k \in Holdouts : k # h => holdout'[k] = holdout[k]
        /\ \A s \in Runs : run'[s] = IF s = r THEN l ELSE run[s]
        /\ \A s \in Runs, k \in Holdouts : Opener(s, k)' =>
             IF s = r THEN k = h /\ l.pc = "opened" ELSE Opener(s, k)
    BY <1>1, <1>2, <2>1, <2>2, <2>3, OwnHoldout DEF h
  <2>6. TypeOK'
    BY <1>5, <2>5 DEF IInv, TypeOK
  <2>7. row # None
    BY <2>1 DEF Sealings, None
  <2>8. Unseen'
    BY <1>5, <2>1, <2>5, <2>7 DEF IInv, Unseen
  <2>9. FirstLook' /\ OneOpener' /\ OneExposure'
    BY <1>5, <2>4, <2>5 DEF IInv, FirstLook, OneOpener, OneExposure
  <2>10. Known'
    BY <1>5, <2>1, <2>2, <2>5 DEF IInv, Known, At
  <2> QED BY <2>5, <2>6, <2>8, <2>9, <2>10 DEF IInv
<1>7. ASSUME MayReplay(h, g),
             Goto(r, [run[r] EXCEPT !.pc = "decided",
                                    !.decision = Verdict(holdout[h].result),
                                    !.accepted = Accepted(holdout[h].result)]),
             UNCHANGED holdout
      PROVE  IInv'
  <2>1. holdout[h].result \in TestOutcomes
    BY <1>7, <1>2, <1>4 DEF MayReplay, IInv, Known, None, Sealings
  <2> DEFINE l == [run[r] EXCEPT !.pc = "decided", !.decision = Verdict(holdout[h].result),
                                 !.accepted = Accepted(holdout[h].result)]
  <2>2. l \in Locals /\ l.pc = "decided"
    BY <2>1, <1>1, VerdictType DEF Locals, Working
  <2>3. TypeOK'
    BY <1>5, <1>7, <2>2 DEF IInv, TypeOK, Goto
  <2>4. Known' /\ Present' /\ Unseen' /\ FirstLook' /\ OneOpener' /\ OneExposure'
    BY <1>5, <1>7, <2>2, Elsewhere DEF Goto
  <2> QED BY <2>3, <2>4 DEF IInv
<1>8. ASSUME holdout' = [holdout EXCEPT ![h].status = "CONTAMINATED"],
             Goto(r, [run[r] EXCEPT !.pc = "decided", !.decision = "degraded"])
      PROVE  IInv'
  <2> DEFINE l == [run[r] EXCEPT !.pc = "decided", !.decision = "degraded"]
             row == [holdout[h] EXCEPT !.status = "CONTAMINATED"]
  <2>1. row \in Sealings /\ row.status = "CONTAMINATED"
    BY <1>4 DEF Sealings
  <2>2. l \in Working /\ l.pc = "decided" /\ l.bars = run[r].bars /\ l.data = run[r].data
    BY <1>1 DEF Working, Statuses
  <2>3. run' = [run EXCEPT ![r] = l] /\ holdout' = [holdout EXCEPT ![h] = row]
    BY <1>8, <1>2, <1>3 DEF Goto
  <2> HIDE DEF h, l, row
  <2>4. /\ Present'
        /\ run' \in [Runs -> Locals] /\ holdout' \in [Holdouts -> Sealings \cup {None}]
        /\ holdout'[h] = row
        /\ \A k \in Holdouts : k # h => holdout'[k] = holdout[k]
        /\ \A s \in Runs : run'[s] = IF s = r THEN l ELSE run[s]
        /\ \A s \in Runs, k \in Holdouts : Opener(s, k)' =>
             IF s = r THEN k = h /\ l.pc = "opened" ELSE Opener(s, k)
    BY <1>1, <1>2, <2>1, <2>2, <2>3, OwnHoldout DEF h
  <2>5. TypeOK'
    BY <1>5, <2>4 DEF IInv, TypeOK
  <2>6. row # None
    BY <2>1 DEF Sealings, None
  <2>7. \A s \in Runs, k \in Holdouts : Opener(s, k)' => Opener(s, k)
    BY <2>2, <2>4
  <2>8. Unseen' /\ FirstLook' /\ OneOpener' /\ OneExposure'
    BY <1>5, <2>1, <2>4, <2>6, <2>7 DEF IInv, Unseen, FirstLook, OneOpener, OneExposure
  <2>9. Known'
    BY <1>5, <2>1, <2>2, <2>4 DEF IInv, Known, At
  <2> QED BY <2>4, <2>5, <2>8, <2>9 DEF IInv
<1> QED BY <1>6, <1>7, <1>8 DEF Open

(* The look itself: the first, by the only one sent.                       *)
LEMMA EvaluateStep ==
    ASSUME IInv, NEW r \in Runs, Evaluate(r) PROVE IInv'
<1> DEFINE h == HoldoutId(r)
           d == <<run[r].bars, run[r].grid>>
           l == [run[r] EXCEPT !.pc = "measured"]
           row == holdout[h]
<1>1. run[r] \in Working /\ run[r].pc = "opened"
  BY Places DEF IInv, Evaluate, At
<1>2. h \in Holdouts /\ d \in Data \X Grids /\ EvidenceOf(r) \in Evidence
  BY <1>1 DEF HoldoutId, Holdouts, Working, EvidenceOf, Evidence
<1>3. row \in Sealings /\ holdout \in [Holdouts -> Sealings \cup {None}]
  BY <1>2 DEF IInv, TypeOK, Present, Evaluate
<1>4. PICK o \in IF test[d] = "unknown" THEN TestOutcomes ELSE {test[d]} :
         /\ test' = [test EXCEPT ![d] = o]
         /\ passes' = IF o = "pass" THEN passes \cup {EvidenceOf(r)} ELSE passes
  BY DEF Evaluate
<1>5. test \in [Data \X Grids -> TestOutcomes \cup {"unknown"}] /\ o \in TestOutcomes
  BY <1>2, <1>4 DEF IInv, TypeOK
<1>6. /\ test' \in [Data \X Grids -> TestOutcomes \cup {"unknown"}]
      /\ test'[d] \in TestOutcomes
      /\ \A e \in Data \X Grids : test[e] \in TestOutcomes => test'[e] \in TestOutcomes
  BY <1>2, <1>4, <1>5
<1>7. l \in Working /\ l.pc = "measured" /\ l.bars = run[r].bars /\ l.data = run[r].data
      /\ l.grid = run[r].grid
  BY <1>1 DEF Working
<1>8. run' = [run EXCEPT ![r] = l] /\ holdout' = [holdout EXCEPT ![h] = row]
  BY <1>3 DEF Evaluate, Goto
<1>9. /\ looks' = [looks EXCEPT ![h] = @ + 1]
      /\ UNCHANGED <<bars, manifest, caching, starts, failed, lifecycle, version, dev, holdout>>
  BY DEF Evaluate, Kept
<1>10. looks \in [Holdouts -> Nat] /\ looks[h] = 0 /\ Opener(r, h)
  BY <1>1, <1>2 DEF IInv, TypeOK, FirstLook, Opener, At
<1>11. looks' \in [Holdouts -> Nat] /\ looks'[h] = 1 /\ \A k \in Holdouts : k # h => looks'[k] = looks[k]
  BY <1>2, <1>9, <1>10
<1>12. \A s \in Runs : Opener(s, h) => s = r
  BY <1>2, <1>10 DEF IInv, OneOpener
<1>13. holdout[h] # None /\ holdout[h].status # "SEALED"
  BY <1>2, <1>10 DEF IInv, Unseen
<1>14. passes' \subseteq Evidence
  BY <1>2, <1>4 DEF IInv, TypeOK
<1> HIDE DEF h, l, d, row
<1>15. /\ Present'
       /\ run' \in [Runs -> Locals] /\ holdout' \in [Holdouts -> Sealings \cup {None}]
       /\ \A s \in Runs : run'[s] = IF s = r THEN l ELSE run[s]
       /\ \A s \in Runs, k \in Holdouts : Opener(s, k)' =>
            IF s = r THEN k = h /\ l.pc = "opened" ELSE Opener(s, k)
  BY <1>1, <1>2, <1>3, <1>7, <1>8, OwnHoldout DEF h
<1>16. TypeOK'
  BY <1>6, <1>9, <1>11, <1>14, <1>15 DEF IInv, TypeOK
<1>17. \A s \in Runs, k \in Holdouts : Opener(s, k)' => Opener(s, k) /\ k # h
  BY <1>7, <1>12, <1>15
<1>18. Unseen' /\ FirstLook' /\ OneOpener' /\ OneExposure'
  BY <1>9, <1>11, <1>13, <1>17 DEF IInv, Unseen, FirstLook, OneOpener, OneExposure
<1>19. Known'
  <2>1. \A s \in Runs : At(s, "measured")' => test'[<<run[s].bars, run[s].grid>>] \in TestOutcomes
    <3> SUFFICES ASSUME NEW s \in Runs, At(s, "measured")'
                 PROVE  test'[<<run[s].bars, run[s].grid>>] \in TestOutcomes
      OBVIOUS
    <3>1. CASE s = r
      BY <3>1, <1>6 DEF d
    <3>2. CASE s # r
      <4>1. At(s, "measured") /\ test[<<run[s].bars, run[s].grid>>] \in TestOutcomes
        BY <3>2, <1>15 DEF At, IInv, Known
      <4>2. run[s] \in Working
        BY <4>1, Places DEF IInv
      <4> QED BY <4>1, <4>2, <1>6 DEF Working
    <3> QED BY <3>1, <3>2
  <2>2. \A s \in Runs : run'[s].bars = run[s].bars /\ run'[s].grid = run[s].grid
    BY <1>7, <1>15
  <2> QED BY <2>1, <2>2, <1>9 DEF IInv, Known
<1> QED BY <1>15, <1>16, <1>18, <1>19 DEF IInv

LEMMA ConsumeStep ==
    ASSUME IInv, NEW r \in Runs, Consume(r) PROVE IInv'
<1> DEFINE h == HoldoutId(r)
           o == test[<<run[r].bars, run[r].grid>>]
<1>1. run[r] \in Working /\ run[r].pc = "measured"
  BY Places DEF IInv, Consume, At
<1>2. h \in Holdouts
  BY <1>1 DEF HoldoutId, Holdouts, Working
<1>3. run \in [Runs -> Locals] /\ holdout \in [Holdouts -> Sealings \cup {None}]
  BY DEF IInv, TypeOK
<1>4. holdout[h] \in Sealings /\ o \in TestOutcomes
  BY <1>2, <1>3 DEF IInv, Present, Known, Consume
<1>5. UNCHANGED <<bars, manifest, caching, starts, looks, passes, failed,
                  lifecycle, version, dev, test>>
  BY DEF Consume, Kept, History
<1>6. ASSUME holdout' = [holdout EXCEPT ![h].status = "CONSUMED", ![h].result = o],
             Goto(r, [run[r] EXCEPT !.pc = "decided", !.decision = Verdict(o),
                                    !.accepted = Accepted(o)])
      PROVE  IInv'
  <2> DEFINE l == [run[r] EXCEPT !.pc = "decided", !.decision = Verdict(o),
                                 !.accepted = Accepted(o)]
             row == [holdout[h] EXCEPT !.status = "CONSUMED", !.result = o]
  <2>1. row \in Sealings /\ row.status = "CONSUMED" /\ row.result \in TestOutcomes
    BY <1>4 DEF Sealings, Results
  <2>2. l \in Working /\ l.pc = "decided" /\ l.bars = run[r].bars /\ l.data = run[r].data
    BY <1>1, <1>4, VerdictType DEF Working
  <2>3. run' = [run EXCEPT ![r] = l] /\ holdout' = [holdout EXCEPT ![h] = row]
    BY <1>6, <1>2, <1>3 DEF Goto
  <2> HIDE DEF h, l, row, o
  <2>4. /\ Present'
        /\ run' \in [Runs -> Locals] /\ holdout' \in [Holdouts -> Sealings \cup {None}]
        /\ holdout'[h] = row
        /\ \A k \in Holdouts : k # h => holdout'[k] = holdout[k]
        /\ \A s \in Runs : run'[s] = IF s = r THEN l ELSE run[s]
        /\ \A s \in Runs, k \in Holdouts : Opener(s, k)' =>
             IF s = r THEN k = h /\ l.pc = "opened" ELSE Opener(s, k)
    BY <1>1, <1>2, <2>1, <2>2, <2>3, OwnHoldout DEF h
  <2>5. TypeOK'
    BY <1>5, <2>4 DEF IInv, TypeOK
  <2>6. row # None
    BY <2>1 DEF Sealings, None
  <2>7. \A s \in Runs, k \in Holdouts : Opener(s, k)' => Opener(s, k)
    BY <2>2, <2>4
  <2>8. Unseen' /\ FirstLook' /\ OneOpener' /\ OneExposure'
    BY <1>5, <2>1, <2>4, <2>6, <2>7 DEF IInv, Unseen, FirstLook, OneOpener, OneExposure
  <2>9. Known'
    BY <1>5, <2>1, <2>2, <2>4 DEF IInv, Known, At
  <2> QED BY <2>4, <2>5, <2>8, <2>9 DEF IInv
<1>7. ASSUME Goto(r, Idle), UNCHANGED holdout
      PROVE  IInv'
  <2>1. TypeOK'
    BY <1>5, <1>7 DEF IInv, TypeOK, Goto, Locals
  <2>2. Idle.pc = "idle"
    BY DEF Idle
  <2>3. Known' /\ Present' /\ Unseen' /\ FirstLook' /\ OneOpener' /\ OneExposure'
    BY <1>5, <1>7, <2>2, Elsewhere DEF Goto
  <2> QED BY <2>1, <2>3 DEF IInv
<1> QED BY <1>6, <1>7 DEF Consume

LEMMA JudgeStep ==
    ASSUME IInv, NEW r \in Runs, Judge(r) PROVE IInv'
<1> DEFINE s == Next_status(run[r].decision, lifecycle, EvidenceOf(r))
           l == [run[r] EXCEPT !.pc = "judged", !.decision = s]
<1>1. run[r] \in Working
  BY Places DEF IInv, Judge
<1>2. s \in Statuses
  <2>1. run[r].decision \in Statuses /\ lifecycle.status \in Statuses
    BY <1>1 DEF Working, IInv, TypeOK, Rows
  <2> QED BY <2>1 DEF Next_status, Statuses
<1>3. l \in Locals /\ l.pc = "judged"
  BY <1>1, <1>2 DEF Locals, Working
<1>4. run' = [run EXCEPT ![r] = l]
  BY DEF Judge, Goto
<1> HIDE DEF l
<1>5. TypeOK'
  BY <1>3, <1>4 DEF IInv, TypeOK, Judge, Kept, History
<1>6. Known' /\ Present' /\ Unseen' /\ FirstLook' /\ OneOpener' /\ OneExposure'
  BY <1>3, <1>4, Elsewhere DEF Judge, History
<1> QED BY <1>5, <1>6 DEF IInv

LEMMA RereadStep ==
    ASSUME IInv, NEW r \in Runs, Reread(r) PROVE IInv'
<1> DEFINE l == [pc |-> "reread", row |-> lifecycle, decision |-> run[r].decision,
                 grid |-> run[r].grid, bars |-> run[r].bars, data |-> run[r].data,
                 accepted |-> run[r].accepted]
<1>1. run[r] \in Working
  BY Places DEF IInv, Reread
<1>2. l \in Locals /\ l.pc = "reread"
  BY <1>1 DEF Locals, Working, Writing, IInv, TypeOK
<1>3. run' = [run EXCEPT ![r] = l]
  BY DEF Reread, Goto
<1> HIDE DEF l
<1>4. TypeOK'
  BY <1>2, <1>3 DEF IInv, TypeOK, Reread, Kept, History
<1>5. Known' /\ Present' /\ Unseen' /\ FirstLook' /\ OneOpener' /\ OneExposure'
  BY <1>2, <1>3, Elsewhere DEF Reread, History
<1> QED BY <1>4, <1>5 DEF IInv

LEMMA RecordStep ==
    ASSUME IInv, NEW r \in Runs, Record(r) PROVE IInv'
<1> DEFINE e == EvidenceOf(r)
           s == run[r].decision
           l == [pc |-> "recorded", status |-> s, grid |-> run[r].grid,
                 bars |-> run[r].bars, data |-> run[r].data, accepted |-> run[r].accepted]
<1>1. run[r] \in Writing
  BY Places DEF IInv, Record
<1>2. e \in Evidence /\ s \in Statuses /\ Fails(run[r].row, s, e) \in Nat
  BY <1>1 DEF EvidenceOf, Evidence, Writing, Fails, Rows
<1>3. l \in Locals /\ l.pc = "recorded"
  BY <1>1 DEF Locals, Writing, Written
<1>4. lifecycle' \in Rows /\ failed' \subseteq Evidence
  BY <1>2 DEF Record, Rows, IInv, TypeOK
<1>5. run' = [run EXCEPT ![r] = l]
  BY DEF Record, Goto
<1> HIDE DEF l
<1>6. TypeOK'
  BY <1>3, <1>4, <1>5 DEF IInv, TypeOK, Record, Kept
<1>7. Known' /\ Present' /\ Unseen' /\ FirstLook' /\ OneOpener' /\ OneExposure'
  BY <1>3, <1>5, Elsewhere DEF Record
<1> QED BY <1>6, <1>7 DEF IInv

LEMMA LastSteps ==
    ASSUME IInv, NEW r \in Runs, SaveVersion(r) \/ Crash(r) PROVE IInv'
<1>1. ASSUME SaveVersion(r) PROVE version' \in Versions
  <2>1. run[r] \in Written
    BY <1>1, Places DEF IInv, SaveVersion
  <2> QED BY <1>1, <2>1 DEF SaveVersion, VersionOf, Versions, Written
<1>2. version' \in Versions \cup {None}
  BY <1>1 DEF Crash, IInv, TypeOK
<1>3. run' = [run EXCEPT ![r] = Idle] /\ Idle \in Locals /\ Idle.pc = "idle"
  BY DEF SaveVersion, Crash, Goto, Locals, Idle
<1>4. UNCHANGED <<bars, manifest, caching, starts, looks, passes, failed,
                  lifecycle, holdout, dev, test>>
  BY DEF SaveVersion, Crash, Kept, History
<1>5. TypeOK'
  BY <1>2, <1>3, <1>4 DEF IInv, TypeOK
<1>6. Known' /\ Present' /\ Unseen' /\ FirstLook' /\ OneOpener' /\ OneExposure'
  BY <1>3, <1>4, Elsewhere
<1> QED BY <1>5, <1>6 DEF IInv

LEMMA Inductive == IInv /\ [Next]_vars => IInv'
<1> SUFFICES ASSUME IInv, [Next]_vars PROVE IInv'
  OBVIOUS
<1>1. ASSUME NEW r \in Runs, Step(r) PROVE IInv'
  BY <1>1, PrefilterStep, LoadStep, DevelopStep, SealStep, OpenStep, EvaluateStep,
     ConsumeStep, JudgeStep, RereadStep, RecordStep, LastSteps DEF Step
<1>2. CASE UNCHANGED vars
  BY <1>2 DEF vars, IInv, TypeOK, Known, Present, Unseen, FirstLook, OneOpener,
              OneExposure, Opener, At, HoldoutId
<1> QED BY <1>1, <1>2, CacheStep DEF Next

LEMMA Invariant == Spec => []IInv
<1> QED BY Initially, Inductive, PTL DEF Spec

-----------------------------------------------------------------------------
(* The tables and the processes keep their types.                          *)
THEOREM TypeCorrect == Spec => []TypeOK
<1>1. IInv => TypeOK
  BY DEF IInv
<1> QED BY <1>1, Invariant, PTL

(* open_research_holdout: however many runs overlap or die, with whatever  *)
(* grids, the bars of a holdout are evaluated once at most.                *)
THEOREM SeenOnce == Spec => []OneExposure
<1>1. IInv => OneExposure
  BY DEF IInv
<1> QED BY <1>1, Invariant, PTL

(* No statement of the research takes a holdout out of CONTAMINATED.       *)
THEOREM ContaminatedForGood == Spec => ContaminatedStays
<1> DEFINE Kept_(h) == holdout[h] # None /\ holdout[h].status = "CONTAMINATED"
                          => holdout'[h] = holdout[h]
<1>1. ASSUME IInv, [Next]_vars, NEW h \in Holdouts PROVE Kept_(h)
  <2> SUFFICES ASSUME holdout[h] # None, holdout[h].status = "CONTAMINATED"
               PROVE  holdout'[h] = holdout[h]
    OBVIOUS
  <2>1. holdout \in [Holdouts -> Sealings \cup {None}] /\ holdout[h] \in Sealings
    BY <1>1 DEF IInv, TypeOK
  <2>2. [holdout[h] EXCEPT !.status = "CONTAMINATED"] = holdout[h]
    BY <2>1 DEF Sealings
  <2>3. ASSUME NEW r \in Runs, Seal(r) PROVE holdout'[h] = holdout[h]
    BY <2>1, <2>2, <2>3 DEF Seal, Sealed
  <2>4. ASSUME NEW r \in Runs, Open(r) PROVE holdout'[h] = holdout[h]
    BY <2>1, <2>2, <2>4 DEF Open, MayOpen
  <2>5. ASSUME NEW r \in Runs, Consume(r) PROVE holdout'[h] = holdout[h]
    BY <2>1, <2>5 DEF Consume, MayConsume
  <2>6. ASSUME NEW r \in Runs, Step(r), ~Seal(r), ~Open(r), ~Consume(r)
        PROVE  holdout' = holdout
    BY <2>6 DEF Step, Prefilter, Load, Develop, Evaluate, Judge, Reread, Record,
                SaveVersion, Crash
  <2>7. ASSUME AppendBars \/ UpdateManifest \/ CrashCache PROVE holdout' = holdout
    BY <2>7 DEF AppendBars, UpdateManifest, CrashCache
  <2> QED BY <1>1, <2>3, <2>4, <2>5, <2>6, <2>7 DEF Next, vars
<1>2. IInv /\ [Next]_vars => [\A h \in Holdouts : Kept_(h)]_vars
  BY <1>1
<1> QED BY <1>2, Invariant, PTL DEF Spec, ContaminatedStays

-----------------------------------------------------------------------------
(* VerifiedWasTested: a pass is remembered before it can count, and a      *)
(* decision "verified" only comes from a pass, whoever obtained it.        *)
Settling == {"decided", "judged", "reread"}
Measured == \A r \in Runs : At(r, "measured") /\ test[<<run[r].bars, run[r].grid>>] = "pass"
                               => EvidenceOf(r) \in passes
Decided  == \A r \in Runs : run[r].pc \in Settling /\ run[r].decision = "verified"
                               => EvidenceOf(r) \in passes
Replayed == \A h \in Holdouts :
                holdout[h] # None /\ holdout[h].status = "CONSUMED" /\ holdout[h].result = "pass"
                    => <<h[1], holdout[h].owner>> \in passes
TestedInv == Measured /\ Decided /\ Replayed /\ VerifiedWasTested

(* A process that goes somewhere without a verdict of its own.             *)
LEMMA NoVerdict ==
    ASSUME IInv, TestedInv, NEW r \in Runs, NEW l, run' = [run EXCEPT ![r] = l],
           l.pc # "measured", l.pc \notin Settling \/ l.decision # "verified",
           UNCHANGED <<test, passes>>
    PROVE  Measured' /\ Decided'
<1>1. run \in [Runs -> Locals]
  BY DEF IInv, TypeOK
<1>2. \A s \in Runs : run'[s] = IF s = r THEN l ELSE run[s]
  BY <1>1
<1> QED BY <1>2 DEF TestedInv, Measured, Decided, At, EvidenceOf

LEMMA VerifiedByPass == ASSUME NEW o \in TestOutcomes, Verdict(o) = "verified" PROVE o = "pass"
  BY OutcomesAssumption DEF Verdict

LEMMA TestedFirst == Init => TestedInv
  BY DEF Init, TestedInv, Measured, Decided, Replayed, VerifiedWasTested, At, Idle, Settling, None

LEMMA TestedBefore ==
    ASSUME IInv, TestedInv, NEW r \in Runs,
           \/ \E g \in Grids : Prefilter(r, g)
           \/ Load(r) \/ Develop(r) \/ SaveVersion(r) \/ Crash(r)
    PROVE  TestedInv'
<1> DEFINE Before(l) == run' = [run EXCEPT ![r] = l] /\ l.pc \in {"filtered", "loaded", "developed", "idle"}
<1>1. \E l : Before(l)
  <2>1. ASSUME NEW g \in Grids, Prefilter(r, g) PROVE Before([pc |-> "filtered", grid |-> g])
    BY <2>1 DEF Prefilter, Goto
  <2>2. ASSUME Load(r) PROVE Before([pc |-> "loaded", grid |-> run[r].grid, bars |-> bars])
    BY <2>2 DEF Load, Goto
  <2>3. ASSUME Develop(r)
        PROVE  \E o : Before([pc |-> "developed", grid |-> run[r].grid, bars |-> run[r].bars,
                              data |-> manifest, decision |-> o, accepted |-> FALSE])
    BY <2>3 DEF Develop, Goto
  <2>4. ASSUME SaveVersion(r) \/ Crash(r) PROVE Before(Idle)
    BY <2>4 DEF SaveVersion, Crash, Goto, Idle
  <2> QED BY <2>1, <2>2, <2>3, <2>4
<1>2. UNCHANGED <<holdout, test, passes>>
  BY DEF Prefilter, Load, Develop, SaveVersion, Crash, History
<1>3. Measured' /\ Decided'
  BY <1>1, <1>2, NoVerdict DEF Settling
<1>4. lifecycle' = lifecycle \/ lifecycle'.status = "backtesting"
  BY DEF Prefilter, Load, Backtesting, Develop, SaveVersion, Crash, IInv, TypeOK, Rows
<1> QED BY <1>2, <1>3, <1>4 DEF TestedInv, Replayed, VerifiedWasTested

LEMMA TestedSeal == ASSUME IInv, TestedInv, NEW r \in Runs, Seal(r) PROVE TestedInv'
<1> DEFINE h == HoldoutId(r)
           l == [run[r] EXCEPT !.pc = IF run[r].decision = "verified" THEN "sealed" ELSE "decided"]
<1>1. run[r] \in Working
  BY Places DEF IInv, Seal
<1>2. run' = [run EXCEPT ![r] = l] /\ UNCHANGED <<test, passes, lifecycle>>
  BY DEF Seal, Goto, History
<1>3. l.pc \in {"sealed", "decided"} /\ (l.pc = "decided" => l.decision # "verified")
  BY <1>1 DEF Working
<1> HIDE DEF l
<1>4. Measured' /\ Decided'
  BY <1>2, <1>3, NoVerdict DEF Settling
<1>5. holdout \in [Holdouts -> Sealings \cup {None}] /\ h \in Holdouts
  BY <1>1 DEF HoldoutId, Holdouts, Working, IInv, TypeOK
<1>6. holdout' = [holdout EXCEPT ![h] = Sealed(h, run[r].grid)]
  BY DEF Seal
<1>7. Sealed(h, run[r].grid).status = "CONSUMED" => Sealed(h, run[r].grid) = holdout[h]
  BY <1>5 DEF Sealed, Sealings, None
<1>8. holdout[h] = None => Sealed(h, run[r].grid).status = "SEALED"
  BY DEF Sealed
<1>9. Replayed'
  BY <1>2, <1>5, <1>6, <1>7, <1>8 DEF TestedInv, Replayed
<1> QED BY <1>2, <1>4, <1>9 DEF TestedInv, VerifiedWasTested

(* A replayed pass is one that was measured on the same data and grid.     *)
LEMMA TestedOpen == ASSUME IInv, TestedInv, NEW r \in Runs, Open(r) PROVE TestedInv'
<1> DEFINE h == HoldoutId(r)  g == run[r].grid
<1>1. run[r] \in Working
  BY Places DEF IInv, Open
<1>2. /\ holdout \in [Holdouts -> Sealings \cup {None}] /\ h \in Holdouts
      /\ h[1] = run[r].data /\ g \in Grids
  BY <1>1 DEF HoldoutId, Holdouts, Working, IInv, TypeOK
<1>3. UNCHANGED <<test, passes, lifecycle>>
  BY DEF Open, History
<1>4. holdout[h] \in Sealings
  BY <1>2 DEF IInv, Present, Open
<1>5. \/ UNCHANGED holdout
      \/ \E st \in {"OPENED", "CONTAMINATED"} : holdout' = [holdout EXCEPT ![h].status = st]
  BY DEF Open
<1>6. Replayed'
  <2>1. CASE UNCHANGED holdout
    BY <1>3, <2>1 DEF TestedInv, Replayed
  <2>2. ASSUME NEW st \in {"OPENED", "CONTAMINATED"}, holdout' = [holdout EXCEPT ![h].status = st]
        PROVE  Replayed'
    <3>1. holdout'[h].status = st
      BY <1>2, <1>4, <2>2 DEF Sealings
    <3>2. \A k \in Holdouts : k # h => holdout'[k] = holdout[k]
      BY <1>2, <2>2
    <3> QED BY <1>3, <2>2, <3>1, <3>2 DEF TestedInv, Replayed
  <2> QED BY <1>5, <2>1, <2>2
<1>7. Measured' /\ Decided'
  <2>1. CASE Goto(r, [run[r] EXCEPT !.pc = "opened"])
    <3>1. [run[r] EXCEPT !.pc = "opened"].pc = "opened"
      BY <1>1 DEF Working
    <3> QED BY <1>3, <2>1, <3>1, NoVerdict DEF Goto, Settling
  <2>2. CASE Goto(r, [run[r] EXCEPT !.pc = "decided", !.decision = "degraded"])
    <3> DEFINE l == [run[r] EXCEPT !.pc = "decided", !.decision = "degraded"]
    <3>1. l.pc = "decided" /\ l.decision = "degraded" /\ run' = [run EXCEPT ![r] = l]
      BY <1>1, <2>2 DEF Working, Goto
    <3> HIDE DEF l
    <3> QED BY <1>3, <3>1, NoVerdict
  <2>3. CASE /\ MayReplay(h, g)
             /\ Goto(r, [run[r] EXCEPT !.pc = "decided", !.decision = Verdict(holdout[h].result),
                                       !.accepted = Accepted(holdout[h].result)])
    <3> DEFINE l == [run[r] EXCEPT !.pc = "decided", !.decision = Verdict(holdout[h].result),
                                   !.accepted = Accepted(holdout[h].result)]
    <3>1. run' = [run EXCEPT ![r] = l] /\ run \in [Runs -> Locals]
      BY <2>3 DEF Goto, IInv, TypeOK
    <3>2. l.pc = "decided" /\ l.data = run[r].data /\ l.grid = g /\ l.decision = Verdict(holdout[h].result)
      BY <1>1 DEF Working
    <3>3. holdout[h].status = "CONSUMED" /\ holdout[h].owner = g /\ holdout[h].result \in TestOutcomes
      BY <1>2, <1>4, <2>3 DEF MayReplay, IInv, Known, None, Sealings
    <3>4. l.decision = "verified" => holdout[h].result = "pass"
      BY <3>2, <3>3, VerifiedByPass
    <3>5. l.decision = "verified" => <<l.data, l.grid>> \in passes
      BY <1>2, <1>4, <3>2, <3>3, <3>4 DEF TestedInv, Replayed, None, Sealings
    <3> HIDE DEF l
    <3>6. \A s \in Runs : run'[s] = IF s = r THEN l ELSE run[s]
      BY <3>1
    <3> QED BY <1>3, <3>2, <3>5, <3>6 DEF TestedInv, Measured, Decided, At, EvidenceOf
  <2> QED BY <2>1, <2>2, <2>3 DEF Open
<1> QED BY <1>3, <1>6, <1>7 DEF TestedInv, VerifiedWasTested

(* The pass is remembered by the step that measures it; an outcome that    *)
(* another run measured already stays what it was.                         *)
LEMMA TestedEvaluate == ASSUME IInv, TestedInv, NEW r \in Runs, Evaluate(r) PROVE TestedInv'
<1> DEFINE d == <<run[r].bars, run[r].grid>>
<1>1. run[r] \in Working
  BY Places DEF IInv, Evaluate
<1>2. d \in Data \X Grids
  BY <1>1 DEF Working
<1>3. PICK o \in IF test[d] = "unknown" THEN TestOutcomes ELSE {test[d]} :
        /\ test' = [test EXCEPT ![d] = o]
        /\ passes' = IF o = "pass" THEN passes \cup {EvidenceOf(r)} ELSE passes
  BY DEF Evaluate
<1>4. run' = [run EXCEPT ![r] = [run[r] EXCEPT !.pc = "measured"]] /\ UNCHANGED <<holdout, lifecycle>>
  BY DEF Evaluate, Goto
<1>5. passes \subseteq passes'
  BY <1>3
<1>6. run \in [Runs -> Locals] /\ test \in [Data \X Grids -> TestOutcomes \cup {"unknown"}]
  BY DEF IInv, TypeOK
<1>7. /\ run'[r].pc = "measured" /\ run'[r].bars = run[r].bars
      /\ run'[r].data = run[r].data /\ run'[r].grid = run[r].grid
      /\ \A s \in Runs : s # r => run'[s] = run[s]
  BY <1>1, <1>4, <1>6 DEF Working
<1>8. Measured'
  <2>1. ASSUME NEW s \in Runs, s # r, At(s, "measured"), test'[<<run[s].bars, run[s].grid>>] = "pass"
        PROVE  EvidenceOf(s) \in passes
    <3>1. test[<<run[s].bars, run[s].grid>>] \in TestOutcomes
      BY <2>1 DEF IInv, Known
    <3>2. test'[<<run[s].bars, run[s].grid>>] = test[<<run[s].bars, run[s].grid>>]
      <4>1. CASE <<run[s].bars, run[s].grid>> = d
        BY <1>2, <1>3, <1>6, <3>1, <4>1, OutcomesAssumption
      <4>2. CASE <<run[s].bars, run[s].grid>> # d
        BY <1>3, <1>6, <4>2
      <4> QED BY <4>1, <4>2
    <3> QED BY <2>1, <3>2 DEF TestedInv, Measured
  <2>2. test'[d] = "pass" => EvidenceOf(r) \in passes'
    BY <1>2, <1>3, <1>6
  <2> QED BY <1>5, <1>7, <2>1, <2>2 DEF Measured, At, EvidenceOf
<1>9. Decided'
  BY <1>5, <1>7 DEF TestedInv, Decided, Settling, EvidenceOf
<1> QED BY <1>4, <1>5, <1>8, <1>9 DEF TestedInv, Replayed, VerifiedWasTested

LEMMA TestedConsume == ASSUME IInv, TestedInv, NEW r \in Runs, Consume(r) PROVE TestedInv'
<1> DEFINE h == HoldoutId(r)
           o == test[<<run[r].bars, run[r].grid>>]
<1>1. run[r] \in Working /\ At(r, "measured")
  BY Places DEF IInv, Consume
<1>2. /\ holdout \in [Holdouts -> Sealings \cup {None}] /\ h \in Holdouts
      /\ h[1] = run[r].data /\ run \in [Runs -> Locals]
  BY <1>1 DEF HoldoutId, Holdouts, Working, IInv, TypeOK
<1>3. UNCHANGED <<test, passes, lifecycle>>
  BY DEF Consume, History
<1>4. holdout[h] \in Sealings /\ o \in TestOutcomes
  BY <1>1, <1>2 DEF IInv, Present, Known
<1>5. o = "pass" => EvidenceOf(r) \in passes
  BY <1>1 DEF TestedInv, Measured
<1>6. CASE Goto(r, Idle) /\ UNCHANGED holdout
  <2>1. Idle.pc = "idle"
    BY DEF Idle
  <2>2. Measured' /\ Decided'
    BY <1>3, <1>6, <2>1, NoVerdict DEF Goto, Settling
  <2> QED BY <1>3, <1>6, <2>2 DEF TestedInv, Replayed, VerifiedWasTested
<1>7. CASE /\ MayConsume(h, run[r].grid)
           /\ holdout' = [holdout EXCEPT ![h].status = "CONSUMED", ![h].result = o]
           /\ Goto(r, [run[r] EXCEPT !.pc = "decided", !.decision = Verdict(o),
                                     !.accepted = Accepted(o)])
  <2> DEFINE l == [run[r] EXCEPT !.pc = "decided", !.decision = Verdict(o), !.accepted = Accepted(o)]
  <2>1. run' = [run EXCEPT ![r] = l]
    BY <1>7 DEF Goto
  <2>2. l.pc = "decided" /\ l.data = run[r].data /\ l.grid = run[r].grid /\ l.decision = Verdict(o)
    BY <1>1 DEF Working
  <2>3. l.decision = "verified" => o = "pass"
    BY <1>4, <2>2, VerifiedByPass
  <2>4. holdout'[h].owner = run[r].grid /\ holdout'[h].result = o
    BY <1>2, <1>4, <1>7 DEF MayConsume, Sealings
  <2>5. \A k \in Holdouts : k # h => holdout'[k] = holdout[k]
    BY <1>2, <1>7
  <2>6. Replayed'
    BY <1>2, <1>3, <1>5, <2>4, <2>5 DEF TestedInv, Replayed, EvidenceOf
  <2> HIDE DEF l, o
  <2>7. \A s \in Runs : run'[s] = IF s = r THEN l ELSE run[s]
    BY <1>2, <2>1
  <2>8. Measured' /\ Decided'
    BY <1>3, <1>5, <2>2, <2>3, <2>7 DEF TestedInv, Measured, Decided, At, EvidenceOf
  <2> QED BY <1>3, <2>6, <2>8 DEF TestedInv, VerifiedWasTested
<1> QED BY <1>6, <1>7 DEF Consume

(* Judging keeps a decision other than "degraded", and the row takes it.   *)
LEMMA TestedRecord ==
    ASSUME IInv, TestedInv, NEW r \in Runs, Judge(r) \/ Reread(r) \/ Record(r) PROVE TestedInv'
<1>1. UNCHANGED <<holdout, test, passes>> /\ run \in [Runs -> Locals]
  BY DEF Judge, Reread, Record, History, IInv, TypeOK
<1>2. Replayed'
  BY <1>1 DEF TestedInv, Replayed
<1>3. CASE Judge(r)
  <2> DEFINE n == Next_status(run[r].decision, lifecycle, EvidenceOf(r))
             l == [run[r] EXCEPT !.pc = "judged", !.decision = n]
  <2>1. run[r] \in Working /\ run[r].pc = "decided"
    BY <1>3, Places DEF IInv, Judge, At
  <2>2. n = "verified" => run[r].decision = "verified"
    BY <2>1 DEF Next_status
  <2>3. l.pc = "judged" /\ l.decision = n /\ l.data = run[r].data /\ l.grid = run[r].grid
    BY <2>1 DEF Working
  <2> HIDE DEF l, n
  <2>4. \A s \in Runs : run'[s] = IF s = r THEN l ELSE run[s]
    BY <1>1, <1>3 DEF Judge, Goto, l, n
  <2>5. Measured' /\ Decided'
    BY <1>1, <2>1, <2>2, <2>3, <2>4 DEF TestedInv, Measured, Decided, At, EvidenceOf, Settling
  <2> QED BY <1>1, <1>2, <1>3, <2>5 DEF TestedInv, VerifiedWasTested, Judge
<1>4. CASE Reread(r)
  <2> DEFINE l == [pc |-> "reread", row |-> lifecycle, decision |-> run[r].decision,
                   grid |-> run[r].grid, bars |-> run[r].bars, data |-> run[r].data,
                   accepted |-> run[r].accepted]
  <2>1. run[r].pc = "judged"
    BY <1>4 DEF Reread, At
  <2>2. /\ l.pc = "reread" /\ l.decision = run[r].decision
        /\ l.data = run[r].data /\ l.grid = run[r].grid
    OBVIOUS
  <2> HIDE DEF l
  <2>3. \A s \in Runs : run'[s] = IF s = r THEN l ELSE run[s]
    BY <1>1, <1>4 DEF Reread, Goto, l
  <2>4. Measured' /\ Decided'
    BY <1>1, <2>1, <2>2, <2>3 DEF TestedInv, Measured, Decided, At, EvidenceOf, Settling
  <2> QED BY <1>1, <1>2, <1>4, <2>4 DEF TestedInv, VerifiedWasTested, Reread
<1>5. CASE Record(r)
  <2>1. run[r].pc = "reread"
    BY <1>5 DEF Record, At
  <2> DEFINE l == [pc |-> "recorded", status |-> run[r].decision, grid |-> run[r].grid,
                   bars |-> run[r].bars, data |-> run[r].data, accepted |-> run[r].accepted]
  <2>4. run' = [run EXCEPT ![r] = l] /\ l.pc = "recorded"
    BY <1>5 DEF Record, Goto
  <2> HIDE DEF l
  <2>2. Measured' /\ Decided'
    BY <1>1, <2>4, NoVerdict DEF Settling
  <2>3. lifecycle'.status = run[r].decision /\ lifecycle'.evidence = EvidenceOf(r)
    BY <1>5 DEF Record
  <2> QED BY <1>1, <1>2, <2>1, <2>2, <2>3 DEF TestedInv, VerifiedWasTested, Decided, Settling
<1> QED BY <1>3, <1>4, <1>5

(* A symbol is only ever verified on data and a grid whose holdout was     *)
(* evaluated and passed, whatever overlaps, dies or is appended meanwhile. *)
THEOREM NeverVerifiedUntested == Spec => []VerifiedWasTested
<1>1. Init => TestedInv
  BY TestedFirst
<1>2. IInv /\ TestedInv /\ [Next]_vars => TestedInv'
  <2> SUFFICES ASSUME IInv, TestedInv, [Next]_vars PROVE TestedInv'
    OBVIOUS
  <2>1. ASSUME NEW r \in Runs, Step(r) PROVE TestedInv'
    BY <2>1, TestedBefore, TestedSeal, TestedOpen, TestedEvaluate, TestedConsume, TestedRecord DEF Step
  <2>2. CASE AppendBars \/ UpdateManifest \/ CrashCache \/ UNCHANGED vars
    BY <2>2 DEF AppendBars, UpdateManifest, CrashCache, History, vars, TestedInv, Measured, Decided,
                Replayed, VerifiedWasTested, At, EvidenceOf
  <2> QED BY <2>1, <2>2 DEF Next
<1>3. TestedInv => VerifiedWasTested
  BY DEF TestedInv
<1> QED BY <1>1, <1>2, <1>3, Invariant, PTL DEF Spec

-----------------------------------------------------------------------------
(* VerifiedAloneIsClean: while one run at a time works on the symbol, Load *)
(* has taken "verified" away before a holdout is touched, and what a run   *)
(* then settles on as verified stands on its own consumed holdout.         *)
Touching == {"loaded", "developed", "sealed", "opened", "measured", "decided", "judged", "reread"}
Clean(h, g) == holdout[h] # None /\ holdout[h].status = "CONSUMED" /\ holdout[h].owner = g
Lone    == \A r, s \in Busy : r = s
Shelved == \A r \in Runs : run[r].pc \in Touching => lifecycle.status # "verified"
Backed  == \A r \in Runs : run[r].pc \in Settling /\ run[r].decision = "verified"
                              => Clean(HoldoutId(r), run[r].grid)
AloneInv == IsFiniteSet(Busy) /\ (~overlap => Lone /\ Shelved /\ Backed /\ VerifiedIsClean)

LEMMA AloneFirst == MCInit => AloneInv
<1> SUFFICES ASSUME MCInit PROVE AloneInv
  OBVIOUS
<1>1. \A r \in Runs : run[r].pc = "idle"
  BY DEF MCInit, Init, Idle
<1>2. Busy = {}
  BY <1>1 DEF Busy, At
<1>3. IsFiniteSet(Busy)
  BY <1>2, FS_EmptySet
<1>4. lifecycle.status # "verified"
  BY DEF MCInit, Init
<1> QED BY <1>1, <1>2, <1>3, <1>4
        DEF AloneInv, Lone, Shelved, Backed, Settling, Touching, VerifiedIsClean

(* A step of one process makes nobody else busy.                           *)
LEMMA BusyStep ==
    ASSUME IInv, AloneInv, NEW r \in Runs, NEW l, run' = [run EXCEPT ![r] = l]
    PROVE  /\ Busy' \subseteq Busy \cup {r} /\ IsFiniteSet(Busy')
           /\ \A s \in Runs : run'[s] = IF s = r THEN l ELSE run[s]
<1>1. \A s \in Runs : run'[s] = IF s = r THEN l ELSE run[s]
  BY DEF IInv, TypeOK
<1>2. Busy' \subseteq Busy \cup {r}
  BY <1>1 DEF Busy, At
<1>3. IsFiniteSet(Busy \cup {r})
  BY FS_AddElement DEF AloneInv
<1> QED BY <1>1, <1>2, <1>3, FS_Subset

LEMMA OneBusy ==
    ASSUME NEW S, IsFiniteSet(S), Cardinality(S) =< 1, NEW x \in S, NEW y \in S PROVE x = y
<1> SUFFICES ASSUME x # y PROVE FALSE
  OBVIOUS
<1>1. {x, y} \subseteq S
  OBVIOUS
<1>2. Cardinality({x, y}) = 2
  <2>1. IsFiniteSet({x}) /\ Cardinality({x}) = 1
    BY FS_Singleton
  <2>2. Cardinality({x} \cup {y}) = Cardinality({x}) + 1
    BY <2>1, FS_AddElement
  <2>3. {x} \cup {y} = {x, y}
    OBVIOUS
  <2> QED BY <2>1, <2>2, <2>3
<1>3. Cardinality({x, y}) =< Cardinality(S)
  BY <1>1, FS_Subset
<1> QED BY <1>2, <1>3, FS_CardinalityType

(* A holdout result is taken from, or put into, the run's own row.         *)
LEMMA CleanOpen ==
    ASSUME IInv, NEW r \in Runs, Open(r), run'[r].pc \in Settling, run'[r].decision = "verified"
    PROVE  Clean(HoldoutId(r), run[r].grid)'
<1>1. run[r] \in Working /\ run \in [Runs -> Locals]
  BY Places DEF IInv, Open, TypeOK
<1>2. HoldoutId(r) \in Holdouts
  BY <1>1 DEF HoldoutId, Holdouts, Working
<1>3. CASE Goto(r, [run[r] EXCEPT !.pc = "opened"])
  <2>1. run'[r].pc = "opened"
    BY <1>1, <1>3 DEF Goto, Working
  <2> QED BY <2>1 DEF Settling
<1>4. CASE Goto(r, [run[r] EXCEPT !.pc = "decided", !.decision = "degraded"])
  <2>1. run'[r].decision = "degraded"
    BY <1>1, <1>4 DEF Goto, Working
  <2> QED BY <2>1
<1>5. CASE /\ MayReplay(HoldoutId(r), run[r].grid) /\ UNCHANGED holdout
           /\ Goto(r, [run[r] EXCEPT !.pc = "decided",
                        !.decision = Verdict(holdout[HoldoutId(r)].result),
                        !.accepted = Accepted(holdout[HoldoutId(r)].result)])
  <2>1. /\ run'[r].data = run[r].data /\ run'[r].bars = run[r].bars
        /\ run'[r].grid = run[r].grid
    BY <1>1, <1>5 DEF Goto, Working
  <2>2. holdout[HoldoutId(r)] # None
    BY <1>2 DEF IInv, Present, Open
  <2> QED BY <1>5, <2>1, <2>2 DEF Clean, HoldoutId, MayReplay
<1> QED BY <1>3, <1>4, <1>5 DEF Open

LEMMA CleanConsume ==
    ASSUME IInv, NEW r \in Runs, Consume(r), run'[r].pc \in Settling
    PROVE  Clean(HoldoutId(r), run[r].grid)'
<1> DEFINE h == HoldoutId(r)
           o == test[<<run[r].bars, run[r].grid>>]
<1>1. run[r] \in Working /\ run \in [Runs -> Locals]
  BY Places DEF IInv, Consume, TypeOK
<1>2. h \in Holdouts /\ holdout \in [Holdouts -> Sealings \cup {None}]
  BY <1>1 DEF HoldoutId, Holdouts, Working, IInv, TypeOK
<1>3. holdout[h] \in Sealings
  BY <1>2 DEF IInv, Present, Consume
<1>4. CASE Goto(r, Idle)
  <2>1. run'[r].pc = "idle"
    BY <1>1, <1>4 DEF Goto, Idle
  <2> QED BY <2>1 DEF Settling
<1>5. CASE /\ MayConsume(h, run[r].grid)
           /\ holdout' = [holdout EXCEPT ![h].status = "CONSUMED", ![h].result = o]
           /\ Goto(r, [run[r] EXCEPT !.pc = "decided", !.decision = Verdict(o),
                                     !.accepted = Accepted(o)])
  <2>1. /\ run'[r].data = run[r].data /\ run'[r].bars = run[r].bars
        /\ run'[r].grid = run[r].grid
    BY <1>1, <1>5 DEF Goto, Working
  <2>2. /\ holdout'[h].status = "CONSUMED" /\ holdout'[h].owner = run[r].grid
    BY <1>2, <1>3, <1>5 DEF MayConsume, Sealings
  <2>3. holdout'[h] # None
    BY <2>2 DEF None
  <2> QED BY <2>1, <2>2, <2>3 DEF Clean, HoldoutId
<1> QED BY <1>4, <1>5 DEF Consume

(* Who is the only one at work settles the symbol's row and its holdout.   *)
LEMMA AloneStep == ASSUME IInv, AloneInv, [MCNext]_<<vars, overlap>> PROVE AloneInv'
<1>1. CASE UNCHANGED <<vars, overlap>>
  <2>1. UNCHANGED <<run, holdout, lifecycle, overlap>>
    BY <1>1 DEF vars
  <2>2. UNCHANGED Busy
    BY <2>1 DEF Busy, At
  <2> QED BY <2>1, <2>2 DEF AloneInv, Lone, Shelved, Backed, Clean, HoldoutId, VerifiedIsClean
<1>2. CASE AppendBars \/ UpdateManifest \/ CrashCache
  <2>1. UNCHANGED <<run, holdout, lifecycle>>
    BY <1>2 DEF AppendBars, UpdateManifest, CrashCache
  <2>2. UNCHANGED Busy
    BY <2>1 DEF Busy, At
  <2>3. CASE UNCHANGED overlap
    BY <2>1, <2>2, <2>3 DEF AloneInv, Lone, Shelved, Backed, Clean, HoldoutId, VerifiedIsClean
  <2> QED BY <1>1, <2>3 DEF MCNext
<1>3. ASSUME NEW r \in Runs, Step(r), UNCHANGED overlap,
             overlap \/ Cardinality(Busy') =< 1
      PROVE  AloneInv'
  <2>1. \E l : run' = [run EXCEPT ![r] = l]
    <3>1. CASE \E g \in Grids : Prefilter(r, g)
      BY <3>1 DEF Prefilter, Goto
    <3>2. CASE Load(r) \/ Seal(r) \/ Evaluate(r)
      BY <3>2 DEF Load, Seal, Evaluate, Goto
    <3>3. CASE Develop(r)
      BY <3>3 DEF Develop, Goto
    <3>4. CASE Open(r)
      BY <3>4 DEF Open, Goto
    <3>5. CASE Consume(r)
      BY <3>5 DEF Consume, Goto
    <3>6. CASE Judge(r) \/ Reread(r) \/ Record(r)
      BY <3>6 DEF Judge, Reread, Record, Goto
    <3>7. CASE SaveVersion(r) \/ Crash(r)
      BY <3>7 DEF SaveVersion, Crash, Goto
    <3> QED BY <1>3, <3>1, <3>2, <3>3, <3>4, <3>5, <3>6, <3>7 DEF Step
  <2>2. /\ Busy' \subseteq Busy \cup {r} /\ IsFiniteSet(Busy')
        /\ \A s \in Runs : s # r => run'[s] = run[s]
    BY <2>1, BusyStep
  <2> SUFFICES ASSUME ~overlap PROVE Lone' /\ Shelved' /\ Backed' /\ VerifiedIsClean'
    BY <1>3, <2>2 DEF AloneInv
  <2>3. Lone'
    BY <1>3, <2>2, OneBusy DEF Lone
  <2>4. Lone /\ Shelved /\ Backed /\ VerifiedIsClean
    BY DEF AloneInv
  <2>5. \A s \in Runs : s # r => run[s].pc = "idle" /\ run'[s].pc = "idle"
    <3> SUFFICES ASSUME NEW s \in Runs, s # r PROVE run[s].pc = "idle"
      BY <2>2
    <3>1. CASE At(r, "idle")
      <4>1. \E g \in Grids : Prefilter(r, g)
        BY <1>3, <3>1 DEF Step, Load, Develop, Seal, Open, Evaluate, Consume, Judge, Reread,
                          Record, SaveVersion, Crash, At
      <4>2. run'[r].pc = "filtered"
        BY <4>1 DEF Prefilter, Goto, IInv, TypeOK
      <4>3. r \in Busy'
        BY <4>2 DEF Busy, At
      <4>4. s \notin Busy'
        BY <4>3, <2>3 DEF Lone
      <4> QED BY <4>4, <2>2 DEF Busy, At
    <3>2. CASE ~At(r, "idle")
      BY <2>4, <3>2 DEF Lone, Busy, At
    <3> QED BY <3>1, <3>2
  <2>6. CASE (\E g \in Grids : Prefilter(r, g)) \/ SaveVersion(r) \/ Crash(r)
    <3>1. UNCHANGED <<holdout, lifecycle>> /\ run'[r].pc \in {"filtered", "idle"}
      BY <2>6 DEF Prefilter, SaveVersion, Crash, Goto, Idle, IInv, TypeOK
    <3> QED BY <2>4, <2>5, <3>1, <2>3
            DEF Shelved, Backed, VerifiedIsClean, Touching, Settling
  <2>7. CASE Load(r)
    <3>1. run'[r].pc = "loaded" /\ lifecycle'.status = "backtesting"
      BY <2>7 DEF Load, Goto, Backtesting, IInv, TypeOK, Rows
    <3> QED BY <2>3, <2>5, <3>1 DEF Shelved, Backed, VerifiedIsClean, Touching, Settling
  <2>8. CASE Develop(r) \/ Seal(r) \/ Open(r) \/ Evaluate(r) \/ Consume(r) \/ Judge(r) \/ Reread(r)
    <3>1. lifecycle'.status # "verified"
      BY <2>4, <2>8 DEF Shelved, Touching, At, Develop, Seal, Open, Evaluate, Consume, Judge, Reread
    <3>2. Shelved' /\ VerifiedIsClean'
      BY <3>1 DEF Shelved, VerifiedIsClean
    <3>3. ASSUME run'[r].pc \in Settling, run'[r].decision = "verified"
          PROVE  Clean(HoldoutId(r), run[r].grid)'
      <4>1. CASE Develop(r) \/ Evaluate(r)
        <5>1. run'[r].pc \in {"developed", "measured"}
          <6>1. CASE Develop(r)
            BY <6>1 DEF Develop, Goto, IInv, TypeOK
          <6>2. CASE Evaluate(r)
            <7>1. run[r] \in Working /\ run \in [Runs -> Locals]
              BY <6>2, Places DEF IInv, TypeOK, Evaluate
            <7> QED BY <6>2, <7>1 DEF Evaluate, Goto, Working
          <6> QED BY <4>1, <6>1, <6>2
        <5> QED BY <3>3, <5>1 DEF Settling
      <4>2. CASE Seal(r)
        <5>1. run[r] \in Working
          BY <4>2, Places DEF IInv, Seal
        <5>2. run'[r].decision = run[r].decision
              /\ run'[r].pc = IF run[r].decision = "verified" THEN "sealed" ELSE "decided"
          BY <4>2, <5>1 DEF Seal, Goto, IInv, TypeOK, Working
        <5> QED BY <3>3, <5>2 DEF Settling
      <4>3. CASE Open(r)
        BY <3>3, <4>3, CleanOpen
      <4>4. CASE Consume(r)
        BY <3>3, <4>4, CleanConsume
      <4>5. CASE Judge(r)
        <5>1. run[r] \in Working /\ run[r].pc = "decided"
          BY <4>5, Places DEF IInv, Judge, At
        <5>2. /\ run'[r].data = run[r].data /\ run'[r].bars = run[r].bars
              /\ run'[r].grid = run[r].grid
              /\ run'[r].decision = Next_status(run[r].decision, lifecycle, EvidenceOf(r))
          BY <4>5, <5>1 DEF Judge, Goto, IInv, TypeOK, Working
        <5>3. run[r].decision = "verified"
          BY <3>3, <5>1, <5>2 DEF Next_status
        <5>4. UNCHANGED holdout
          BY <4>5 DEF Judge
        <5> QED BY <2>4, <5>1, <5>2, <5>3, <5>4 DEF Backed, Settling, Clean, HoldoutId
      <4>6. CASE Reread(r)
        <5>1. run[r].pc = "judged" /\ UNCHANGED holdout
          BY <4>6 DEF Reread, At
        <5>2. /\ run'[r].data = run[r].data /\ run'[r].bars = run[r].bars
              /\ run'[r].grid = run[r].grid /\ run'[r].decision = run[r].decision
          BY <4>6 DEF Reread, Goto, IInv, TypeOK
        <5> QED BY <2>4, <3>3, <5>1, <5>2 DEF Backed, Settling, Clean, HoldoutId
      <4> QED BY <2>8, <4>1, <4>2, <4>3, <4>4, <4>5, <4>6
    <3>4. Backed'
      BY <2>5, <3>3 DEF Backed, Settling
    <3> QED BY <2>3, <3>2, <3>4
  <2>9. CASE Record(r)
    <3>1. run[r] \in Writing /\ run[r].pc = "reread" /\ UNCHANGED holdout
      BY <2>9, Places DEF IInv, Record, At
    <3>2. run'[r].pc = "recorded"
      BY <2>9 DEF Record, Goto, IInv, TypeOK
    <3>3. lifecycle'.status = run[r].decision /\ lifecycle'.evidence = <<run[r].data, run[r].grid>>
      BY <2>9 DEF Record, EvidenceOf
    <3>4. VerifiedIsClean'
      <4> SUFFICES ASSUME run[r].decision = "verified"
                   PROVE  \E b \in Data : Clean(<<run[r].data, b>>, run[r].grid)
        BY <3>1, <3>3 DEF VerifiedIsClean, Clean
      <4>1. Clean(<<run[r].data, run[r].bars>>, run[r].grid) /\ run[r].bars \in Data
        BY <2>4, <3>1 DEF Backed, Settling, HoldoutId, Writing
      <4> QED BY <4>1
    <3> QED BY <2>3, <2>5, <3>2, <3>4 DEF Shelved, Backed, Touching, Settling
  <2> QED BY <1>3, <2>6, <2>7, <2>8, <2>9 DEF Step
<1> QED BY <1>1, <1>2, <1>3 DEF MCNext, Next

(* While no two runs overlap, a symbol is verified only on a holdout its   *)
(* own candidate consumed and nobody contaminated, whatever dies between.  *)
THEOREM VerifiedAlone == MCSpec => []VerifiedAloneIsClean
<1>1. MCInit => IInv /\ AloneInv
  BY Initially, AloneFirst DEF MCInit
<1>2. [MCNext]_<<vars, overlap>> => [Next]_vars
  BY DEF MCNext
<1>3. IInv /\ AloneInv /\ [MCNext]_<<vars, overlap>> => IInv' /\ AloneInv'
  BY <1>2, Inductive, AloneStep
<1>4. AloneInv => VerifiedAloneIsClean
  BY DEF AloneInv, VerifiedAloneIsClean
<1> QED BY <1>1, <1>3, <1>4, PTL DEF MCSpec
=============================================================================
