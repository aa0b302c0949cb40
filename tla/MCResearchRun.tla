----------------------------- MODULE MCResearchRun -----------------------------
(***************************************************************************)
(* One run of ResearchRun with a cache command beside it, or two that      *)
(* overlap on the same bars.                                               *)
(***************************************************************************)
EXTENDS ResearchRun

VARIABLE overlap    \* whether more than one run may be under way

MCInit == Init /\ overlap \in BOOLEAN

Busy == {r \in Runs : ~At(r, "idle")}

MCNext ==
    /\ Next /\ UNCHANGED overlap
    /\ IF overlap THEN bars' = FirstBars ELSE Cardinality(Busy') =< 1

MCSpec == MCInit /\ [][MCNext]_<<vars, overlap>>

(* While no two runs overlap, the holdout behind a verified symbol is      *)
(* consumed by that candidate and not contaminated.                        *)
VerifiedAloneIsClean == ~overlap => VerifiedIsClean

(* set_lifecycle: "fail_count only grows", while no two runs overlap.      *)
FailsNeverDropAlone ==
    [][~overlap => lifecycle'.fails >= lifecycle.fails]_<<vars, overlap>>

===============================================================================
