----------------------------- MODULE MCOrderEvents -----------------------------
(***************************************************************************)
(* Small instances of OrderEvents: executiond and the reconciliation       *)
(* overlap or take turns.                                                  *)
(***************************************************************************)
EXTENDS OrderEvents

\* A limit order: every execution at the same price.
Flat == [l \in Levels |-> "p"]
\* The average price moves with every execution.
Moving == [l \in Levels |-> <<"p", l>>]

VARIABLE turns      \* the processes take turns

MCInit == Init /\ turns \in BOOLEAN
MCNext ==
    /\ Next /\ UNCHANGED turns
    /\ IF turns THEN \E p \in Procs : \A q \in Procs \ {p} : pc'[q] = "idle"
                ELSE troubles' =< 1 /\ pushed' =< 1
MCSpec == MCInit /\ [][MCNext]_<<vars, turns>>
MCFairSpec == MCSpec /\ Fairness

\* No fill is recorded that the broker did not execute, when the processes take
\* turns: applying a cumulative snapshot is idempotent (docstring of
\* _apply_order_snapshot).
RecordedInTurnsWasExecuted == turns => RecordedWasExecuted

\* Terminal states stay for good when the processes take turns (state.py:4-6).
TerminalStaysInTurns == [][turns /\ status \in Terminal => status' = status]_<<vars, turns>>

\* Polling recovers what pushes lost, when the processes take turns: once the order
\* is terminal at the broker the store has the same status and all of its fills
\* (broker_live.py:358).
CatchesUpInTurns ==
    \A s \in Terminal : (turns /\ bstat = s) ~> (status = s /\ total = executed)
===============================================================================
