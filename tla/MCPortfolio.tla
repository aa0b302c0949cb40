------------------------------ MODULE MCPortfolio ------------------------------
(***************************************************************************)
(* Portfolio with three symbols: A and B share a sector and move together, *)
(* C stands apart and is leveraged. A share costs 5, 5 or 4 percent of the *)
(* equity, so that two entries, or an entry over a position, reach each of *)
(* the limits, the policy's defaults in percent (risks in hundredths).     *)
(***************************************************************************)
EXTENDS Portfolio

MCSymbols == {"A", "B", "C"}
MCPlans == {1, 2}
MCPrice == [s \in MCSymbols |-> CASE s = "A" -> 5 [] s = "B" -> 5 [] s = "C" -> 4]
MCStop == [s \in MCSymbols |-> CASE s = "A" -> 5 [] s = "B" -> 10 [] s = "C" -> 6]
Of(sector, currency, leverage, capacity) ==
    [sector |-> sector, currency |-> currency, beta |-> 1, leverage |-> leverage,
     capacity |-> capacity]
MCInfo == [s \in MCSymbols |-> IF s = "C" THEN Of("energy", "HKD", 2, 8)
                               ELSE Of("chips", "USD", 1, 20)]
MCCorrelated == {{"A", "B"}}
MCPolicy == [l \in Limits |->
    CASE l = "single" -> 10 [] l = "risk" -> 50 [] l = "gross" -> 25
      [] l = "stop" -> 150 [] l = "group" -> 15 [] l = "pair" -> 13
      [] l = "sector" -> 15 [] l = "currency" -> 25 [] l = "beta" -> 24
      [] l = "position" -> 16 [] l = "portfolio" -> 30]
MCPowers == {Unknown, 40}

Quiet == [eligible |-> TRUE, params |-> TRUE, known |-> TRUE,
          evidence |-> "accepted", report |-> "none", kelly |-> 9]
Entry == [Quiet EXCEPT !.report = "entry"]
Exit == [Quiet EXCEPT !.report = "exit"]

Day(a, b, c) == [s \in MCSymbols |-> CASE s = "A" -> a [] s = "B" -> b [] s = "C" -> c]

\* Ordinary days, and days on which one symbol is out of order.
MCMarkets ==
    {Day(Entry, Entry, Quiet), Day(Entry, Quiet, Entry), Day(Exit, Entry, Entry),
     Day(Exit, Quiet, Quiet),
     Day([Exit EXCEPT !.eligible = FALSE, !.evidence = "none"], Exit, Entry),
     Day([Entry EXCEPT !.evidence = "unaccepted"], [Exit EXCEPT !.params = FALSE], Quiet),
     Day([Entry EXCEPT !.known = FALSE], [Entry EXCEPT !.kelly = 20], Quiet)}

\* Nothing, positions within the policy, and positions that have outgrown it.
MCStarts ==
    {[s \in MCSymbols |-> CASE s = "A" -> n[1] [] s = "B" -> n[2] [] s = "C" -> n[3]] :
        n \in {<<0, 0, 0>>, <<2, 0, 0>>, <<0, 1, 0>>, <<1, 0, 2>>, <<2, 2, 2>>}}
=============================================================================
