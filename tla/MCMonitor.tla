-------------------------------- MODULE MCMonitor -------------------------------
(***************************************************************************)
(* Monitor with two symbols, one of them held, and the keys and payloads   *)
(* their signals can have.                                                 *)
(***************************************************************************)
EXTENDS Monitor, TLC

MCSymbols == {"held", "other"}
MCHeld == {"held"}
MCKeys == SignalKeys
Scene(commands, watchlist, scope, conditions, dispatchers, days, revisions) ==
    [commands |-> commands, watchlist |-> watchlist, scope |-> scope, conditions |-> conditions,
     dispatchers |-> dispatchers, days |-> days, revisions |-> revisions]
MCScenes ==
    {Scene({"intra"}, FALSE, {"held"}, {"intra"} \X {"pre_entry", "stop_proximity"}, {}, 1, 0),
     Scene({"intra"}, TRUE, {"held"}, {"intra"} \X {"pre_entry"}, {}, 2, 0),
     Scene({"intra"}, TRUE, MCSymbols, {"intra"} \X {"pre_entry", "data_blocked"}, {}, 1, 0),
     Scene({"pre", "intra"}, TRUE, {"held"},
           {<<"intra", "pre_entry">>, <<"intra", "stop_breached">>, <<"pre", "stop_breached">>},
           {}, 1, 0),
     Scene({"post"}, TRUE, {"held"}, {}, Dispatchers, 1, 0),
     Scene({"collect"}, TRUE, {"other"}, {}, Dispatchers, 1, 1)}
    \cup {Scene({"post"}, TRUE, {"held"}, {}, {d}, 1, 1) : d \in Dispatchers}
    \cup {Scene({"collect"}, TRUE, MCSymbols, {}, {d}, 1, 1) : d \in Dispatchers}
    \cup {Scene({"collect"}, TRUE, {"other"}, {}, {d}, 2, 2) : d \in Dispatchers}
MCConditions ==
    {"intra"} \X {"pre_entry", "stop_proximity", "stop_breached", "data_blocked"}
    \cup {<<"pre", "stop_breached">>}
MCPayloads == SignalPayloads
MCSymmetry == Permutations(Procs) \cup Permutations(Dispatchers)
=============================================================================
