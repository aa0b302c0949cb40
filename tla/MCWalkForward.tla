---------------------------- MODULE MCWalkForward ----------------------------
(***************************************************************************)
(* WalkForward over histories put together from short waves of bars: a      *)
(* climb, a climb that breaks (with a bar that opens below its low), a gap  *)
(* down that recovers, and a flat stretch with wide bars. A bar of a wave   *)
(* is <<open, high, low, close>> relative to the close before the wave.     *)
(***************************************************************************)
EXTENDS WalkForward

CONSTANTS WaveNames, Segments, Base

Waves == [
    climb |-> << <<0, 3, -1, 2>>, <<2, 5, 1, 4>>, <<4, 7, 4, 6>>, <<6, 7, 4, 5>>, <<5, 9, 3, 8>>, <<8, 10, 7, 10>> >>,
    breaks |-> << <<0, 3, -1, 2>>, <<2, 4, 2, 3>>, <<-15, -11, -14, -13>>, <<-13, -11, -14, -12>>,
                  <<-11, -6, -11, -7>>, <<-7, -3, -7, -4>> >>,
    gap |-> << <<0, 2, -1, 1>>, <<1, 3, 1, 3>>, <<-3, -1, -3, -2>>, <<-2, 2, -2, 0>>, <<2, 3, 1, 3>>, <<3, 5, 3, 4>> >>,
    wide |-> << <<0, 5, 0, 1>>, <<1, 4, -3, 0>>, <<0, 1, -4, 1>>, <<1, 2, 0, 1>>, <<1, 3, 0, 2>>, <<2, 2, 1, 1>> >>]

WaveLen == 6

History(waves) ==
    LET n == Len(waves) * WaveLen
        start[j \in 1 .. Len(waves)] == IF j = 1 THEN Base ELSE start[j - 1] + Waves[waves[j - 1]][WaveLen][4]
        bar(at, b) ==
            [open |-> at + b[1], high |-> at + b[2], low |-> at + b[3], close |-> at + b[4],
             volume |-> IF b[2] - b[3] > 4 THEN 1 ELSE 9, adx |-> IF Abs(b[4] - b[1]) > 1 THEN 30 ELSE 18, bull |-> b[4] > b[1]]
    IN [i \in 0 .. (n - 1) |-> bar(start[(i \div WaveLen) + 1], Waves[waves[(i \div WaveLen) + 1]][(i % WaveLen) + 1])]

\* The twin has other waves from segment c on.
Other(w) == CASE w = "climb" -> "breaks" [] w = "breaks" -> "gap" [] w = "gap" -> "wide" [] w = "wide" -> "climb"

MCPairs ==
    {[run |-> History(pair[1]),
      twin |-> History([j \in DOMAIN pair[1] |-> IF j < pair[2] THEN pair[1][j] ELSE Other(pair[1][j])]),
      cut |-> (pair[2] - 1) * WaveLen] :
        pair \in ([1 .. Segments -> WaveNames] \X (3 .. Segments)) \cup ([1 .. 2 -> WaveNames] \X {1})}

Params(entry, ma, mult, buffer, exit, adx) ==
    [entry_mode |-> entry, ma_period |-> ma, atr_multiple |-> mult, buffer |-> buffer,
     exit_mode |-> exit, adx |-> adx]

MCGrid == <<
    Params("momentum", 2, 1, 0, "chandelier", <<>>),
    Params("momentum", 3, 1, 0, "chandelier", <<>>),
    Params("pullback", 2, 1, 4, "chandelier_or_cross", <<>>),
    Params("donchian", 2, 2, 0, "ma_cross", <<>>),
    Params("breakout", 3, 1, 2, "chandelier", <<>>),
    Params("hybrid", 3, 1, 4, "chandelier_or_cross", <<TRUE, 20, 14, TRUE>>),
    Params("golden_cross", 3, 2, 0, "chandelier", <<>>) >>

MCDefault == Params("hybrid", 3, 1, 1, "chandelier", <<>>)
=============================================================================
