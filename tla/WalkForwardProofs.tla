-------------------------- MODULE WalkForwardProofs ---------------------------
(***************************************************************************)
(* Proofs about WalkForward for any pair of histories that agree below a    *)
(* cut, any grid and any numbers of the configuration: the windows of the   *)
(* four folds are in order and apart; nothing decided before the holdout is *)
(* opened depends on a bar of it; the choice of a fold depends on the bars   *)
(* before its test only; and every backtest reports trades that could have  *)
(* been made and a curve that ends with what they made of the money.        *)
(*                                                                         *)
(* The windows come first (WindowInv), then the holdout (BlindInv), which   *)
(* needs no more than that the same is made of the same. The rest needs the *)
(* functions of Backtest themselves. Recursive functions are unfolded       *)
(* once (AtrUnfold, CashUnfold, EngineUnfold) and what holds of all their   *)
(* values is shown at the least bar where it might not. MadeInv then says   *)
(* that whatever a state has computed is what these functions make of the   *)
(* development part, the cost and the number of the fold.                   *)
(***************************************************************************)
EXTENDS WalkForward, SequenceTheorems, FiniteSetTheorems, WellFoundedInduction, TLAPS

Stages == {"load", "train", "validate", "test", "replay", "decide", "holdout",
           "measure", "done", "short"}
Folding == {"train", "validate", "test"}

\* The two histories stay what they were: as long as each other, and the same
\* below the cut.
PairKept ==
    /\ DOMAIN hist = Sides /\ Bars(hist["run"]) \in Nat /\ cut \in Nat
    /\ \A s \in Sides : DOMAIN hist[s] = 0 .. (Bars(hist["run"]) - 1)
    /\ \A i \in DOMAIN hist["run"] : i < cut => hist["run"][i] = hist["twin"][i]
    /\ dev \in Nat /\ dev <= Bars(hist["run"])

\* Every fold so far has the windows of its number, and there are bars enough
\* for it.
FoldsInOrder ==
    /\ stage \in Stages
    /\ DOMAIN folds = Sides
    /\ \A s \in Sides : \E S : folds[s] \in Seq(S)
    /\ Len(folds["run"]) = Len(folds["twin"]) /\ Len(folds["run"]) <= 4
    /\ stage = "load" => folds["run"] = <<>> /\ folds["twin"] = <<>>
    /\ stage \in Folding => dev \div 2 >= MinFirstTrain /\ Len(folds["run"]) < 4
    /\ Len(folds["run"]) > 0 => dev \div 2 >= MinFirstTrain
    /\ \A s \in Sides : \A k \in DOMAIN folds[s] : folds[s][k].windows = Windows(dev, k)

WindowInv == PairKept /\ FoldsInOrder

\* What a decision is before the holdout.
Decisions(d) == \E fs, r : d = Decision(fs, r)

\* While the development part lies below the cut, everything made from it is the
\* same on both sides, up to the decision that opens the holdout.
SameSoFar ==
    /\ cost["run"] = cost["twin"]
    /\ stage \in Folding \cup {"replay", "decide", "holdout"} => prep["run"] = prep["twin"]
    /\ stage \in {"validate", "test", "decide"} => cands["run"] = cands["twin"]
    /\ stage = "test" => valid["run"] = valid["twin"]
    /\ folds["run"] = folds["twin"]
    /\ Decided => result["run"] = result["twin"]

\* A decision that waits for the holdout has not met it.
Waiting == stage \in {"holdout", "measure"} => \A s \in Sides : Decisions(result[s])

BlindInv == WindowInv /\ Waiting /\ (dev <= cut => SameSoFar)

(******************************* the windows ********************************)

\* The windows of a fold: its inner training is at least half the training and
\* not empty, and the four tests follow one another up to the end.
LEMMA WindowsApart ==
    ASSUME NEW n \in Nat, n \div 2 > 1, MinValidation \in Nat, NEW k \in 1 .. 4
    PROVE  /\ InnerStart(n, k) > 0
           /\ TrainEnd(n, k) <= 2 * InnerStart(n, k) + 1
           /\ InnerStart(n, k) <= TrainEnd(n, k)
           /\ TrainEnd(n, k) <= TestEnd(n, k)
           /\ TestEnd(n, k) <= n
           /\ \A j \in 1 .. (k - 1) : TestEnd(n, j) <= TrainEnd(n, k)
<1>1. TrainEnd(n, k) \in Nat /\ TrainEnd(n, k) >= 2 /\ TrainEnd(n, k) <= n
  <2>1. CASE k = 1
    BY <2>1, SMTT(30) DEF TrainEnd
  <2>2. CASE k = 2
    BY <2>2, SMTT(30) DEF TrainEnd
  <2>3. CASE k = 3
    BY <2>3, SMTT(30) DEF TrainEnd
  <2>4. CASE k = 4
    BY <2>4, SMTT(30) DEF TrainEnd
  <2> QED
    BY <2>1, <2>2, <2>3, <2>4, SMT
<1>2. \A j \in 1 .. (k - 1) : TrainEnd(n, j) + n \div 8 <= TrainEnd(n, k)
  <2> SUFFICES ASSUME NEW j \in 1 .. (k - 1)
               PROVE  TrainEnd(n, j) + n \div 8 <= TrainEnd(n, k)
    OBVIOUS
  <2>1. (3 + k) * n = (3 + j) * n + (k - j) * n /\ (k - j) * n >= n
    <3>1. k - j \in {1, 2, 3} /\ j \in {1, 2, 3}
      BY SMT
    <3> QED
      BY <3>1, SMTT(30)
  <2>2. (3 + j) * n \in Nat
    <3>1. j \in {1, 2, 3}
      BY SMT
    <3> QED
      BY <3>1, SMTT(30)
  <2>3. ASSUME NEW a \in Nat, NEW b \in Nat, b >= a + n
        PROVE  a \div 8 + n \div 8 <= b \div 8
    BY <2>3, SMTT(30)
  <2>4. (3 + k) * n \in Nat
    BY <2>1, <2>2, SMT
  <2> QED
    BY <2>1, <2>2, <2>3, <2>4 DEF TrainEnd
<1>3. /\ n \div 8 \in Nat
      /\ \A t \in Nat : t \div 2 \in Nat /\ t \div 5 \in Nat /\ t <= 2 * (t \div 2) + 1
                        /\ t \div 2 <= t /\ (t >= 2 => t \div 2 >= 1)
  BY SMTT(30)
<1>4. \A j \in 1 .. (k - 1) : TrainEnd(n, j) \in Int
  <2> SUFFICES ASSUME NEW j \in 1 .. (k - 1) PROVE TrainEnd(n, j) \in Int
    OBVIOUS
  <2>1. j \in {1, 2, 3}
    BY SMT
  <2> QED
    BY <2>1, SMTT(30) DEF TrainEnd
<1>5. DEFINE t == TrainEnd(n, k)
<1>6. /\ InnerStart(n, k) >= t \div 2 /\ InnerStart(n, k) <= t
      /\ InnerStart(n, k) \in Int
  <2>1. MaxOf(MinValidation, t \div 5) \in Nat
    BY <1>1, <1>3 DEF MaxOf
  <2> HIDE DEF t
  <2>2. InnerStart(n, k) = MaxOf(t \div 2, t - MaxOf(MinValidation, t \div 5))
    BY DEF InnerStart, t
  <2> QED
    BY <1>1, <1>3, <2>1, <2>2, SMT DEF MaxOf, t
<1>7. /\ TestEnd(n, k) \in Int /\ t <= TestEnd(n, k) /\ TestEnd(n, k) <= n
      /\ \A j \in 1 .. (k - 1) : TestEnd(n, j) <= TrainEnd(n, j) + n \div 8
  BY <1>1, <1>3, <1>4, SMT DEF TestEnd, MinOf
<1>8. \A j \in 1 .. (k - 1) : TestEnd(n, j) \in Int
  BY <1>3, <1>4, SMT DEF TestEnd, MinOf
<1> QED
  BY <1>1, <1>2, <1>3, <1>4, <1>6, <1>7, <1>8, SMT

LEMMA WindowParts ==
    ASSUME NEW n, NEW k
    PROVE  /\ Windows(n, k).train_end = TrainEnd(n, k)
           /\ Windows(n, k).inner_end = InnerStart(n, k)
           /\ Windows(n, k).test_start = TrainEnd(n, k)
           /\ Windows(n, k).test_end = TestEnd(n, k)
BY DEF Windows

\* A fold carries the windows it was made for.
LEMMA FoldWindows ==
    ASSUME NEW h, NEW x, NEW c, NEW n, NEW k, NEW cs, NEW vs
    PROVE  Fold(h, x, c, n, k, cs, vs).windows = Windows(n, k)
BY DEF Fold

\* A sequence with one more element of any kind is a sequence.
LEMMA AppendAny ==
    ASSUME NEW S, NEW q \in Seq(S), NEW e
    PROVE  /\ Append(q, e) \in Seq(S \cup {e})
           /\ Len(q) \in Nat /\ DOMAIN q = 1 .. Len(q)
           /\ Len(Append(q, e)) = Len(q) + 1
           /\ DOMAIN Append(q, e) = 1 .. (Len(q) + 1)
           /\ \A i \in 1 .. Len(q) : Append(q, e)[i] = q[i]
           /\ Append(q, e)[Len(q) + 1] = e
<1>1. q \in Seq(S \cup {e})
  BY SMT
<1> QED
  BY <1>1, AppendProperties, LenProperties

\* The development part is not longer than the history.
LEMMA LengthBound ==
    ASSUME NEW n \in Nat, MinHoldout \in Nat
    PROVE  HoldoutBars(n) \in Nat
<1>1. n \div 10 \in Nat
  BY SMTT(30)
<1> QED
  BY <1>1 DEF HoldoutBars, MaxOf

LEMMA WindowInit == Init => WindowInv
<1> SUFFICES ASSUME Init PROVE WindowInv
  OBVIOUS
<1>1. PICK pair \in Pairs : hist = [s \in Sides |-> pair[s]] /\ cut = pair.cut
  BY DEF Init
<1>2. PairKept
  <2>1. hist["run"] = pair.run /\ hist["twin"] = pair.twin /\ dev = 0
    BY <1>1 DEF Init, Sides
  <2>2. \A s \in Sides : s = "run" \/ s = "twin"
    BY DEF Sides
  <2> QED
    BY <1>1, <2>1, <2>2, PairsAgree, SMT DEF PairKept
<1>3. FoldsInOrder
  <2>1. folds["run"] = <<>> /\ folds["twin"] = <<>> /\ DOMAIN folds = Sides
        /\ \A s \in Sides : folds[s] = <<>>
    BY DEF Init, Sides
  <2>2. <<>> \in Seq({}) /\ Len(<<>>) = 0 /\ DOMAIN <<>> = {}
    BY SMT
  <2> QED
    BY <2>1, <2>2, SMT DEF Init, FoldsInOrder, Stages, Folding
<1> QED
  BY <1>2, <1>3 DEF WindowInv

\* Every step keeps the pair.
LEMMA PairStep == PairKept /\ [Next]_vars => PairKept'
<1> SUFFICES ASSUME PairKept, [Next]_vars PROVE PairKept'
  OBVIOUS
<1>1. CASE Divide
  <2>1. Length \in Int /\ Length <= Bars(hist["run"])
    BY Numbers, LengthBound DEF PairKept, Length
  <2>2. Length \in Nat
    BY <1>1, <2>1, Numbers DEF Divide
  <2>3. hist' = hist /\ cut' = cut /\ dev' = Length
    BY <1>1 DEF Divide
  <2> QED
    BY <2>1, <2>2, <2>3 DEF PairKept
<1>2. CASE ~Divide
  <2>1. hist' = hist /\ cut' = cut /\ dev' = dev
    BY <1>2 DEF Next, vars, TooShort, TrainGrid, Validate, TestChoice, ReplayNeighbours,
                Decide, Open, Measure
  <2> QED
    BY <2>1 DEF PairKept
<1> QED
  BY <1>1, <1>2

\* The fold made at a test joins its predecessors with its own number.
LEMMA TestStep ==
    ASSUME WindowInv, TestChoice
    PROVE  FoldsInOrder'
<1>1. /\ stage = "test" /\ dev' = dev
      /\ stage' = IF FoldNo = 4 THEN "replay" ELSE "train"
      /\ dev \div 2 >= MinFirstTrain
      /\ Len(folds["run"]) < 4 /\ Len(folds["run"]) = Len(folds["twin"])
  BY DEF TestChoice, WindowInv, FoldsInOrder, Folding
<1> DEFINE new(s) == Fold(Development(s), prep[s], cost[s], dev, FoldNo, cands[s], valid[s])
<1>2. folds' = [s \in Sides |-> Append(folds[s], new(s))]
  BY DEF TestChoice
<1> HIDE DEF new
<1>3. \A s \in Sides : folds'[s] = Append(folds[s], new(s))
  BY <1>2
<1>4. \A s \in Sides : new(s).windows = Windows(dev, FoldNo)
  BY FoldWindows DEF new
<1>5. \A s \in Sides : Len(folds[s]) = Len(folds["run"])
  BY <1>1 DEF Sides
<1>6. ASSUME NEW s \in Sides
      PROVE  /\ \E S : folds'[s] \in Seq(S)
             /\ Len(folds["run"]) \in Nat
             /\ Len(folds'[s]) = FoldNo
             /\ \A k \in DOMAIN folds'[s] : folds'[s][k].windows = Windows(dev, k)
  <2>1. PICK S : folds[s] \in Seq(S)
    BY DEF WindowInv, FoldsInOrder
  <2>2. /\ Append(folds[s], new(s)) \in Seq(S \cup {new(s)})
        /\ Len(folds[s]) \in Nat /\ DOMAIN folds[s] = 1 .. Len(folds[s])
        /\ Len(Append(folds[s], new(s))) = Len(folds[s]) + 1
        /\ DOMAIN Append(folds[s], new(s)) = 1 .. (Len(folds[s]) + 1)
        /\ \A i \in 1 .. Len(folds[s]) : Append(folds[s], new(s))[i] = folds[s][i]
        /\ Append(folds[s], new(s))[Len(folds[s]) + 1] = new(s)
    BY <2>1, AppendAny
  <2>3. FoldNo = Len(folds[s]) + 1
    BY <1>5 DEF FoldNo
  <2>4. \A k \in 1 .. (Len(folds[s]) + 1) :
            k \in 1 .. Len(folds[s]) \/ k = Len(folds[s]) + 1
    BY <2>2, SMT
  <2>5. \A k \in DOMAIN folds[s] : folds[s][k].windows = Windows(dev, k)
    BY DEF WindowInv, FoldsInOrder
  <2>6. \A k \in 1 .. (Len(folds[s]) + 1) :
            Append(folds[s], new(s))[k].windows = Windows(dev, k)
    BY <1>4, <2>2, <2>3, <2>4, <2>5
  <2> QED
    BY <1>3, <1>5, <2>2, <2>3, <2>6
<1>7. FoldNo \in Nat /\ FoldNo <= 4 /\ FoldNo > 0 /\ (FoldNo # 4 => FoldNo < 4)
  BY <1>1, <1>6 DEF FoldNo, Sides
<1>8. Len(folds["run"])' = FoldNo /\ Len(folds["twin"])' = FoldNo
  BY <1>6 DEF Sides
<1>9. DOMAIN folds' = Sides
  BY <1>2
<1>10. \A s \in Sides : \E S : folds'[s] \in Seq(S)
  BY <1>6
<1>11. \A s \in Sides : \A k \in DOMAIN folds'[s] : folds'[s][k].windows = Windows(dev', k)
  BY <1>1, <1>6
<1> QED
  BY <1>1, <1>7, <1>8, <1>9, <1>10, <1>11 DEF FoldsInOrder, Stages, Folding, Windows, TrainEnd,
     InnerStart, TestEnd

LEMMA WindowStep == WindowInv /\ [Next]_vars => WindowInv'
<1> SUFFICES ASSUME WindowInv, [Next]_vars PROVE WindowInv'
  OBVIOUS
<1>1. PairKept'
  BY PairStep DEF WindowInv
<1>2. FoldsInOrder'
  <2>1. CASE TestChoice
    BY <2>1, TestStep
  <2>2. CASE Divide
    <3>1. /\ stage = "load" /\ folds' = folds /\ dev' = Length
          /\ stage' = IF Length \div 2 < MinFirstTrain THEN "replay" ELSE "train"
      BY <2>2 DEF Divide
    <3>2. folds["run"] = <<>> /\ folds["twin"] = <<>>
      BY <3>1 DEF WindowInv, FoldsInOrder
    <3>3. Length \in Nat
      BY <1>1, <3>1 DEF PairKept
    <3>4. stage' = "train" => Length \div 2 >= MinFirstTrain
      BY <3>1, <3>3, Numbers, SMT
    <3>5. \A s \in Sides : folds[s] = <<>>
      BY <3>2 DEF Sides
    <3>6. DOMAIN <<>> = {} /\ Len(<<>>) = 0
      BY SMT
    <3>7. stage' \in {"replay", "train"}
      BY <3>1
    <3> QED
      BY <3>1, <3>2, <3>4, <3>5, <3>6, <3>7 DEF WindowInv, FoldsInOrder, Stages, Folding
  <2>3. CASE ~TestChoice /\ ~Divide
    <3>1. folds' = folds /\ dev' = dev
      BY <2>3 DEF Next, vars, TooShort, TrainGrid, Validate, ReplayNeighbours, Decide, Open, Measure
    <3>2. stage' \in Stages /\ (stage' = "load" => stage = "load")
          /\ (stage' \in Folding => stage \in Folding)
      BY <2>3 DEF Next, vars, TooShort, TrainGrid, Validate, ReplayNeighbours, Decide, Open,
                  Measure, Stages, Folding, WindowInv, FoldsInOrder
    <3> QED
      BY <3>1, <3>2 DEF WindowInv, FoldsInOrder, Windows, TrainEnd, InnerStart, TestEnd
  <2> QED
    BY <2>1, <2>2, <2>3
<1> QED
  BY <1>1, <1>2 DEF WindowInv

\* The windows of the folds are in order and apart, whatever the length of the
\* history and the configured minima.
LEMMA WindowsFollow == WindowInv => OosIsUnseen
<1> SUFFICES ASSUME WindowInv, NEW s \in Sides, NEW k \in DOMAIN folds[s]
             PROVE  LET w == folds[s][k].windows
                    IN /\ 0 < w.inner_end /\ w.train_end <= 2 * w.inner_end + 1
                       /\ w.inner_end <= w.train_end /\ w.train_end <= w.test_start
                       /\ w.test_start <= w.test_end /\ w.test_end <= dev
                       /\ \A j \in 1 .. (k - 1) : folds[s][j].windows.test_end <= w.test_start
  BY DEF OosIsUnseen
<1>1. PICK S : folds[s] \in Seq(S)
  BY DEF WindowInv, FoldsInOrder
<1>2. Len(folds[s]) \in Nat /\ DOMAIN folds[s] = 1 .. Len(folds[s])
  BY <1>1, LenProperties
<1>3. Len(folds[s]) = Len(folds["run"]) /\ Len(folds["run"]) <= 4
  BY DEF WindowInv, FoldsInOrder, Sides
<1>4. k \in 1 .. 4 /\ Len(folds["run"]) > 0
  BY <1>2, <1>3, SMT
<1>5. dev \in Nat /\ dev \div 2 > 1 /\ MinValidation \in Nat
  <2>1. dev \in Nat /\ dev \div 2 >= MinFirstTrain
    BY <1>4 DEF WindowInv, PairKept, FoldsInOrder
  <2>2. dev \div 2 \in Nat
    BY <2>1, SMTT(30)
  <2> QED
    BY <2>1, <2>2, Numbers
<1>6. \A j \in DOMAIN folds[s] : folds[s][j].windows = Windows(dev, j)
  BY DEF WindowInv, FoldsInOrder
<1>7. \A j \in 1 .. (k - 1) : j \in DOMAIN folds[s]
  BY <1>2, SMT
<1>8. \A j \in 1 .. (k - 1) : folds[s][j].windows.test_end = TestEnd(dev, j)
  BY <1>6, <1>7, WindowParts
<1>9. /\ folds[s][k].windows.inner_end = InnerStart(dev, k)
      /\ folds[s][k].windows.train_end = TrainEnd(dev, k)
      /\ folds[s][k].windows.test_start = TrainEnd(dev, k)
      /\ folds[s][k].windows.test_end = TestEnd(dev, k)
  <2>1. folds[s][k].windows = Windows(dev, k)
    BY <1>6
  <2> QED
    BY <2>1, WindowParts
<1>10. TrainEnd(dev, k) <= TrainEnd(dev, k)
  <2>1. TrainEnd(dev, k) \in Int
    BY <1>4, <1>5, SMTT(30) DEF TrainEnd
  <2> QED
    BY <2>1
<1> QED
  BY <1>4, <1>5, <1>8, <1>9, <1>10, WindowsApart

\* The out-of-sample windows of run_walk_forward are unseen: an inner training
\* of at least half the training, a validation that ends where the test begins,
\* tests that do not overlap, and no window that reaches into the holdout.
THEOREM WindowsAreApart == Spec => []OosIsUnseen
<1>1. Spec => []WindowInv
  BY WindowInit, WindowStep, PTL DEF Spec
<1> QED
  BY <1>1, WindowsFollow, PTL

(************************** what is seen when *******************************)

\* A verified decision that meets the holdout keeps what it measured.
LEMMA HoldoutMet ==
    ASSUME NEW h, NEW x, NEW c, NEW fs, NEW d, Decisions(d)
    PROVE  AfterHoldout(h, x, c, fs, d).holdout # <<>>
<1>1. PICK gs, r : d = Decision(gs, r)
  BY DEF Decisions
<1>2. AfterHoldout(h, x, c, fs, d).holdout = <<Run(h, x, d.params, c, dev, Bars(h))>>
  BY <1>1 DEF Decision, AfterHoldout
<1> QED
  BY <1>2, SMT

\* Below the cut the two development parts are one.
LEMMA SameSlice ==
    ASSUME PairKept, NEW n \in Nat, n <= cut, n <= Bars(hist["run"])
    PROVE  Slice(hist["run"], n) = Slice(hist["twin"], n)
<1>1. \A i \in 0 .. (n - 1) : hist["run"][i] = hist["twin"][i]
  <2>1. \A i \in 0 .. (n - 1) : i \in 0 .. (Bars(hist["run"]) - 1) /\ i < cut
    BY SMT DEF PairKept
  <2> QED
    BY <2>1 DEF PairKept, Sides
<1> QED
  BY <1>1 DEF Slice

LEMMA BlindInit == Init => BlindInv
<1> SUFFICES ASSUME Init PROVE BlindInv
  OBVIOUS
<1>1. WindowInv
  BY WindowInit
<1>2. SameSoFar
  BY DEF Init, SameSoFar, Folding, Decided, Sides
<1>3. Waiting
  BY DEF Init, Waiting
<1> QED
  BY <1>1, <1>2, <1>3 DEF BlindInv

LEMMA WaitingStep == Waiting /\ [Next]_vars => Waiting'
<1> SUFFICES ASSUME Waiting, [Next]_vars PROVE Waiting'
  OBVIOUS
<1>1. CASE Decide
  <2>1. \A s \in Sides : result'[s] = Decision(folds[s], cands[s])
    BY <1>1 DEF Decide
  <2>2. \A s \in Sides : Decisions(result'[s])
    BY <2>1 DEF Decisions
  <2> QED
    BY <2>2 DEF Waiting, Decisions
<1>2. CASE ~Decide
  <2>1. stage' \in {"holdout", "measure"} => stage \in {"holdout", "measure"} /\ result' = result
    BY <1>2 DEF Next, vars, TooShort, Divide, TrainGrid, Validate, TestChoice, ReplayNeighbours,
                Open, Measure
  <2> QED
    BY <2>1 DEF Waiting, Decisions
<1> QED
  BY <1>1, <1>2

\* One step makes the same of the same.
LEMMA SameStep ==
    ASSUME BlindInv, Next, dev' <= cut
    PROVE  SameSoFar'
<1>1. PairKept /\ Waiting /\ "run" \in Sides /\ "twin" \in Sides
  BY DEF BlindInv, WindowInv, Sides
<1>2. CASE TooShort
  <2>1. SameSoFar
    BY <1>2 DEF TooShort, BlindInv
  <2> QED
    BY <1>2, <2>1 DEF TooShort, SameSoFar, Folding, Decided
<1>3. CASE Divide
  <2>1. dev' = Length /\ Length \in Nat /\ Length <= cut /\ Length <= Bars(hist["run"])
    <3>1. PairKept'
      BY <1>1, <1>3, PairStep
    <3>2. dev' = Length /\ hist' = hist
      BY <1>3 DEF Divide
    <3> QED
      BY <3>1, <3>2 DEF PairKept
  <2>2. Slice(hist["run"], Length) = Slice(hist["twin"], Length)
    BY <1>1, <2>1, SameSlice
  <2>3. cost'["run"] = cost'["twin"] /\ prep'["run"] = prep'["twin"]
    BY <1>1, <1>3, <2>2 DEF Divide
  <2>4. folds' = folds /\ folds["run"] = folds["twin"]
    BY <1>3 DEF Divide, BlindInv, WindowInv, FoldsInOrder
  <2>5. stage' \in {"replay", "train"}
    BY <1>3 DEF Divide
  <2> QED
    BY <2>3, <2>4, <2>5 DEF SameSoFar, Folding, Decided
<1>4. ASSUME ~TooShort, ~Divide
      PROVE  /\ dev' = dev /\ cost' = cost /\ dev \in Nat
             /\ SameSoFar
             /\ Development("run") = Development("twin")
  <2>1. dev' = dev /\ cost' = cost
    BY <1>4 DEF Next, TrainGrid, Validate, TestChoice, ReplayNeighbours, Decide, Open, Measure
  <2>2. dev \in Nat /\ dev <= Bars(hist["run"])
    BY <1>1 DEF PairKept
  <2>3. SameSoFar
    BY <2>1 DEF BlindInv
  <2> QED
    BY <1>1, <2>1, <2>2, <2>3, SameSlice DEF Development
<1>5. CASE TrainGrid
  <2>1. stage = "train" /\ stage' = "validate" /\ UNCHANGED <<cost, prep, folds>>
    BY <1>5 DEF TrainGrid
  <2>2. SameSoFar /\ Development("run") = Development("twin")
    BY <1>4, <2>1 DEF TooShort, Divide
  <2>3. prep["run"] = prep["twin"] /\ cost["run"] = cost["twin"] /\ folds["run"] = folds["twin"]
    BY <2>1, <2>2 DEF SameSoFar, Folding
  <2>4. cands'["run"] = cands'["twin"]
    BY <1>1, <1>5, <2>2, <2>3 DEF TrainGrid
  <2> QED
    BY <2>1, <2>3, <2>4 DEF SameSoFar, Decided
<1>6. CASE Validate
  <2>1. stage = "validate" /\ stage' = "test" /\ UNCHANGED <<cost, prep, cands, folds>>
    BY <1>6 DEF Validate
  <2>2. SameSoFar /\ Development("run") = Development("twin")
    BY <1>4, <2>1 DEF TooShort, Divide
  <2>3. /\ prep["run"] = prep["twin"] /\ cost["run"] = cost["twin"] /\ folds["run"] = folds["twin"]
        /\ cands["run"] = cands["twin"]
    BY <2>1, <2>2 DEF SameSoFar, Folding
  <2>4. valid'["run"] = valid'["twin"]
    BY <1>1, <1>6, <2>2, <2>3 DEF Validate
  <2> QED
    BY <2>1, <2>3, <2>4 DEF SameSoFar, Decided
<1>7. CASE TestChoice
  <2>1. /\ stage = "test" /\ stage' \in {"replay", "train"} /\ UNCHANGED <<cost, prep>>
        /\ folds' = [s \in Sides |-> Append(folds[s], Fold(Development(s), prep[s], cost[s], dev,
                                                          FoldNo, cands[s], valid[s]))]
    BY <1>7 DEF TestChoice
  <2>2. SameSoFar /\ Development("run") = Development("twin")
    BY <1>4, <2>1 DEF TooShort, Divide
  <2>3. /\ prep["run"] = prep["twin"] /\ cost["run"] = cost["twin"] /\ folds["run"] = folds["twin"]
        /\ cands["run"] = cands["twin"] /\ valid["run"] = valid["twin"]
    BY <2>1, <2>2 DEF SameSoFar, Folding
  <2>4. folds'["run"] = folds'["twin"]
    BY <1>1, <2>1, <2>2, <2>3
  <2> QED
    BY <2>1, <2>3, <2>4 DEF SameSoFar, Decided
<1>8. CASE ReplayNeighbours
  <2>1. stage = "replay" /\ stage' = "decide" /\ UNCHANGED <<cost, prep, folds>>
    BY <1>8 DEF ReplayNeighbours
  <2>2. SameSoFar /\ Development("run") = Development("twin")
    BY <1>4, <2>1 DEF TooShort, Divide
  <2>3. prep["run"] = prep["twin"] /\ cost["run"] = cost["twin"] /\ folds["run"] = folds["twin"]
    BY <2>1, <2>2 DEF SameSoFar
  <2>4. cands'["run"] = cands'["twin"]
    BY <1>1, <1>8, <2>2, <2>3 DEF ReplayNeighbours
  <2> QED
    BY <2>1, <2>3, <2>4 DEF SameSoFar, Decided
<1>9. CASE Decide
  <2>1. stage = "decide" /\ stage' \in {"holdout", "done"} /\ UNCHANGED <<cost, prep, folds>>
    BY <1>9 DEF Decide
  <2>2. SameSoFar
    BY <1>4, <2>1 DEF TooShort, Divide
  <2>3. /\ prep["run"] = prep["twin"] /\ cost["run"] = cost["twin"] /\ folds["run"] = folds["twin"]
        /\ cands["run"] = cands["twin"]
    BY <2>1, <2>2 DEF SameSoFar
  <2>4. result'["run"] = result'["twin"]
    BY <1>1, <1>9, <2>3 DEF Decide
  <2> QED
    BY <2>1, <2>3, <2>4 DEF SameSoFar, Decided
<1>10. CASE Open
  <2>1. stage = "holdout" /\ stage' = "measure" /\ UNCHANGED <<cost, folds, result>>
    BY <1>10 DEF Open
  <2>2. SameSoFar
    BY <1>4, <2>1 DEF TooShort, Divide
  <2>3. /\ cost["run"] = cost["twin"] /\ folds["run"] = folds["twin"]
        /\ result["run"] = result["twin"]
    BY <2>1, <2>2 DEF SameSoFar, Decided
  <2> QED
    BY <2>1, <2>3 DEF SameSoFar, Folding, Decided
<1>11. CASE Measure
  <2>1. stage = "measure" /\ stage' = "done" /\ UNCHANGED <<cost, folds>>
    BY <1>11 DEF Measure
  <2>2. SameSoFar
    BY <1>4, <2>1 DEF TooShort, Divide
  <2>3. /\ cost["run"] = cost["twin"] /\ folds["run"] = folds["twin"]
        /\ result["run"] = result["twin"]
    BY <2>1, <2>2 DEF SameSoFar, Decided
  <2>4. \A s \in Sides : result'[s] =
            IF result[s].status = "verified"
            THEN AfterHoldout(hist[s], prep[s], cost[s], folds[s], result[s]) ELSE result[s]
    BY <1>11 DEF Measure
  <2>5. CASE result["run"].status = "verified"
    <3>1. Decisions(result["run"])
      BY <1>1, <2>1 DEF Waiting
    <3>2. AfterHoldout(hist["run"], prep["run"], cost["run"], folds["run"], result["run"]).holdout # <<>>
      BY <3>1, HoldoutMet
    <3>3. ~Decided'
      BY <1>1, <2>1, <2>4, <2>5, <3>2 DEF Decided
    <3> QED
      BY <2>1, <2>3, <3>3 DEF SameSoFar, Folding
  <2>6. CASE result["run"].status # "verified"
    <3>1. result'["run"] = result'["twin"]
      BY <1>1, <2>3, <2>4, <2>6
    <3> QED
      BY <2>1, <2>3, <3>1 DEF SameSoFar, Folding
  <2> QED
    BY <2>5, <2>6
<1> QED
  BY <1>2, <1>3, <1>5, <1>6, <1>7, <1>8, <1>9, <1>10, <1>11 DEF Next

LEMMA BlindStep == BlindInv /\ [Next]_vars => BlindInv'
<1> SUFFICES ASSUME BlindInv, [Next]_vars PROVE BlindInv'
  OBVIOUS
<1>1. WindowInv' /\ Waiting'
  BY WindowStep, WaitingStep DEF BlindInv
<1>2. cut' = cut
  BY DEF Next, vars, TooShort, Divide, TrainGrid, Validate, TestChoice, ReplayNeighbours, Decide,
         Open, Measure
<1>3. CASE Next
  BY <1>1, <1>2, <1>3, SameStep DEF BlindInv
<1>4. CASE UNCHANGED vars
  <2>1. dev <= cut => SameSoFar'
    BY <1>4 DEF vars, BlindInv, SameSoFar, Decided
  <2> QED
    BY <1>1, <1>2, <1>4, <2>1 DEF BlindInv, vars
<1> QED
  BY <1>3, <1>4

\* The final holdout is unseen by research_symbol: the estimated cost, the
\* candidate and the decision that may open the holdout are the same for any
\* two histories that agree on the development part.
THEOREM HoldoutStaysUnseen == Spec => []HoldoutIsUnseen
<1>1. Spec => []BlindInv
  BY BlindInit, BlindStep, PTL DEF Spec
<1>2. BlindInv => HoldoutIsUnseen
  BY DEF BlindInv, SameSoFar, HoldoutIsUnseen
<1> QED
  BY <1>1, <1>2, PTL

(******************** the indicators of the bars before *********************)

\* Numbers have a least one.
LEMMA NatMin == ASSUME NEW T, T \subseteq Nat, T # {} PROVE \E x \in T : \A y \in T : x <= y
<1> DEFINE Less == OpToRel(<, Nat)
<1>1. IsWellFoundedOn(Less, Nat)
  BY NatLessThanWellFounded
<1>2. \A a, b \in Nat : a < b => <<a, b>> \in Less
  BY DEF OpToRel
<1> HIDE DEF Less
<1>3. PICK x \in T : \A y \in T : ~(<<y, x>> \in Less)
  BY <1>1, WFMin, Zenon
<1>4. ASSUME NEW y \in T PROVE x <= y
  <2>1. x \in Nat /\ y \in Nat
    OBVIOUS
  <2>2. ~(y < x)
    BY <1>2, <1>3, <2>1
  <2>3. QED
    BY <2>1, <2>2
<1>5. QED
  BY <1>4

SameUpTo(f, g, n) == \A i \in 0 .. (n - 1) : f[i] = g[i]

\* An average up to bar n - 1 reads the values up to it.
LEMMA SmaSame ==
    ASSUME NEW N \in Nat, NEW n \in Nat, n <= N, NEW f, NEW g, NEW P \in Nat \ {0},
           DOMAIN f = 0 .. (N - 1), DOMAIN g = 0 .. (N - 1), SameUpTo(f, g, n)
    PROVE  /\ SameUpTo(Sma(f, P), Sma(g, P), n)
           /\ DOMAIN Sma(f, P) = 0 .. (N - 1)
<1>1. DOMAIN Sma(f, P) = 0 .. (N - 1)
  BY DEF Sma
<1>2. ASSUME NEW i \in 0 .. (n - 1) PROVE Sma(f, P)[i] = Sma(g, P)[i]
  <2>1. i \in DOMAIN f /\ i \in DOMAIN g
    OBVIOUS
  <2>2. CASE i < P - 1
    BY <2>1, <2>2 DEF Sma
  <2>3. CASE ~(i < P - 1)
    <3>1. \A j \in (i - P + 1) .. i : f[j] = g[j]
      BY <2>3 DEF SameUpTo
    <3>2. [j \in (i - P + 1) .. i |-> f[j]] = [j \in (i - P + 1) .. i |-> g[j]]
      BY <3>1
    <3> QED
      BY <2>1, <2>3, <3>2 DEF Sma
  <2> QED
    BY <2>2, <2>3
<1> QED
  BY <1>1, <1>2 DEF SameUpTo

\* So does its slope.
LEMMA SlopeSame ==
    ASSUME NEW N \in Nat, NEW n \in Nat, n <= N, NEW f, NEW g,
           DOMAIN f = 0 .. (N - 1), DOMAIN g = 0 .. (N - 1), SameUpTo(f, g, n)
    PROVE  SameUpTo(Slope(f), Slope(g), n)
<1> DEFINE L == SlopeLookback
<1>1. L \in Nat \ {0}
  BY Settings
<1> SUFFICES ASSUME NEW i \in 0 .. (n - 1) PROVE Slope(f)[i] = Slope(g)[i]
  BY DEF SameUpTo
<1>2. i \in DOMAIN f /\ i \in DOMAIN g
  OBVIOUS
<1>3. CASE i < L - 1
  BY <1>2, <1>3 DEF Slope
<1>4. CASE ~(i < L - 1)
  <2>1. \A k \in 0 .. (L - 1) : i - L + 1 + k \in 0 .. (n - 1)
    BY <1>1, <1>4
  <2>2. \A k \in 0 .. (L - 1) : f[i - L + 1 + k] = g[i - L + 1 + k]
    BY <2>1 DEF SameUpTo
  <2>3. [k \in 0 .. (L - 1) |-> (2 * k - (L - 1)) * f[i - L + 1 + k]]
           = [k \in 0 .. (L - 1) |-> (2 * k - (L - 1)) * g[i - L + 1 + k]]
    BY <2>2, Zenon
  <2> QED
    BY <1>2, <1>4, <2>3 DEF Slope
<1> QED
  BY <1>3, <1>4

\* What Wilder's average makes of the average before it.
AtrBody(h, f, i) ==
    IF i < AtrPeriod THEN 0
    ELSE IF i = AtrPeriod THEN SumFunction([j \in 1 .. AtrPeriod |-> TrueRange(h, j)]) \div AtrPeriod
    ELSE (f[i - 1] * (AtrPeriod - 1) + TrueRange(h, i)) \div AtrPeriod
AtrRec(h, f, n) == f = [i \in 0 .. (n - 1) |-> AtrBody(h, f, i)]

\* Wilder's recurrence defines an average over any number of bars.
LEMMA AtrExists == \A h : \A n \in Nat : \E f : AtrRec(h, f, n)
<1> SUFFICES ASSUME NEW h, {n \in Nat : ~\E f : AtrRec(h, f, n)} # {} PROVE FALSE
  OBVIOUS
<1> DEFINE Bad == {n \in Nat : ~\E f : AtrRec(h, f, n)}
<1>1. PICK n \in Bad : \A m \in Bad : n <= m
  <2>1. Bad \subseteq Nat /\ Bad # {}
    OBVIOUS
  <2> HIDE DEF Bad
  <2> QED
    BY <2>1, NatMin
<1>2. n \in Nat /\ ~\E f : AtrRec(h, f, n)
  OBVIOUS
<1>3. n # 0
  <2>1. ASSUME n = 0 PROVE FALSE
    <3> DEFINE f == [i \in 0 .. (0 - 1) |-> 0]
    <3>1. f = [i \in 0 .. (0 - 1) |-> AtrBody(h, f, i)]
      <4>1. 0 .. (0 - 1) = {}
        OBVIOUS
      <4> QED
        BY <4>1
    <3> QED
      BY <1>2, <2>1, <3>1 DEF AtrRec
  <2> QED
    BY <2>1
<1>4. n - 1 \in Nat /\ n - 1 \notin Bad
  BY <1>1, <1>2, <1>3
<1>5. PICK f : AtrRec(h, f, n - 1)
  BY <1>4
<1> DEFINE g == [i \in 0 .. (n - 1) |-> IF i = n - 1 THEN AtrBody(h, f, i) ELSE f[i]]
<1>6. ASSUME NEW i \in 0 .. (n - 1) PROVE g[i] = AtrBody(h, g, i)
  <2>1. i # 0 => g[i - 1] = f[i - 1]
    BY <1>2
  <2>2. AtrBody(h, f, i) = AtrBody(h, g, i)
    <3>1. i = 0 => i < AtrPeriod
      BY Settings
    <3> HIDE DEF g
    <3> QED
      BY <2>1, <3>1 DEF AtrBody
  <2>3. i # n - 1 => f[i] = AtrBody(h, f, i)
    <3>1. f = [k \in 0 .. ((n - 1) - 1) |-> AtrBody(h, f, k)]
      BY <1>5 DEF AtrRec
    <3>2. i # n - 1 => i \in 0 .. ((n - 1) - 1)
      BY <1>2
    <3> QED
      BY <3>1, <3>2, Zenon
  <2> QED
    BY <2>2, <2>3
<1>7. AtrRec(h, g, n)
  <2>1. g = [i \in 0 .. (n - 1) |-> g[i]]
    OBVIOUS
  <2> HIDE DEF g
  <2>2. [i \in 0 .. (n - 1) |-> g[i]] = [i \in 0 .. (n - 1) |-> AtrBody(h, g, i)]
    BY <1>6
  <2> QED
    BY <2>1, <2>2 DEF AtrRec
<1> QED
  BY <1>2, <1>7

\* The average true range is the one it defines.
LEMMA AtrUnfold ==
    ASSUME NEW N \in Nat, NEW h, DOMAIN h = 0 .. (N - 1)
    PROVE  /\ DOMAIN Atr(h) = 0 .. (N - 1)
           /\ \A i \in 0 .. (N - 1) : Atr(h)[i] = AtrBody(h, Atr(h), i)
<1>1. Atr(h) = CHOOSE f : AtrRec(h, f, N)
  BY DEF Atr, AtrRec, AtrBody
<1>2. AtrRec(h, Atr(h), N)
  BY <1>1, AtrExists
<1> QED
  <2> DEFINE f == Atr(h)
  <2>1. f = [i \in 0 .. (N - 1) |-> AtrBody(h, f, i)]
    BY <1>2 DEF AtrRec
  <2> HIDE DEF f
  <2>2. DOMAIN f = 0 .. (N - 1) /\ \A i \in 0 .. (N - 1) : f[i] = AtrBody(h, f, i)
    BY <2>1, Zenon
  <2> QED
    BY <2>2 DEF f

\* The average true range of a bar reads the bars up to it.
LEMMA AtrSame ==
    ASSUME NEW N \in Nat, NEW n \in Nat, n <= N, NEW h, NEW g,
           DOMAIN h = 0 .. (N - 1), DOMAIN g = 0 .. (N - 1), SameUpTo(h, g, n)
    PROVE  SameUpTo(Atr(h), Atr(g), n)
<1> DEFINE Bad == {i \in 0 .. (n - 1) : Atr(h)[i] # Atr(g)[i]}
<1> SUFFICES ASSUME Bad # {} PROVE FALSE
  BY DEF SameUpTo
<1>1. PICK i \in Bad : \A m \in Bad : i <= m
  <2>1. Bad \subseteq Nat
    OBVIOUS
  <2> HIDE DEF Bad
  <2> QED
    BY <2>1, NatMin
<1>2. i \in 0 .. (n - 1) /\ i \in 0 .. (N - 1) /\ Atr(h)[i] # Atr(g)[i]
  OBVIOUS
<1>3. \A j \in 0 .. (n - 1) : j < i => Atr(h)[j] = Atr(g)[j]
  BY <1>1
<1> HIDE DEF Bad
<1>4. Atr(h)[i] = AtrBody(h, Atr(h), i) /\ Atr(g)[i] = AtrBody(g, Atr(g), i)
  BY <1>2, AtrUnfold
<1>5. \A j \in 1 .. i : TrueRange(h, j) = TrueRange(g, j)
  <2>1. \A j \in 1 .. i : h[j] = g[j] /\ h[j - 1] = g[j - 1]
    BY <1>2 DEF SameUpTo
  <2> QED
    BY <2>1 DEF TrueRange
<1>6. AtrPeriod \in Nat \ {0}
  BY Settings
<1>7. CASE i < AtrPeriod
  BY <1>2, <1>4, <1>7 DEF AtrBody
<1>8. CASE i = AtrPeriod
  <2>1. [j \in 1 .. AtrPeriod |-> TrueRange(h, j)] = [j \in 1 .. AtrPeriod |-> TrueRange(g, j)]
    BY <1>5, <1>8, Zenon
  <2> QED
    BY <1>2, <1>4, <1>6, <1>8, <2>1 DEF AtrBody
<1>9. CASE i > AtrPeriod
  <2>1. Atr(h)[i - 1] = Atr(g)[i - 1]
    BY <1>2, <1>3, <1>6, <1>9
  <2>2. TrueRange(h, i) = TrueRange(g, i)
    BY <1>2, <1>5, <1>6, <1>9
  <2> QED
    BY <1>2, <1>4, <1>6, <1>9, <2>1, <2>2 DEF AtrBody
<1> QED
  BY <1>2, <1>6, <1>7, <1>8, <1>9

\* The histories h and g, and what was precomputed from them for period P, are
\* the same below bar n.
Alike(h, x, g, y, P, n) ==
    /\ SameUpTo(h, g, n)
    /\ SameUpTo(x.mas[P], y.mas[P], n) /\ SameUpTo(x.slopes[P], y.slopes[P], n)
    /\ SameUpTo(x.fast, y.fast, n) /\ SameUpTo(x.slow, y.slow, n) /\ SameUpTo(x.atr, y.atr, n)

\* What is precomputed for a bar reads the bars up to it.
LEMMA PreparedAlike ==
    ASSUME NEW N \in Nat, NEW n \in Nat, n <= N, NEW h, NEW g,
           DOMAIN h = 0 .. (N - 1), DOMAIN g = 0 .. (N - 1), SameUpTo(h, g, n),
           NEW S, NEW P \in S, P \in Nat \ {0}
    PROVE  Alike(h, Prepare(h, S), g, Prepare(g, S), P, n)
<1>1. /\ DOMAIN Closes(h) = 0 .. (N - 1) /\ DOMAIN Closes(g) = 0 .. (N - 1)
      /\ SameUpTo(Closes(h), Closes(g), n)
  BY DEF Closes, SameUpTo
<1>2. FastPeriod \in Nat \ {0} /\ SlowPeriod \in Nat \ {0}
  BY Settings
<1> DEFINE a == Sma(Closes(h), P)
           b == Sma(Closes(g), P)
<1>3. /\ SameUpTo(a, b, n)
      /\ DOMAIN a = 0 .. (N - 1) /\ DOMAIN b = 0 .. (N - 1)
  <2>1. SameUpTo(a, b, n)
    BY <1>1, SmaSame
  <2>2. DOMAIN a = 0 .. (N - 1) /\ DOMAIN b = 0 .. (N - 1)
    BY <1>1 DEF Sma
  <2> QED
    BY <2>1, <2>2
<1>4. SameUpTo(Slope(a), Slope(b), n)
  <2> HIDE DEF a, b
  <2> QED
    BY <1>3, SlopeSame
<1>5. /\ SameUpTo(Sma(Closes(h), FastPeriod), Sma(Closes(g), FastPeriod), n)
      /\ SameUpTo(Sma(Closes(h), SlowPeriod), Sma(Closes(g), SlowPeriod), n)
  BY <1>1, <1>2, SmaSame
<1>6. SameUpTo(Atr(h), Atr(g), n)
  BY AtrSame
<1>7. /\ Prepare(h, S).mas[P] = a /\ Prepare(g, S).mas[P] = b
      /\ Prepare(h, S).slopes[P] = Slope(a) /\ Prepare(g, S).slopes[P] = Slope(b)
      /\ Prepare(h, S).fast = Sma(Closes(h), FastPeriod) /\ Prepare(g, S).fast = Sma(Closes(g), FastPeriod)
      /\ Prepare(h, S).slow = Sma(Closes(h), SlowPeriod) /\ Prepare(g, S).slow = Sma(Closes(g), SlowPeriod)
      /\ Prepare(h, S).atr = Atr(h) /\ Prepare(g, S).atr = Atr(g)
  BY DEF Prepare
<1> QED
  BY <1>3, <1>4, <1>5, <1>6, <1>7 DEF Alike

EntryModes == {"pullback", "breakout", "hybrid", "momentum", "donchian", "golden_cross"}

\* The rules read the bars up to the one they are asked about.
LEMMA EntryAlike ==
    ASSUME NEW h, NEW x, NEW g, NEW y, NEW p, NEW n \in Nat,
           Alike(h, x, g, y, p.ma_period, n), p.ma_period \in Nat \ {0},
           p.entry_mode \in EntryModes, NEW i \in 1 .. (n - 1)
    PROVE  EntryRule(h, x, p, i) <=> EntryRule(g, y, p, i)
<1> DEFINE P == p.ma_period
           a == x.mas[P]
           b == y.mas[P]
<1>1. \A j \in 0 .. i : /\ h[j] = g[j] /\ a[j] = b[j]
                        /\ x.slopes[P][j] = y.slopes[P][j] /\ x.fast[j] = y.fast[j]
  BY DEF Alike, SameUpTo
<1>2. i \in 0 .. i /\ i - 1 \in 0 .. i
  OBVIOUS
<1>3. \A j \in 0 .. i : AboveMa(h, x, P, j) <=> AboveMa(g, y, P, j)
  BY <1>1 DEF AboveMa
<1>4. NearMa(h, x, p, i) <=> NearMa(g, y, p, i)
  BY <1>1, <1>2 DEF NearMa
<1>5. Pullback(h, x, p, i) <=> Pullback(g, y, p, i)
  <2>1. \A j \in MaxOf(1, i - 4) .. i : j \in 0 .. i
    BY DEF MaxOf
  <2>2. (\E j \in MaxOf(1, i - 4) .. i : a[j] > 0 /\ AboveMa(h, x, P, j))
           <=> (\E j \in MaxOf(1, i - 4) .. i : b[j] > 0 /\ AboveMa(g, y, P, j))
    BY <1>1, <1>3, <2>1
  <2> QED
    BY <1>1, <1>2, <1>4, <2>2 DEF Pullback
<1>6. Breakout(h, x, p, i) <=> Breakout(g, y, p, i)
  BY <1>1, <1>2, <1>3, <1>4 DEF Breakout
<1>7. Momentum(h, x, p, i) <=> Momentum(g, y, p, i)
  BY <1>1, <1>2, <1>3 DEF Momentum
<1>8. Donchian(h, p, i) <=> Donchian(g, p, i)
  <2>1. i >= P => \A j \in (i - P) .. (i - 1) : h[j] = g[j]
    BY <1>1
  <2> QED
    BY <1>1, <1>2, <2>1 DEF Donchian
<1>9. CrossesUp(x.fast, FastPeriod, a, P, i) <=> CrossesUp(y.fast, FastPeriod, b, P, i)
  BY <1>1, <1>2 DEF CrossesUp
<1> QED
  BY <1>4, <1>5, <1>6, <1>7, <1>8, <1>9 DEF EntryRule, EntryModes

(***************************** sums and numbers *****************************)

\* Among any finite sets there is one that contains no other.
LEMMA LeastSet ==
  ASSUME NEW Bad, Bad # {}, \A S \in Bad : IsFiniteSet(S)
  PROVE  \E S \in Bad : \A T \in SUBSET S : T \in Bad => T = S
<1> DEFINE Sizes == {Cardinality(S) : S \in Bad}
<1>1. Sizes \subseteq Nat /\ Sizes # {}
  BY FS_CardinalityType
<1>2. PICK n \in Sizes : \A m \in Sizes : n <= m
  BY <1>1, NatMin
<1>3. PICK S \in Bad : Cardinality(S) = n
  BY <1>2
<1>4. ASSUME NEW T \in SUBSET S, T \in Bad PROVE T = S
  <2>1. Cardinality(S) <= Cardinality(T)
    BY <1>2, <1>3, <1>4
  <2>2. IsFiniteSet(S)
    OBVIOUS
  <2>3. Cardinality(T) <= Cardinality(S) /\ (Cardinality(T) = Cardinality(S) => T = S)
    BY <2>2, FS_Subset
  <2>4. Cardinality(S) \in Nat /\ Cardinality(T) \in Nat
    BY <1>4, FS_CardinalityType
  <2>5. QED
    BY <2>1, <2>3, <2>4
<1>5. QED
  BY <1>4

First(s) == CHOOSE x \in s : TRUE
Adds(g, w, S) == g = [s \in SUBSET S |-> IF s = {} THEN 0 ELSE w[First(s)] + g[s \ {First(s)}]]
Adder(w, S) == CHOOSE g : Adds(g, w, S)
SumOver(w, S) == Adder(w, S)[S]

\* The sum of the library is this recursion.
LEMMA FunctionSum == \A w, S : SumFunctionOnSet(w, S) = SumOver(w, S)
BY DEF SumFunctionOnSet, FoldFunctionOnSet, MapThenFoldSet, SumOver, Adder, Adds, First

\* A set without its first element is a smaller one.
LEMMA FirstIn == \A s : s # {} => First(s) \in s /\ s \ {First(s)} # s
BY DEF First

\* One step of the recursion.
LEMMA AddsUnfold ==
  ASSUME NEW g, NEW w, NEW S, Adds(g, w, S), NEW s \in SUBSET S
  PROVE  /\ s = {} => g[s] = 0
         /\ s # {} => g[s] = w[First(s)] + g[s \ {First(s)}]
<1> DEFINE body(k, t) == IF t = {} THEN 0 ELSE w[First(t)] + k[t \ {First(t)}]
<1>1. g = [t \in SUBSET S |-> body(g, t)]
  BY DEF Adds
<1>2. g[s] = body(g, s)
  <2> HIDE DEF body
  <2>1. QED
    BY <1>1
<1>3. QED
  BY <1>2

\* One step of a sum, in its own recursion.
LEMMA AdderUnfold ==
  ASSUME NEW w, NEW S, Adds(Adder(w, S), w, S)
  PROVE  S # {} => SumOver(w, S) = w[First(S)] + Adder(w, S)[S \ {First(S)}]
<1>1. S \in SUBSET S
  OBVIOUS
<1>2. QED
  BY <1>1, AddsUnfold DEF SumOver

\* Two recursions agree on the sets they share.
LEMMA AddsAgree ==
  ASSUME NEW w, NEW S, NEW U, NEW g, NEW h, Adds(g, w, S), Adds(h, w, U), IsFiniteSet(S)
  PROVE  \A s \in SUBSET (S \cap U) : g[s] = h[s]
<1> DEFINE Bad == {s \in SUBSET (S \cap U) : g[s] # h[s]}
<1> SUFFICES ASSUME Bad # {} PROVE FALSE
  OBVIOUS
<1>1. \A s \in Bad : IsFiniteSet(s)
  BY FS_Subset
<1>2. PICK s \in Bad : \A t \in SUBSET s : t \in Bad => t = s
  <2> HIDE DEF Bad
  <2>1. QED
    BY <1>1, LeastSet
<1>3. s \in SUBSET S /\ s \in SUBSET U /\ g[s] # h[s]
  OBVIOUS
<1>4. s # {}
  BY <1>3, AddsUnfold
<1> DEFINE t == s \ {First(s)}
<1>5. t \in SUBSET s /\ t # s
  BY <1>4, FirstIn
<1>6. g[t] = h[t]
  BY <1>2, <1>5
<1>7. g[s] = w[First(s)] + g[t] /\ h[s] = w[First(s)] + h[t]
  BY <1>3, <1>4, AddsUnfold
<1>8. QED
  BY <1>3, <1>6, <1>7

\* Every finite set has such a recursion.
LEMMA AdderAdds == \A w, S : IsFiniteSet(S) => Adds(Adder(w, S), w, S)
<1> SUFFICES ASSUME NEW w, NEW V, IsFiniteSet(V), ~Adds(Adder(w, V), w, V) PROVE FALSE
  OBVIOUS
<1> DEFINE Bad == {S \in SUBSET V : ~Adds(Adder(w, S), w, S)}
<1>1. Bad # {} /\ \A S \in Bad : IsFiniteSet(S)
  BY FS_Subset
<1>2. PICK S \in Bad : \A T \in SUBSET S : T \in Bad => T = S
  <2> HIDE DEF Bad
  <2>1. QED
    BY <1>1, LeastSet
<1>3. IsFiniteSet(S) /\ ~Adds(Adder(w, S), w, S)
  BY <1>1
<1>4. ASSUME NEW T \in SUBSET S, T # S PROVE Adds(Adder(w, T), w, T) /\ IsFiniteSet(T)
  BY <1>2, <1>3, <1>4, FS_Subset
<1> HIDE DEF Bad
<1> DEFINE g == [s \in SUBSET S |-> IF s = {} THEN 0 ELSE w[First(s)] + SumOver(w, s \ {First(s)})]
<1>5. ASSUME NEW s \in SUBSET S, s # {} PROVE g[s \ {First(s)}] = SumOver(w, s \ {First(s)})
  <2> DEFINE u == s \ {First(s)}
  <2>1. u \in SUBSET S /\ u # S /\ First(s) \in s
    BY <1>5, FirstIn
  <2>2. Adds(Adder(w, u), w, u)
    BY <1>4, <2>1
  <2>3. CASE u = {}
    BY <2>1, <2>2, <2>3, AddsUnfold DEF SumOver
  <2>4. CASE u # {}
    <3> DEFINE v == u \ {First(u)}
    <3>1. v \in SUBSET u /\ v \in SUBSET S /\ v # S
      BY <2>1
    <3>2. Adds(Adder(w, v), w, v) /\ IsFiniteSet(v)
      BY <1>4, <3>1
    <3>3. SumOver(w, u) = w[First(u)] + Adder(w, u)[v]
      BY <2>2, <2>4, AdderUnfold
    <3>4. Adder(w, v)[v] = Adder(w, u)[v]
      BY <2>2, <3>1, <3>2, AddsAgree
    <3>5. g[u] = w[First(u)] + SumOver(w, v)
      BY <2>1, <2>4
    <3>6. QED
      BY <3>3, <3>4, <3>5 DEF SumOver
  <2>5. QED
    BY <2>3, <2>4
<1>6. g = [s \in SUBSET S |-> IF s = {} THEN 0 ELSE w[First(s)] + g[s \ {First(s)}]]
  <2> DEFINE rhs == [s \in SUBSET S |-> IF s = {} THEN 0 ELSE w[First(s)] + g[s \ {First(s)}]]
  <2>1. \A s \in SUBSET S : g[s] = rhs[s]
    <3> SUFFICES ASSUME NEW s \in SUBSET S PROVE g[s] = rhs[s]
      OBVIOUS
    <3>1. CASE s = {}
      BY <3>1
    <3>2. CASE s # {}
      <4>1. g[s] = w[First(s)] + SumOver(w, s \ {First(s)})
        BY <3>2
      <4>2. rhs[s] = w[First(s)] + g[s \ {First(s)}]
        <5> HIDE DEF g
        <5>1. QED
          BY <3>2
      <4>3. QED
        <5> HIDE DEF g, rhs
        <5>1. QED
          BY <1>5, <3>2, <4>1, <4>2
    <3>3. QED
      BY <3>1, <3>2
  <2>2. g = [s \in SUBSET S |-> g[s]]
    OBVIOUS
  <2>3. rhs = [s \in SUBSET S |-> rhs[s]]
    <3> HIDE DEF g
    <3>1. QED
      OBVIOUS
  <2>4. g = rhs
    <3> HIDE DEF g, rhs
    <3>1. QED
      BY <2>1, <2>2, <2>3, Zenon
  <2>5. QED
    BY <2>4
<1> HIDE DEF g
<1>7. Adds(g, w, S)
  BY <1>6 DEF Adds
<1>8. Adds(Adder(w, S), w, S)
  BY <1>7 DEF Adder
<1>9. QED
  BY <1>3, <1>8

\* A sum is its first term and the sum of the others.
LEMMA SumUnfold ==
  ASSUME NEW w, NEW S, IsFiniteSet(S)
  PROVE  /\ S = {} => SumOver(w, S) = 0
         /\ S # {} => SumOver(w, S) = w[First(S)] + SumOver(w, S \ {First(S)})
<1>1. Adds(Adder(w, S), w, S)
  BY AdderAdds
<1>2. CASE S = {}
  BY <1>1, <1>2, AddsUnfold DEF SumOver
<1>3. CASE S # {}
  <2> DEFINE u == S \ {First(S)}
  <2>1. IsFiniteSet(u) /\ u \in SUBSET (u \cap S)
    BY FS_Subset
  <2>2. Adds(Adder(w, u), w, u)
    BY <2>1, AdderAdds
  <2>3. Adder(w, u)[u] = Adder(w, S)[u]
    BY <1>1, <2>1, <2>2, AddsAgree
  <2>4. Adder(w, S)[S] = w[First(S)] + Adder(w, S)[u]
    BY <1>1, <1>3, AddsUnfold
  <2>5. QED
    BY <1>3, <2>3, <2>4 DEF SumOver
<1>4. QED
  BY <1>2, <1>3

\* Sums of numbers are numbers.
LEMMA SumNumber ==
    ASSUME NEW V, IsFiniteSet(V), NEW w, \A x \in V : w[x] \in Int
    PROVE  /\ SumFunctionOnSet(w, V) \in Int
           /\ (\A x \in V : w[x] >= 0) => SumFunctionOnSet(w, V) >= 0
<1> DEFINE Fine(S) == SumOver(w, S) \in Int /\ ((\A x \in V : w[x] >= 0) => SumOver(w, S) >= 0)
           Bad == {S \in SUBSET V : ~Fine(S)}
<1> SUFFICES ASSUME Bad # {} PROVE FALSE
  BY FunctionSum
<1>1. \A S \in Bad : IsFiniteSet(S)
  BY FS_Subset
<1>2. PICK S \in Bad : \A T \in SUBSET S : T \in Bad => T = S
  <2> HIDE DEF Bad
  <2> QED
    BY <1>1, LeastSet
<1>3. IsFiniteSet(S) /\ S \in SUBSET V /\ ~Fine(S)
  BY <1>1
<1>4. \A T \in SUBSET S : T # S => Fine(T)
  BY <1>2, <1>3
<1> HIDE DEF Bad
<1>5. S # {}
  <2>1. S = {} => SumOver(w, S) = 0
    BY <1>3, SumUnfold
  <2> QED
    BY <1>3, <2>1
<1>6. Fine(S \ {First(S)}) /\ First(S) \in V
  <2>1. First(S) \in S /\ S \ {First(S)} # S
    BY <1>5, FirstIn
  <2> QED
    BY <1>3, <1>4, <2>1
<1>7. SumOver(w, S) = w[First(S)] + SumOver(w, S \ {First(S)})
  BY <1>3, <1>5, SumUnfold
<1> QED
  BY <1>3, <1>6, <1>7

\* The same of the sum of a function.
LEMMA FunctionSumNumber ==
    ASSUME NEW f, IsFiniteSet(DOMAIN f), \A x \in DOMAIN f : f[x] \in Int
    PROVE  /\ SumFunction(f) \in Int
           /\ (\A x \in DOMAIN f : f[x] >= 0) => SumFunction(f) >= 0
BY SumNumber DEF SumFunction

\* Quotients, products and squares of numbers are numbers.
LEMMA DivNat ==
    ASSUME NEW n \in Nat, NEW c \in Nat \ {0}
    PROVE  n \div c \in Nat
BY SMT

LEMMA DivInt ==
    ASSUME NEW n \in Int, NEW c \in Nat \ {0}
    PROVE  n \div c \in Int
BY SMT

LEMMA TimesNat ==
    ASSUME NEW a \in Nat, NEW b \in Nat
    PROVE  a * b \in Nat /\ (a > 0 /\ b > 0 => a * b > 0)
BY SMT

LEMMA TimesInt ==
    ASSUME NEW a \in Int, NEW b \in Int
    PROVE  a * b \in Int
BY SMT

LEMMA SquareNat ==
    ASSUME NEW a \in Int
    PROVE  a * a \in Nat
BY SMT

\* Every natural number has a whole square root.
LEMMA RootNat ==
    ASSUME NEW v \in Nat
    PROVE  SquareRoot(v) \in Nat
<1> DEFINE Above == {n \in Nat : v < (n + 1) * (n + 1)}
<1>1. Above \subseteq Nat /\ v \in Above
  <2>1. v < (v + 1) * (v + 1)
    BY SMT
  <2> QED
    BY <2>1
<1>2. PICK r \in Above : \A m \in Above : r <= m
  <2> HIDE DEF Above
  <2> QED
    BY <1>1, NatMin
<1>3. r \in 0 .. v
  BY <1>1, <1>2
<1>4. r * r <= v
  <2>1. CASE r = 0
    BY <2>1
  <2>2. CASE r # 0
    <3>1. r - 1 \in Nat /\ ~(r <= r - 1)
      BY <1>3, <2>2
    <3>2. r - 1 \notin Above
      BY <1>2, <3>1
    <3>3. (r - 1) + 1 = r
      BY <1>3
    <3>4. ~(v < r * r)
      BY <3>1, <3>2, <3>3
    <3>5. r * r \in Nat
      BY <1>3, TimesNat
    <3> QED
      BY <3>4, <3>5
  <2> QED
    BY <2>1, <2>2
<1>5. \E k \in 0 .. v : k * k <= v /\ v < (k + 1) * (k + 1)
  BY <1>3, <1>4
<1>6. SquareRoot(v) \in 0 .. v
  BY <1>5 DEF SquareRoot
<1> QED
  BY <1>6

SanePrices(b) == {b.open, b.high, b.low, b.close} \subseteq Nat \ {0} /\ b.volume \in Nat
Sane(h, N) == DOMAIN h = 0 .. (N - 1) /\ \A i \in 0 .. (N - 1) : SanePrices(h[i])

\* The true range and its average are numbers.
LEMMA RangeNumber ==
    ASSUME NEW N \in Nat, NEW h, Sane(h, N), NEW i \in 1 .. (N - 1)
    PROVE  TrueRange(h, i) \in Int
<1>1. SanePrices(h[i]) /\ SanePrices(h[i - 1])
  BY DEF Sane
<1>2. \A a, b \in Int : MaxOf(a, b) \in Int /\ Abs(a - b) \in Int /\ a - b \in Int
  BY DEF MaxOf, Abs
<1>3. h[i].high \in Int /\ h[i].low \in Int /\ h[i - 1].close \in Int
  BY <1>1 DEF SanePrices
<1>4. /\ h[i].high - h[i].low \in Int
      /\ Abs(h[i].high - h[i - 1].close) \in Int /\ Abs(h[i].low - h[i - 1].close) \in Int
  BY <1>2, <1>3
<1> QED
  BY <1>2, <1>4 DEF TrueRange

LEMMA AtrNumber ==
    ASSUME NEW N \in Nat, NEW h, Sane(h, N)
    PROVE  \A i \in 0 .. (N - 1) : Atr(h)[i] \in Int
<1> DEFINE Bad == {i \in 0 .. (N - 1) : Atr(h)[i] \notin Int}
<1> SUFFICES ASSUME Bad # {} PROVE FALSE
  OBVIOUS
<1>1. PICK i \in Bad : \A m \in Bad : i <= m
  <2>1. Bad \subseteq Nat
    OBVIOUS
  <2> HIDE DEF Bad
  <2> QED
    BY <2>1, NatMin
<1>2. i \in 0 .. (N - 1) /\ Atr(h)[i] \notin Int
  OBVIOUS
<1>3. \A j \in 0 .. (N - 1) : j < i => Atr(h)[j] \in Int
  BY <1>1
<1> HIDE DEF Bad
<1>4. Atr(h)[i] = AtrBody(h, Atr(h), i)
  BY <1>2, AtrUnfold DEF Sane
<1>5. AtrPeriod \in Nat \ {0}
  BY Settings
<1>6. \A j \in 1 .. i : TrueRange(h, j) \in Int
  BY <1>2, RangeNumber
<1>7. CASE i < AtrPeriod
  BY <1>2, <1>4, <1>7 DEF AtrBody
<1>8. CASE i = AtrPeriod
  <2> DEFINE f == [j \in 1 .. AtrPeriod |-> TrueRange(h, j)]
  <2>1. DOMAIN f = 1 .. AtrPeriod /\ \A j \in DOMAIN f : f[j] \in Int
    BY <1>6, <1>8
  <2>2. IsFiniteSet(1 .. AtrPeriod)
    BY <1>5, FS_Interval
  <2>3. SumFunction(f) \in Int
    <3> HIDE DEF f
    <3> QED
      BY <2>1, <2>2, FunctionSumNumber
  <2>4. Atr(h)[i] = SumFunction(f) \div AtrPeriod
    BY <1>4, <1>5, <1>8 DEF AtrBody
  <2> HIDE DEF f
  <2> QED
    BY <1>2, <1>5, <2>3, <2>4, DivInt
<1>9. CASE i > AtrPeriod
  <2>1. Atr(h)[i - 1] \in Int /\ TrueRange(h, i) \in Int
    BY <1>2, <1>3, <1>5, <1>6, <1>9
  <2>2. Atr(h)[i - 1] * (AtrPeriod - 1) \in Int
    BY <1>5, <2>1, TimesInt
  <2>3. Atr(h)[i] = (Atr(h)[i - 1] * (AtrPeriod - 1) + TrueRange(h, i)) \div AtrPeriod
    BY <1>2, <1>4, <1>5, <1>9 DEF AtrBody
  <2>4. Atr(h)[i - 1] * (AtrPeriod - 1) + TrueRange(h, i) \in Int
    BY <2>1, <2>2
  <2> QED
    BY <1>2, <1>5, <2>3, <2>4, DivInt
<1> QED
  BY <1>2, <1>5, <1>7, <1>8, <1>9

(************************* the books of the engine **************************)

\* What a trade makes of the money before it.
CashBody(ts, c, f, k) ==
    IF k = 0 THEN InitialCash ELSE Sell(Buy(f[k - 1], ts[k].buy, c), ts[k].sell, c)
CashRec(ts, c, f, n) == f = [k \in 0 .. n |-> CashBody(ts, c, f, k)]
CashOf(ts, c) == CHOOSE f : CashRec(ts, c, f, Len(ts))

\* The recurrence defines the money after any number of trades.
LEMMA CashExists == \A ts, c : \A n \in Nat : \E f : CashRec(ts, c, f, n)
<1> SUFFICES ASSUME NEW ts, NEW c, {n \in Nat : ~\E f : CashRec(ts, c, f, n)} # {} PROVE FALSE
  OBVIOUS
<1> DEFINE Bad == {n \in Nat : ~\E f : CashRec(ts, c, f, n)}
<1>1. PICK n \in Bad : \A m \in Bad : n <= m
  <2>1. Bad \subseteq Nat /\ Bad # {}
    OBVIOUS
  <2> HIDE DEF Bad
  <2> QED
    BY <2>1, NatMin
<1>2. n \in Nat /\ ~\E f : CashRec(ts, c, f, n)
  OBVIOUS
<1>3. n # 0
  <2>1. ASSUME n = 0 PROVE FALSE
    <3> DEFINE f == [k \in 0 .. 0 |-> InitialCash]
    <3>1. f = [k \in 0 .. 0 |-> CashBody(ts, c, f, k)]
      <4>1. \A k \in 0 .. 0 : k = 0
        OBVIOUS
      <4> QED
        BY <4>1 DEF CashBody
    <3> QED
      BY <1>2, <2>1, <3>1 DEF CashRec
  <2> QED
    BY <2>1
<1>4. n - 1 \in Nat /\ n - 1 \notin Bad
  BY <1>1, <1>2, <1>3
<1>5. PICK f : CashRec(ts, c, f, n - 1)
  BY <1>4
<1> DEFINE g == [k \in 0 .. n |-> IF k = n THEN CashBody(ts, c, f, k) ELSE f[k]]
<1>6. ASSUME NEW k \in 0 .. n PROVE g[k] = CashBody(ts, c, g, k)
  <2>1. k # 0 => g[k - 1] = f[k - 1]
    BY <1>2
  <2>2. CashBody(ts, c, f, k) = CashBody(ts, c, g, k)
    <3> HIDE DEF g
    <3> QED
      BY <2>1 DEF CashBody
  <2>3. k # n => f[k] = CashBody(ts, c, f, k)
    <3>1. f = [j \in 0 .. (n - 1) |-> CashBody(ts, c, f, j)]
      BY <1>5 DEF CashRec
    <3>2. k # n => k \in 0 .. (n - 1)
      BY <1>2
    <3> QED
      BY <3>1, <3>2, Zenon
  <2> QED
    BY <2>2, <2>3
<1>7. CashRec(ts, c, g, n)
  <2>1. g = [k \in 0 .. n |-> g[k]]
    OBVIOUS
  <2> HIDE DEF g
  <2>2. [k \in 0 .. n |-> g[k]] = [k \in 0 .. n |-> CashBody(ts, c, g, k)]
    BY <1>6
  <2> QED
    BY <2>1, <2>2 DEF CashRec
<1> QED
  BY <1>2, <1>7

\* What trades compound to is the money it defines.
LEMMA CashUnfold ==
    ASSUME NEW ts, NEW c, Len(ts) \in Nat
    PROVE  /\ Compounded(ts, c) = CashOf(ts, c)[Len(ts)]
           /\ \A k \in 0 .. Len(ts) : CashOf(ts, c)[k] = CashBody(ts, c, CashOf(ts, c), k)
<1>1. Compounded(ts, c) = CashOf(ts, c)[Len(ts)]
  BY DEF Compounded, CashOf, CashRec, CashBody
<1>2. CashRec(ts, c, CashOf(ts, c), Len(ts))
  BY CashExists DEF CashOf
<1> DEFINE f == CashOf(ts, c)
<1>3. f = [k \in 0 .. Len(ts) |-> CashBody(ts, c, f, k)]
  BY <1>2 DEF CashRec
<1> HIDE DEF f
<1>4. \A k \in 0 .. Len(ts) : f[k] = CashBody(ts, c, f, k)
  BY <1>3, Zenon
<1> QED
  BY <1>1, <1>4 DEF f

\* A trade more sells what the money of the trades before it bought.
LEMMA CashAppend ==
    ASSUME NEW S, NEW ts \in Seq(S), NEW t \in S, NEW c
    PROVE  Compounded(Append(ts, t), c) = Sell(Buy(Compounded(ts, c), t.buy, c), t.sell, c)
<1> DEFINE us == Append(ts, t)
           n == Len(ts)
           f == CashOf(ts, c)
           g == CashOf(us, c)
<1>1. /\ n \in Nat /\ Len(us) = n + 1
      /\ \A k \in 1 .. n : us[k] = ts[k]
      /\ us[n + 1] = t
  BY AppendProperties, LenProperties
<1> HIDE DEF us
<1>2. /\ Compounded(ts, c) = f[n]
      /\ \A k \in 0 .. n : f[k] = CashBody(ts, c, f, k)
  BY <1>1, CashUnfold
<1>3. /\ Compounded(us, c) = g[n + 1]
      /\ \A k \in 0 .. (n + 1) : g[k] = CashBody(us, c, g, k)
  <2>1. Len(us) \in Nat
    BY <1>1
  <2> QED
    BY <1>1, <2>1, CashUnfold
<1> HIDE DEF f, g, n
<1>4. \A k \in 0 .. n : g[k] = f[k]
  <2> DEFINE Bad == {k \in 0 .. n : g[k] # f[k]}
  <2> SUFFICES ASSUME Bad # {} PROVE FALSE
    OBVIOUS
  <2>1. PICK k \in Bad : \A m \in Bad : k <= m
    <3>1. Bad \subseteq Nat
      BY <1>1
    <3> HIDE DEF Bad
    <3> QED
      BY <3>1, NatMin
  <2>2. k \in 0 .. n /\ k \in 0 .. (n + 1) /\ g[k] # f[k]
    BY <1>1
  <2>3. f[k] = CashBody(ts, c, f, k) /\ g[k] = CashBody(us, c, g, k)
    BY <1>2, <1>3, <2>2
  <2>4. k # 0
    BY <2>2, <2>3 DEF CashBody
  <2>5. k - 1 \in 0 .. n /\ k - 1 \notin Bad /\ k \in 1 .. n
    BY <1>1, <2>1, <2>2, <2>4
  <2>6. g[k - 1] = f[k - 1] /\ us[k] = ts[k]
    BY <1>1, <2>5
  <2> HIDE DEF Bad
  <2> QED
    BY <2>2, <2>3, <2>4, <2>6 DEF CashBody
<1>5. g[n + 1] = CashBody(us, c, g, n + 1)
  <2>1. n + 1 \in 0 .. (n + 1)
    BY <1>1
  <2> QED
    BY <1>3, <2>1
<1>6. (n + 1) - 1 = n /\ n + 1 # 0 /\ n \in 0 .. n
  BY <1>1
<1>7. g[n + 1] = Sell(Buy(g[n], us[n + 1].buy, c), us[n + 1].sell, c)
  BY <1>5, <1>6 DEF CashBody
<1>8. g[n] = f[n]
  BY <1>4, <1>6
<1>9. Compounded(us, c) = Sell(Buy(Compounded(ts, c), t.buy, c), t.sell, c)
  BY <1>1, <1>2, <1>3, <1>7, <1>8
<1> QED
  BY <1>9 DEF us

\* No trade leaves the initial cash.
LEMMA CashNone == \A c : Compounded(<<>>, c) = InitialCash
<1> SUFFICES ASSUME NEW c PROVE Compounded(<<>>, c) = InitialCash
  OBVIOUS
<1>1. Len(<<>>) = 0
  BY SMT
<1>2. Compounded(<<>>, c) = CashOf(<<>>, c)[0] /\ CashOf(<<>>, c)[0] = CashBody(<<>>, c, CashOf(<<>>, c), 0)
  <2>1. Len(<<>>) \in Nat /\ 0 \in 0 .. 0
    BY <1>1
  <2> QED
    BY <1>1, <2>1, CashUnfold
<1> QED
  BY <1>2 DEF CashBody

Reasons == {"stp_lmt_fill", "ma_cross", "end_of_window"}
TradeRecords == [in : Nat, out : Nat, buy : Nat \ {0}, sell : Nat \ {0}, why : Reasons, missed : BOOLEAN]
Engines == [cash : Nat, position : Nat, entry : Nat \cup {Flat}, peak : Nat, missed : BOOLEAN,
            trades : Seq(TradeRecords), equity : Seq(Nat)]
Costs == 0 .. 1000

\* Buying and selling give numbers.
LEMMA SidesOfATrade ==
    ASSUME NEW price \in Nat \ {0}, NEW c \in Costs
    PROVE  /\ \A cash \in Nat : Buy(cash, price, c) \in Nat
           /\ \A position \in Nat : Sell(position, price, c) \in Nat
           /\ \A close \in Nat : (0 * close) \div Unit = 0
<1>1. Unit \in Nat \ {0}
  BY Settings
<1>2. 1000 + c \in Nat \ {0} /\ 1000 - c \in Nat
  BY DEF Costs
<1>3. ASSUME NEW cash \in Nat PROVE Buy(cash, price, c) \in Nat
  <2>1. cash * 1000 \in Nat /\ price * (1000 + c) \in Nat /\ price * (1000 + c) > 0
    BY <1>2, TimesNat
  <2>2. (cash * 1000) * Unit \in Nat
    BY <1>1, <2>1, TimesNat
  <2>3. ((cash * 1000) * Unit) \div (price * (1000 + c)) \in Nat
    BY <2>1, <2>2, DivNat
  <2> QED
    BY <2>3 DEF Buy
<1>4. ASSUME NEW position \in Nat PROVE Sell(position, price, c) \in Nat
  <2>1. position * price \in Nat
    BY TimesNat
  <2>2. (position * price) * (1000 - c) \in Nat
    BY <1>2, <2>1, TimesNat
  <2>3. 1000 * Unit \in Nat \ {0}
    BY <1>1
  <2>4. ((position * price) * (1000 - c)) \div (1000 * Unit) \in Nat
    BY <2>2, <2>3, DivNat
  <2> QED
    BY <2>4 DEF Sell
<1>5. ASSUME NEW close \in Nat PROVE (0 * close) \div Unit = 0
  <2>1. 0 * close = 0
    BY SMT
  <2>2. 0 \div Unit = 0
    BY <1>1, SMT
  <2> QED
    BY <2>1, <2>2
<1> QED
  BY <1>3, <1>4, <1>5

\* A trade of a history that could have been made.
Possible(h, t) ==
    /\ t.in <= t.out /\ t.buy = h[t.in].close
    /\ OhlcValid(h[t.out]) => h[t.out].low <= t.sell /\ t.sell <= h[t.out].high

\* The trades up to bar i of a window that begins at bar first.
Real(h, ts, first, i) ==
    /\ \A k \in DOMAIN ts : first <= ts[k].in /\ ts[k].out <= i /\ Possible(h, ts[k])
    /\ \A k \in DOMAIN ts : k > 1 => ts[k - 1].out < ts[k].in

\* What the engine holds is what its trades made of the initial cash.
Books(h, c, s, first, i) ==
    /\ s \in Engines
    /\ Real(h, s.trades, first, i)
    /\ s.entry = Flat => s.position = 0 /\ s.cash = Compounded(s.trades, c)
    /\ s.entry # Flat =>
          /\ s.entry \in first .. i /\ s.cash = 0
          /\ s.position = Buy(Compounded(s.trades, c), h[s.entry].close, c)
          /\ \A k \in DOMAIN s.trades : s.trades[k].out < s.entry

Marked(h, s, first, i) ==
    /\ Len(s.equity) = i - first + 1
    /\ s.equity # <<>> => s.equity[Len(s.equity)] = s.cash + (s.position * h[i].close) \div Unit

\* An engine that starts has nothing to explain.
LEMMA FreshBooks ==
    ASSUME NEW h, NEW c, NEW first \in Nat \ {0}
    PROVE  Books(h, c, Fresh, first, first - 1) /\ Marked(h, Fresh, first, first - 1)
<1>1. InitialCash \in Nat
  BY Settings
<1>2. <<>> \in Seq(TradeRecords) /\ <<>> \in Seq(Nat) /\ Len(<<>>) = 0 /\ DOMAIN <<>> = {}
  BY SMT
<1>3. Fresh \in Engines
  BY <1>1, <1>2 DEF Fresh, Engines
<1> QED
  BY <1>2, <1>3, CashNone DEF Fresh, Books, Marked, Real

\* Flat is no bar.
LEMMA FlatOrNot == Flat \notin Nat
BY DEF Flat

\* One bar later nothing of the past has changed.
LEMMA RealLater ==
    ASSUME NEW h, NEW ts \in Seq(TradeRecords), NEW first \in Nat, NEW i \in Nat, i > 0,
           Real(h, ts, first, i - 1)
    PROVE  Real(h, ts, first, i)
<1>1. \A k \in DOMAIN ts : ts[k].out \in Nat
  <2>1. \A k \in DOMAIN ts : ts[k] \in TradeRecords
    BY ElementOfSeq, LenProperties
  <2> QED
    BY <2>1 DEF TradeRecords
<1>2. \A o \in Nat : o <= i - 1 => o <= i
  OBVIOUS
<1> QED
  BY <1>1, <1>2 DEF Real

\* An entry buys with all that the trades before made.
LEMMA EnterBooks ==
    ASSUME NEW N \in Nat, NEW h, Sane(h, N), NEW c \in Costs, NEW first \in Nat \ {0},
           NEW i \in first .. (N - 1), NEW s, Books(h, c, s, first, i - 1), s.entry = Flat
    PROVE  Books(h, c, Enter(h, c, s, i), first, i)
<1> DEFINE e == Enter(h, c, s, i)
<1>1. SanePrices(h[i]) /\ s \in Engines
  BY DEF Sane, Books
<1>2. Buy(s.cash, h[i].close, c) \in Nat /\ h[i].high \in Nat
  BY <1>1, SidesOfATrade DEF SanePrices, Engines
<1>3. /\ e \in Engines
      /\ e.trades = s.trades /\ e.entry = i /\ e.cash = 0
      /\ e.position = Buy(s.cash, h[i].close, c)
  <2>1. e = [s EXCEPT !.position = Buy(s.cash, h[i].close, c), !.cash = 0, !.entry = i,
                      !.peak = h[i].high, !.missed = FALSE]
    BY DEF Enter
  <2>2. i \in Nat
    OBVIOUS
  <2> HIDE DEF e
  <2> QED
    BY <1>1, <1>2, <2>1, <2>2 DEF Engines
<1>4. s.trades \in Seq(TradeRecords) /\ Real(h, s.trades, first, i - 1)
  BY <1>1 DEF Books, Engines
<1>5. Real(h, e.trades, first, i)
  BY <1>3, <1>4, RealLater
<1>6. \A k \in DOMAIN e.trades : e.trades[k].out < i
  <2>1. \A k \in DOMAIN s.trades : s.trades[k] \in TradeRecords
    BY <1>4, ElementOfSeq, LenProperties
  <2>2. \A k \in DOMAIN s.trades : s.trades[k].out \in Nat /\ s.trades[k].out <= i - 1
    BY <1>4, <2>1 DEF Real, TradeRecords
  <2>3. \A o \in Nat : o <= i - 1 => o < i
    OBVIOUS
  <2> QED
    BY <1>3, <2>2, <2>3
<1>7. s.cash = Compounded(s.trades, c)
  BY DEF Books
<1>8. i # Flat /\ i \in first .. i
  BY DEF Flat
<1> HIDE DEF e
<1> QED
  BY <1>3, <1>5, <1>6, <1>7, <1>8 DEF Books, e

\* An exit at a price of its bar adds a trade that could have been made.
LEMMA ExitBooks ==
    ASSUME NEW N \in Nat, NEW h, Sane(h, N), NEW c \in Costs, NEW first \in Nat \ {0},
           NEW i \in first .. (N - 1), NEW s, Books(h, c, s, first, i), s.entry # Flat,
           NEW price \in Nat \ {0}, NEW why \in Reasons,
           OhlcValid(h[i]) => h[i].low <= price /\ price <= h[i].high
    PROVE  /\ Books(h, c, Exit(h, c, s, i, price, why), first, i)
           /\ Exit(h, c, s, i, price, why).equity = s.equity
           /\ Exit(h, c, s, i, price, why).entry = Flat
<1> DEFINE t == [in |-> s.entry, out |-> i, buy |-> h[s.entry].close, sell |-> price,
                 why |-> why, missed |-> s.missed]
           e == Exit(h, c, s, i, price, why)
<1>1. s \in Engines /\ s.entry \in first .. i /\ s.entry \in 0 .. (N - 1)
  BY DEF Books
<1>2. SanePrices(h[s.entry])
  BY <1>1 DEF Sane
<1>3. t \in TradeRecords
  BY <1>1, <1>2 DEF TradeRecords, Engines, SanePrices
<1>4. /\ t.in = s.entry /\ t.out = i /\ t.buy = h[s.entry].close /\ t.sell = price
  OBVIOUS
<1>5. Sell(s.position, price, c) \in Nat
  BY <1>1, SidesOfATrade DEF Engines
<1>6. e = [s EXCEPT !.cash = Sell(s.position, price, c), !.position = 0, !.entry = Flat,
                    !.trades = Append(@, t)]
  BY DEF Exit
<1>7. s.trades \in Seq(TradeRecords)
  BY <1>1 DEF Engines
<1> HIDE DEF t, e
<1>8. Append(s.trades, t) \in Seq(TradeRecords)
  BY <1>3, <1>7, AppendProperties
<1>9. /\ e \in Engines
      /\ e.cash = Sell(s.position, price, c) /\ e.position = 0 /\ e.entry = Flat
      /\ e.trades = Append(s.trades, t) /\ e.equity = s.equity
  BY <1>1, <1>5, <1>6, <1>8 DEF Engines, Flat
<1>10. e.cash = Compounded(e.trades, c)
  <2>1. Compounded(e.trades, c) = Sell(Buy(Compounded(s.trades, c), t.buy, c), t.sell, c)
    BY <1>3, <1>7, <1>9, CashAppend
  <2>2. s.position = Buy(Compounded(s.trades, c), h[s.entry].close, c)
    BY DEF Books
  <2> QED
    BY <1>4, <1>9, <2>1, <2>2
<1>11. Real(h, e.trades, first, i)
  <2> DEFINE n == Len(s.trades)
             us == Append(s.trades, t)
  <2>1. /\ n \in Nat /\ DOMAIN s.trades = 1 .. n /\ DOMAIN us = 1 .. (n + 1)
        /\ \A k \in 1 .. n : us[k] = s.trades[k]
        /\ us[n + 1] = t
    BY <1>3, <1>7, AppendProperties, LenProperties
  <2> HIDE DEF n, us
  <2>2. /\ \A k \in 1 .. n : first <= s.trades[k].in /\ s.trades[k].out <= i /\ Possible(h, s.trades[k])
        /\ \A k \in 1 .. n : k > 1 => s.trades[k - 1].out < s.trades[k].in
        /\ \A k \in 1 .. n : s.trades[k].out < s.entry
    BY <2>1 DEF Books, Real
  <2>3. first <= t.in /\ t.out <= i /\ Possible(h, t)
    BY <1>1, <1>4 DEF Possible
  <2>4. \A k \in 1 .. (n + 1) : k \in 1 .. n \/ k = n + 1
    BY <2>1
  <2>5. \A k \in 1 .. (n + 1) : first <= us[k].in /\ us[k].out <= i /\ Possible(h, us[k])
    BY <2>1, <2>2, <2>3, <2>4
  <2>6. \A k \in 1 .. (n + 1) : k > 1 => us[k - 1].out < us[k].in
    <3> SUFFICES ASSUME NEW k \in 1 .. (n + 1), k > 1 PROVE us[k - 1].out < us[k].in
      OBVIOUS
    <3>1. k - 1 \in 1 .. n
      BY <2>1
    <3>2. CASE k \in 1 .. n
      BY <2>1, <2>2, <3>1, <3>2
    <3>3. CASE k = n + 1
      <4>1. us[k] = t /\ us[k - 1] = s.trades[k - 1]
        BY <2>1, <3>1, <3>3
      <4> QED
        BY <1>4, <2>2, <3>1, <4>1
    <3> QED
      BY <2>4, <3>2, <3>3
  <2>7. Real(h, us, first, i)
    BY <2>1, <2>5, <2>6 DEF Real
  <2> QED
    BY <1>9, <2>7 DEF us
<1>12. Books(h, c, e, first, i) /\ e.equity = s.equity /\ e.entry = Flat
  BY <1>9, <1>10, <1>11 DEF Books
<1> QED
  BY <1>12 DEF e

\* The engine reads numbers of what was precomputed.
Readable(h, x, N) == Sane(h, N) /\ \A i \in 0 .. (N - 1) : x.atr[i] \in Int

\* Holding a position over a bar: the stop, the cross, or neither.
LEMMA HoldBooks ==
    ASSUME NEW N \in Nat, NEW h, NEW x, Readable(h, x, N), NEW c \in Costs, NEW p,
           p.atr_multiple \in Nat, NEW first \in Nat \ {0}, NEW i \in first .. (N - 1),
           NEW s, Books(h, c, s, first, i - 1), s.entry # Flat
    PROVE  Books(h, c, Hold(h, x, p, c, s, i), first, i) /\ Hold(h, x, p, c, s, i).equity = s.equity
<1> DEFINE peak == PeakAt(h, s, i)
           held == [s EXCEPT !.peak = peak]
           late == [held EXCEPT !.missed = TRUE]
           stop == CurrentStop(x, p, i, peak)
<1>1. s \in Engines /\ i - 1 \in 0 .. (N - 1) /\ i \in 0 .. (N - 1) /\ i > 0 /\ i \in Nat /\ first \in Nat
  BY DEF Books
<1>2. SanePrices(h[i]) /\ SanePrices(h[i - 1]) /\ x.atr[i] \in Int
  BY <1>1 DEF Readable, Sane
<1>3. peak \in Nat
  BY <1>1, <1>2 DEF PeakAt, MaxOf, SanePrices, Engines
<1>4. stop \in Int
  <2>1. p.atr_multiple * x.atr[i] \in Int
    BY <1>2, TimesInt
  <2> HIDE DEF peak
  <2> QED
    BY <1>3, <2>1 DEF CurrentStop, MaxOf
<1> HIDE DEF peak
<1>5. /\ held \in Engines /\ held.equity = s.equity
      /\ held.cash = s.cash /\ held.position = s.position /\ held.entry = s.entry /\ held.trades = s.trades
  BY <1>1, <1>3 DEF Engines
<1>6. Books(h, c, held, first, i)
  <2>1. s.trades \in Seq(TradeRecords)
    BY <1>1 DEF Engines
  <2>2. Real(h, s.trades, first, i - 1)
    BY DEF Books
  <2>3. Real(h, s.trades, first, i)
    BY <1>1, <2>1, <2>2, RealLater
  <2>4. s.entry \in first .. i
    BY <1>1 DEF Books
  <2> HIDE DEF held
  <2> QED
    BY <1>5, <2>3, <2>4 DEF Books
<1>7. /\ late \in Engines /\ late.equity = s.equity
      /\ late.cash = s.cash /\ late.position = s.position /\ late.entry = s.entry /\ late.trades = s.trades
  <2> HIDE DEF held
  <2> QED
    BY <1>5 DEF Engines
<1>8. Books(h, c, late, first, i)
  <2> HIDE DEF late, held
  <2> QED
    BY <1>5, <1>6, <1>7 DEF Books
<1> HIDE DEF held, late, stop
<1>9. Hold(h, x, p, c, s, i) =
        IF StopHit(h, x, p, i, peak)
        THEN IF LimitFills(h, x, p, i, peak)
             THEN Exit(h, c, held, i, StopPrice(h, x, p, i, peak), "stp_lmt_fill") ELSE late
        ELSE IF CrossHit(x, p, i) THEN Exit(h, c, held, i, h[i].close, "ma_cross") ELSE held
  BY DEF Hold, peak, held, late
<1>10. Sane(h, N)
  BY DEF Readable
<1>11. CASE StopHit(h, x, p, i, peak) /\ LimitFills(h, x, p, i, peak)
  <2> DEFINE price == StopPrice(h, x, p, i, peak)
             limit == Limit(x, p, i, peak)
  <2>1. limit \in Int /\ h[i].low <= limit
    BY <1>2, <1>4, <1>11 DEF Limit, LimitFills, stop
  <2>2. price = MinOf(h[i].open, limit)
    BY DEF StopPrice
  <2> HIDE DEF price, limit
  <2>3. price \in Nat \ {0}
    BY <1>2, <2>1, <2>2 DEF MinOf, SanePrices
  <2>4. OhlcValid(h[i]) => h[i].low <= price /\ price <= h[i].high
    BY <1>2, <2>1, <2>2 DEF MinOf, MaxOf, SanePrices, OhlcValid
  <2>5. held.entry # Flat /\ "stp_lmt_fill" \in Reasons
    BY <1>5 DEF Reasons
  <2>6. Books(h, c, Exit(h, c, held, i, price, "stp_lmt_fill"), first, i)
        /\ Exit(h, c, held, i, price, "stp_lmt_fill").equity = held.equity
    BY <1>6, <1>10, <2>3, <2>4, <2>5, ExitBooks
  <2> QED
    BY <1>5, <1>9, <1>11, <2>6 DEF price
<1>12. CASE StopHit(h, x, p, i, peak) /\ ~LimitFills(h, x, p, i, peak)
  BY <1>7, <1>8, <1>9, <1>12
<1>13. CASE ~StopHit(h, x, p, i, peak) /\ CrossHit(x, p, i)
  <2>1. h[i].close \in Nat \ {0}
    BY <1>2 DEF SanePrices
  <2>2. OhlcValid(h[i]) => h[i].low <= h[i].close /\ h[i].close <= h[i].high
    BY <1>2 DEF MinOf, MaxOf, SanePrices, OhlcValid
  <2>3. held.entry # Flat /\ "ma_cross" \in Reasons
    BY <1>5 DEF Reasons
  <2>4. Books(h, c, Exit(h, c, held, i, h[i].close, "ma_cross"), first, i)
        /\ Exit(h, c, held, i, h[i].close, "ma_cross").equity = held.equity
    BY <1>6, <1>10, <2>1, <2>2, <2>3, ExitBooks
  <2> QED
    BY <1>5, <1>9, <1>13, <2>4
<1>14. CASE ~StopHit(h, x, p, i, peak) /\ ~CrossHit(x, p, i)
  BY <1>5, <1>6, <1>9, <1>14
<1> QED
  BY <1>11, <1>12, <1>13, <1>14

\* Marking a bar appends what the engine is worth.
LEMMA MarkBooks ==
    ASSUME NEW N \in Nat, NEW h, Sane(h, N), NEW c, NEW first \in Nat \ {0},
           NEW i \in first .. (N - 1), NEW s, Books(h, c, s, first, i), Len(s.equity) = i - first
    PROVE  Books(h, c, Mark(h, s, i), first, i) /\ Marked(h, Mark(h, s, i), first, i)
<1> DEFINE worth == s.cash + (s.position * h[i].close) \div Unit
           e == [s EXCEPT !.equity = Append(s.equity, worth)]
<1>1. s \in Engines /\ SanePrices(h[i]) /\ Unit \in Nat \ {0}
  BY Settings DEF Books, Sane
<1>2. worth \in Nat
  <2>1. s.position \in Nat /\ h[i].close \in Nat /\ s.cash \in Nat
    BY <1>1 DEF SanePrices, Engines
  <2>2. s.position * h[i].close \in Nat
    BY <2>1, TimesNat
  <2>3. (s.position * h[i].close) \div Unit \in Nat
    BY <1>1, <2>2, DivNat
  <2> QED
    BY <2>1, <2>3
<1>3. Mark(h, s, i) = e
  BY DEF Mark
<1>4. s.equity \in Seq(Nat)
  BY <1>1 DEF Engines
<1> HIDE DEF worth
<1>5. /\ Append(s.equity, worth) \in Seq(Nat)
      /\ Len(Append(s.equity, worth)) = Len(s.equity) + 1
      /\ Append(s.equity, worth)[Len(s.equity) + 1] = worth
  BY <1>2, <1>4, AppendProperties
<1>6. /\ e \in Engines /\ e.equity = Append(s.equity, worth)
      /\ e.cash = s.cash /\ e.position = s.position /\ e.entry = s.entry /\ e.trades = s.trades
  BY <1>1, <1>5 DEF Engines
<1> HIDE DEF e
<1>7. Books(h, c, e, first, i)
  BY <1>6 DEF Books
<1>8. Marked(h, e, first, i)
  <2>1. Len(e.equity) = i - first + 1 /\ e.equity[Len(e.equity)] = worth
    BY <1>5, <1>6
  <2> QED
    BY <1>6, <2>1 DEF Marked, worth
<1> QED
  BY <1>3, <1>7, <1>8

\* A bar keeps the books, whatever the signals.
LEMMA BarBooks ==
    ASSUME NEW N \in Nat, NEW h, NEW x, Readable(h, x, N), NEW c \in Costs, NEW p,
           p.atr_multiple \in Nat, NEW cs, NEW first \in Nat \ {0}, NEW i \in first .. (N - 1),
           NEW s, Books(h, c, s, first, i - 1), Marked(h, s, first, i - 1)
    PROVE  Books(h, c, Bar(h, x, p, c, cs, s, i), first, i) /\ Marked(h, Bar(h, x, p, c, cs, s, i), first, i)
<1> DEFINE e == IF s.entry # Flat THEN Hold(h, x, p, c, s, i)
                ELSE IF EvaluateEntry(h, p, i, cs) THEN Enter(h, c, s, i) ELSE s
<1>1. Bar(h, x, p, c, cs, s, i) = Mark(h, e, i)
  BY DEF Bar
<1>2. Sane(h, N) /\ i > 0 /\ i \in Nat /\ first \in Nat /\ (i - 1) - first + 1 = i - first
  BY DEF Readable
<1>3. Books(h, c, e, first, i) /\ e.equity = s.equity
  <2>1. CASE s.entry # Flat
    BY <2>1, HoldBooks
  <2>2. CASE s.entry = Flat /\ EvaluateEntry(h, p, i, cs)
    <3>1. Books(h, c, Enter(h, c, s, i), first, i)
      BY <1>2, <2>2, EnterBooks
    <3>2. s \in Engines
      BY DEF Books
    <3>3. Enter(h, c, s, i).equity = s.equity
      BY <3>2 DEF Enter, Engines
    <3> QED
      BY <2>2, <3>1, <3>3
  <2>3. CASE s.entry = Flat /\ ~EvaluateEntry(h, p, i, cs)
    <3>1. s.trades \in Seq(TradeRecords) /\ Real(h, s.trades, first, i - 1)
      BY DEF Books, Engines
    <3>2. Real(h, s.trades, first, i)
      BY <1>2, <3>1, RealLater
    <3>3. Books(h, c, s, first, i)
      BY <2>3, <3>2 DEF Books
    <3> QED
      BY <2>3, <3>3
  <2> QED
    BY <2>1, <2>2, <2>3
<1>4. Len(e.equity) = i - first
  BY <1>2, <1>3 DEF Marked
<1> HIDE DEF e
<1> QED
  BY <1>1, <1>2, <1>3, <1>4, MarkBooks

\* What a bar makes of the engine after the bar before it.
RunBody(h, x, p, c, cs, a, f, i) == IF i = a THEN Fresh ELSE Bar(h, x, p, c, cs, f[i - 1], i)
RunRec(h, x, p, c, cs, a, b, f) == f = [i \in a .. b |-> RunBody(h, x, p, c, cs, a, f, i)]

\* The recurrence defines an engine over any number of bars.
LEMMA RunExists ==
    ASSUME NEW h, NEW x, NEW p, NEW c, NEW cs, NEW a \in Nat
    PROVE  \A b \in Nat : b >= a => \E f : RunRec(h, x, p, c, cs, a, b, f)
<1> DEFINE Bad == {b \in Nat : b >= a /\ ~\E f : RunRec(h, x, p, c, cs, a, b, f)}
<1> SUFFICES ASSUME Bad # {} PROVE FALSE
  OBVIOUS
<1>1. PICK n \in Bad : \A m \in Bad : n <= m
  <2>1. Bad \subseteq Nat /\ Bad # {}
    OBVIOUS
  <2> HIDE DEF Bad
  <2> QED
    BY <2>1, NatMin
<1>2. n \in Nat /\ n >= a /\ ~\E f : RunRec(h, x, p, c, cs, a, n, f)
  OBVIOUS
<1>3. n # a
  <2>1. ASSUME n = a PROVE FALSE
    <3> DEFINE f == [i \in a .. a |-> Fresh]
    <3>1. f = [i \in a .. a |-> RunBody(h, x, p, c, cs, a, f, i)]
      <4>1. \A i \in a .. a : i = a
        OBVIOUS
      <4> QED
        BY <4>1 DEF RunBody
    <3> QED
      BY <1>2, <2>1, <3>1 DEF RunRec
  <2> QED
    BY <2>1
<1>4. n - 1 \in Nat /\ n - 1 >= a /\ n - 1 \notin Bad
  BY <1>1, <1>2, <1>3
<1>5. PICK f : RunRec(h, x, p, c, cs, a, n - 1, f)
  BY <1>4
<1> DEFINE g == [i \in a .. n |-> IF i = n THEN RunBody(h, x, p, c, cs, a, f, i) ELSE f[i]]
<1>6. ASSUME NEW i \in a .. n PROVE g[i] = RunBody(h, x, p, c, cs, a, g, i)
  <2>1. i # a => g[i - 1] = f[i - 1]
    BY <1>2
  <2>2. RunBody(h, x, p, c, cs, a, f, i) = RunBody(h, x, p, c, cs, a, g, i)
    <3> HIDE DEF g
    <3> QED
      BY <2>1 DEF RunBody
  <2>3. i # n => f[i] = RunBody(h, x, p, c, cs, a, f, i)
    <3>1. f = [k \in a .. (n - 1) |-> RunBody(h, x, p, c, cs, a, f, k)]
      BY <1>5 DEF RunRec
    <3>2. i # n => i \in a .. (n - 1)
      BY <1>2
    <3> QED
      BY <3>1, <3>2, Zenon
  <2> QED
    BY <2>2, <2>3
<1>7. RunRec(h, x, p, c, cs, a, n, g)
  <2>1. g = [i \in a .. n |-> g[i]]
    OBVIOUS
  <2> HIDE DEF g
  <2>2. [i \in a .. n |-> g[i]] = [i \in a .. n |-> RunBody(h, x, p, c, cs, a, g, i)]
    BY <1>6
  <2> QED
    BY <2>1, <2>2 DEF RunRec
<1> QED
  BY <1>2, <1>7

EngineRun(h, x, p, c, start, end) ==
    CHOOSE f : RunRec(h, x, p, c, AlphaSignals(h, x, p, MaxOf(1, start), end),
                      MaxOf(1, start) - 1, MaxOf(MaxOf(1, start) - 1, end - 1), f)

\* The engine bar by bar, over the bars first .. b.
Traced(h, x, p, c, cs, first, b, f) ==
    f[first - 1] = Fresh /\ \A i \in first .. b : f[i] = Bar(h, x, p, c, cs, f[i - 1], i)

\* A backtest settles the engine it defines.
LEMMA EngineUnfold ==
    ASSUME NEW h, NEW x, NEW p, NEW c, NEW start \in Nat, NEW end \in Nat,
           NEW first, first = MaxOf(1, start), NEW b, b = MaxOf(first - 1, end - 1),
           NEW f, f = EngineRun(h, x, p, c, start, end),
           NEW cs, cs = AlphaSignals(h, x, p, first, end)
    PROVE  /\ Engine(h, x, p, c, start, end) = Settle(h, c, f[b], end)
           /\ first \in Nat \ {0} /\ b \in Nat /\ b >= first - 1 /\ b >= end - 1
           /\ (b = first - 1 \/ b = end - 1)
           /\ Traced(h, x, p, c, cs, first, b, f)
<1>1. first \in Nat \ {0} /\ b \in Nat /\ b >= first - 1 /\ b >= end - 1 /\ (b = first - 1 \/ b = end - 1)
  BY DEF MaxOf
<1>2. Engine(h, x, p, c, start, end) = Settle(h, c, f[b], end)
  BY DEF Engine, EngineRun, RunRec, RunBody
<1>3. RunRec(h, x, p, c, cs, first - 1, b, f)
  <2>1. \E g : RunRec(h, x, p, c, cs, first - 1, b, g)
    <3>1. first - 1 \in Nat /\ b \in Nat /\ b >= first - 1
      BY <1>1
    <3> QED
      BY <3>1, RunExists
  <2> QED
    BY <2>1 DEF EngineRun
<1>4. \A i \in (first - 1) .. b : f[i] = RunBody(h, x, p, c, cs, first - 1, f, i)
  <2>1. f = [i \in (first - 1) .. b |-> RunBody(h, x, p, c, cs, first - 1, f, i)]
    BY <1>3 DEF RunRec
  <2> QED
    BY <2>1, Zenon
<1>5. f[first - 1] = Fresh
  <2>1. first - 1 \in (first - 1) .. b
    BY <1>1
  <2> QED
    BY <1>4, <2>1 DEF RunBody
<1>6. \A i \in first .. b : f[i] = Bar(h, x, p, c, cs, f[i - 1], i)
  <2>1. \A i \in first .. b : i \in (first - 1) .. b /\ i # first - 1
    BY <1>1
  <2> QED
    BY <1>4, <2>1 DEF RunBody
<1> QED
  BY <1>1, <1>2, <1>5, <1>6 DEF Traced

\* The books are kept at every bar of a backtest.
LEMMA RunBooks ==
    ASSUME NEW N \in Nat, NEW h, NEW x, Readable(h, x, N), NEW c \in Costs, NEW p,
           p.atr_multiple \in Nat, NEW cs, NEW first \in Nat \ {0}, NEW b \in Nat, b < N \/ b = first - 1,
           NEW f, Traced(h, x, p, c, cs, first, b, f)
    PROVE  \A i \in (first - 1) .. b : Books(h, c, f[i], first, i) /\ Marked(h, f[i], first, i)
<1> DEFINE Bad == {i \in (first - 1) .. b : ~(Books(h, c, f[i], first, i) /\ Marked(h, f[i], first, i))}
<1> SUFFICES ASSUME Bad # {} PROVE FALSE
  OBVIOUS
<1>1. PICK i \in Bad : \A m \in Bad : i <= m
  <2>1. Bad \subseteq Nat
    OBVIOUS
  <2> HIDE DEF Bad
  <2> QED
    BY <2>1, NatMin
<1>2. i \in (first - 1) .. b /\ ~(Books(h, c, f[i], first, i) /\ Marked(h, f[i], first, i))
  OBVIOUS
<1>3. \A m \in (first - 1) .. b : m < i => Books(h, c, f[m], first, m) /\ Marked(h, f[m], first, m)
  <2>1. \A m \in (first - 1) .. b : m < i => m \notin Bad
    <3> HIDE DEF Bad
    <3> QED
      BY <1>1, <1>2
  <2> QED
    BY <2>1
<1> HIDE DEF Bad
<1>4. i # first - 1
  BY <1>2, FreshBooks DEF Traced
<1>5. i \in first .. b /\ i \in first .. (N - 1) /\ i - 1 \in (first - 1) .. b /\ i - 1 < i
  BY <1>2, <1>4
<1>6. Books(h, c, f[i - 1], first, i - 1) /\ Marked(h, f[i - 1], first, i - 1)
  BY <1>3, <1>5
<1>7. f[i] = Bar(h, x, p, c, cs, f[i - 1], i)
  BY <1>5 DEF Traced
<1>8. /\ Books(h, c, Bar(h, x, p, c, cs, f[i - 1], i), first, i)
      /\ Marked(h, Bar(h, x, p, c, cs, f[i - 1], i), first, i)
  BY <1>5, <1>6, BarBooks
<1> QED
  BY <1>2, <1>7, <1>8

\* A finished backtest: its trades could have been made, and the money at its
\* end is what they made of the money at its begin.
Finished(h, c, e, first, end) ==
    /\ e \in Engines
    /\ Real(h, e.trades, first, end - 1) \/ e.trades = <<>>
    /\ e.equity # <<>> => e.equity[Len(e.equity)] = Compounded(e.trades, c)

\* Settling sells what is held at the last close.
LEMMA SettleBooks ==
    ASSUME NEW N \in Nat, NEW h, Sane(h, N), NEW c \in Costs, NEW first \in Nat \ {0},
           NEW end \in Nat, end <= N, NEW b \in Nat, b = first - 1 \/ b = end - 1, b >= first - 1, b >= end - 1,
           NEW s, Books(h, c, s, first, b), Marked(h, s, first, b)
    PROVE  Finished(h, c, Settle(h, c, s, end), first, end)
<1>1. s \in Engines /\ s.equity \in Seq(Nat) /\ s.trades \in Seq(TradeRecords)
  BY DEF Books, Engines
<1>2. CASE s.entry = Flat
  <2>1. Settle(h, c, s, end) = s /\ s.position = 0 /\ s.cash = Compounded(s.trades, c) /\ s.cash \in Nat
    BY <1>1, <1>2 DEF Settle, Books, Engines
  <2>2. Len(s.equity) = b - first + 1
    BY DEF Marked
  <2>3. s.equity # <<>> => s.equity[Len(s.equity)] = Compounded(s.trades, c)
    <3> SUFFICES ASSUME s.equity # <<>> PROVE s.equity[Len(s.equity)] = Compounded(s.trades, c)
      OBVIOUS
    <3>1. Len(s.equity) \in Nat /\ Len(s.equity) # 0
      BY <1>1, LenProperties, EmptySeq
    <3>2. b \in 0 .. (N - 1)
      BY <2>2, <3>1
    <3>3. h[b].close \in Nat \ {0}
      BY <3>2 DEF Sane, SanePrices
    <3>4. (0 * h[b].close) \div Unit = 0
      BY <3>3, SidesOfATrade
    <3>5. s.equity[Len(s.equity)] = s.cash + (0 * h[b].close) \div Unit
      BY <2>1 DEF Marked
    <3> QED
      BY <2>1, <3>4, <3>5
  <2>4. Real(h, s.trades, first, end - 1) \/ s.trades = <<>>
    <3>1. CASE b = end - 1
      BY <3>1 DEF Books
    <3>2. CASE b # end - 1
      <4>1. b = first - 1
        BY <3>2
      <4>2. ASSUME s.trades # <<>> PROVE FALSE
        <5>1. 1 \in DOMAIN s.trades
          BY <1>1, <4>2, LenProperties, EmptySeq
        <5>2. s.trades[1] \in TradeRecords
          BY <1>1, <5>1, ElementOfSeq, LenProperties
        <5>3. first <= s.trades[1].in /\ s.trades[1].out <= b /\ s.trades[1].in <= s.trades[1].out
          BY <5>1 DEF Books, Real, Possible
        <5>4. s.trades[1].in \in Nat /\ s.trades[1].out \in Nat
          BY <5>2 DEF TradeRecords
        <5> QED
          BY <4>1, <5>3, <5>4
      <4> QED
        BY <4>2
    <3> QED
      BY <3>1, <3>2
  <2> QED
    BY <1>1, <2>1, <2>3, <2>4 DEF Finished
<1>3. CASE s.entry # Flat
  <2>1. b = end - 1 /\ end - 1 \in first .. (N - 1)
    <3>1. s.entry \in first .. b
      BY <1>3 DEF Books
    <3> QED
      BY <3>1
  <2>2. SanePrices(h[end - 1])
    BY <2>1 DEF Sane
  <2> DEFINE sold == Exit(h, c, s, end - 1, h[end - 1].close, "end_of_window")
             e == [sold EXCEPT !.equity[Len(sold.equity)] = sold.cash]
  <2>3. Books(h, c, sold, first, end - 1) /\ sold.equity = s.equity /\ sold.entry = Flat
    <3>1. h[end - 1].close \in Nat \ {0} /\ "end_of_window" \in Reasons
      BY <2>2 DEF SanePrices, Reasons
    <3>2. OhlcValid(h[end - 1]) => h[end - 1].low <= h[end - 1].close /\ h[end - 1].close <= h[end - 1].high
      BY <2>2 DEF MinOf, MaxOf, SanePrices, OhlcValid
    <3>3. Books(h, c, s, first, end - 1)
      BY <2>1
    <3> QED
      BY <1>3, <2>1, <3>1, <3>2, <3>3, ExitBooks
  <2>4. Settle(h, c, s, end) = e
    BY <1>3 DEF Settle
  <2> HIDE DEF sold
  <2>5. sold \in Engines /\ sold.cash \in Nat /\ sold.equity \in Seq(Nat) /\ sold.cash = Compounded(sold.trades, c)
    BY <2>3 DEF Books, Engines
  <2>6. Len(sold.equity) \in Nat \ {0}
    <3>1. Len(s.equity) = b - first + 1
      BY DEF Marked
    <3> QED
      BY <2>1, <2>3, <3>1
  <2> DEFINE q == [sold.equity EXCEPT ![Len(sold.equity)] = sold.cash]
  <2>7. q \in Seq(Nat) /\ Len(q) = Len(sold.equity) /\ q[Len(sold.equity)] = sold.cash
    <3>1. Len(sold.equity) \in DOMAIN sold.equity
      BY <2>5, <2>6, LenProperties
    <3> QED
      BY <2>5, <2>6, <3>1, ExceptSeq
  <2> HIDE DEF q
  <2>8. e = [sold EXCEPT !.equity = q]
    BY DEF q
  <2> HIDE DEF e
  <2>9. e \in Engines /\ e.trades = sold.trades /\ e.equity = q
    BY <2>5, <2>7, <2>8 DEF Engines
  <2>10. Real(h, e.trades, first, end - 1)
    BY <2>3, <2>9 DEF Books
  <2>11. e.equity[Len(e.equity)] = Compounded(e.trades, c)
    BY <2>5, <2>7, <2>9
  <2> QED
    BY <2>4, <2>9, <2>10, <2>11 DEF Finished
<1> QED
  BY <1>2, <1>3

\* Every backtest of a history of sane prices is such a one.
LEMMA EngineFinishes ==
    ASSUME NEW N \in Nat, NEW h, NEW x, Readable(h, x, N), NEW c \in Costs, NEW p,
           p.atr_multiple \in Nat, NEW start \in Nat, NEW end \in Nat, end <= N
    PROVE  Finished(h, c, Engine(h, x, p, c, start, end), MaxOf(1, start), end)
<1> DEFINE first == MaxOf(1, start)
           b == MaxOf(first - 1, end - 1)
           f == EngineRun(h, x, p, c, start, end)
           cs == AlphaSignals(h, x, p, first, end)
<1>1. /\ Engine(h, x, p, c, start, end) = Settle(h, c, f[b], end)
      /\ first \in Nat \ {0} /\ b \in Nat /\ b >= first - 1 /\ b >= end - 1
      /\ (b = first - 1 \/ b = end - 1)
      /\ Traced(h, x, p, c, cs, first, b, f)
  BY EngineUnfold
<1> HIDE DEF first, b, f, cs
<1>2. b < N \/ b = first - 1
  BY <1>1
<1>3. \A i \in (first - 1) .. b : Books(h, c, f[i], first, i) /\ Marked(h, f[i], first, i)
  BY <1>1, <1>2, RunBooks
<1>4. Books(h, c, f[b], first, b) /\ Marked(h, f[b], first, b)
  BY <1>1, <1>3
<1>5. Finished(h, c, Settle(h, c, f[b], end), first, end)
  BY <1>1, <1>4, SettleBooks DEF Readable
<1> QED
  BY <1>1, <1>5 DEF first

(************************** what the engine reads ***************************)

\* The signals below bar n read the bars below it.
LEMMA SignalsAlike ==
    ASSUME NEW N \in Nat, NEW h, NEW x, NEW g, NEW y, DOMAIN h = 0 .. (N - 1), DOMAIN g = 0 .. (N - 1),
           NEW p, p.ma_period \in Nat \ {0}, p.entry_mode \in EntryModes,
           NEW n \in Nat, Alike(h, x, g, y, p.ma_period, n),
           NEW first \in Nat \ {0}, NEW end \in Nat, end <= n, n <= N
    PROVE  AlphaSignals(h, x, p, first, end) = AlphaSignals(g, y, p, first, end)
<1>1. Cardinality(0 .. (N - 1)) = N
  BY FS_Interval
<1>2. MinOf(N, end) = end /\ MaxOf(0, first) = first
  BY DEF MinOf, MaxOf
<1>3. \A i \in first .. (end - 1) : i \in 1 .. (n - 1)
  OBVIOUS
<1>4. \A i \in first .. (end - 1) : EntryRule(h, x, p, i) <=> EntryRule(g, y, p, i)
  BY <1>3, EntryAlike
<1>5. AlphaSignals(h, x, p, first, end) = {i \in first .. (end - 1) : EntryRule(h, x, p, i)}
  BY <1>1, <1>2 DEF AlphaSignals
<1>6. AlphaSignals(g, y, p, first, end) = {i \in first .. (end - 1) : EntryRule(g, y, p, i)}
  BY <1>1, <1>2 DEF AlphaSignals
<1> QED
  BY <1>4, <1>5, <1>6

\* So does a bar of the engine.
LEMMA BarAlike ==
    ASSUME NEW N \in Nat, NEW h, NEW x, NEW g, NEW y,
           NEW p, NEW c, NEW cs, NEW n \in Nat, n <= N, Alike(h, x, g, y, p.ma_period, n),
           NEW first \in Nat \ {0}, NEW i \in first .. (n - 1), NEW s, Books(h, c, s, first, i - 1)
    PROVE  Bar(h, x, p, c, cs, s, i) = Bar(g, y, p, c, cs, s, i)
<1>1. i \in 0 .. (n - 1) /\ i - 1 \in 0 .. (n - 1)
  OBVIOUS
<1>2. /\ h[i] = g[i] /\ h[i - 1] = g[i - 1] /\ x.atr[i] = y.atr[i]
      /\ x.fast[i] = y.fast[i] /\ x.fast[i - 1] = y.fast[i - 1]
      /\ x.slow[i] = y.slow[i] /\ x.slow[i - 1] = y.slow[i - 1]
  BY <1>1 DEF Alike, SameUpTo
<1>3. CASE s.entry # Flat
  <2> DEFINE peak == PeakAt(h, s, i)
             held == [s EXCEPT !.peak = peak]
  <2>1. s.entry \in 0 .. (n - 1) /\ s \in Engines
    <3>1. s.entry \in first .. (i - 1)
      BY <1>3 DEF Books
    <3> QED
      BY <3>1 DEF Books
  <2>2. h[s.entry] = g[s.entry]
    BY <2>1 DEF Alike, SameUpTo
  <2>3. PeakAt(g, s, i) = peak
    BY <1>2 DEF PeakAt
  <2>4. held.entry = s.entry
    BY <2>1 DEF Engines
  <2> HIDE DEF peak
  <2>5. CurrentStop(x, p, i, peak) = CurrentStop(y, p, i, peak)
    BY <1>2 DEF CurrentStop
  <2>6. /\ StopHit(h, x, p, i, peak) <=> StopHit(g, y, p, i, peak)
        /\ LimitFills(h, x, p, i, peak) <=> LimitFills(g, y, p, i, peak)
        /\ StopPrice(h, x, p, i, peak) = StopPrice(g, y, p, i, peak)
    BY <1>2, <2>5 DEF StopHit, LimitFills, StopPrice, Limit
  <2>7. CrossHit(x, p, i) <=> CrossHit(y, p, i)
    BY <1>2 DEF CrossHit, DeadCross
  <2>8. \A price, why : Exit(h, c, held, i, price, why) = Exit(g, c, held, i, price, why)
    <3> HIDE DEF held
    <3> QED
      BY <2>2, <2>4 DEF Exit
  <2>9. Hold(h, x, p, c, s, i) =
          IF StopHit(h, x, p, i, peak)
          THEN IF LimitFills(h, x, p, i, peak)
               THEN Exit(h, c, held, i, StopPrice(h, x, p, i, peak), "stp_lmt_fill")
               ELSE [held EXCEPT !.missed = TRUE]
          ELSE IF CrossHit(x, p, i) THEN Exit(h, c, held, i, h[i].close, "ma_cross") ELSE held
    BY DEF Hold, peak
  <2>10. Hold(g, y, p, c, s, i) =
          IF StopHit(g, y, p, i, peak)
          THEN IF LimitFills(g, y, p, i, peak)
               THEN Exit(g, c, held, i, StopPrice(g, y, p, i, peak), "stp_lmt_fill")
               ELSE [held EXCEPT !.missed = TRUE]
          ELSE IF CrossHit(y, p, i) THEN Exit(g, c, held, i, g[i].close, "ma_cross") ELSE held
    BY <2>3 DEF Hold
  <2> HIDE DEF held
  <2>11. Hold(h, x, p, c, s, i) = Hold(g, y, p, c, s, i)
    BY <1>2, <2>6, <2>7, <2>8, <2>9, <2>10
  <2> QED
    BY <1>2, <1>3, <2>11 DEF Bar, Mark
<1>4. CASE s.entry = Flat
  <2>1. EvaluateEntry(h, p, i, cs) <=> EvaluateEntry(g, p, i, cs)
    BY <1>2 DEF EvaluateEntry
  <2>2. Enter(h, c, s, i) = Enter(g, c, s, i)
    BY <1>2 DEF Enter
  <2> QED
    BY <1>2, <1>4, <2>1, <2>2 DEF Bar, Mark
<1> QED
  BY <1>3, <1>4

\* A backtest that ends at or below bar n is the same for histories that are
\* the same below n.
LEMMA EngineAlike ==
    ASSUME NEW N \in Nat, NEW h, NEW x, NEW g, NEW y, Readable(h, x, N), Readable(g, y, N),
           NEW p, p.ma_period \in Nat \ {0}, p.entry_mode \in EntryModes, p.atr_multiple \in Nat,
           NEW c \in Costs, NEW n \in Nat, n <= N, Alike(h, x, g, y, p.ma_period, n),
           NEW start \in Nat, NEW end \in Nat, end <= n
    PROVE  Engine(h, x, p, c, start, end) = Engine(g, y, p, c, start, end)
<1> DEFINE first == MaxOf(1, start)
           b == MaxOf(first - 1, end - 1)
           f == EngineRun(h, x, p, c, start, end)
           k == EngineRun(g, y, p, c, start, end)
           cs == AlphaSignals(h, x, p, first, end)
           ds == AlphaSignals(g, y, p, first, end)
<1>1. /\ Engine(h, x, p, c, start, end) = Settle(h, c, f[b], end)
      /\ first \in Nat \ {0} /\ b \in Nat /\ b >= first - 1 /\ b >= end - 1
      /\ (b = first - 1 \/ b = end - 1)
      /\ Traced(h, x, p, c, cs, first, b, f)
  BY EngineUnfold
<1>2. /\ Engine(g, y, p, c, start, end) = Settle(g, c, k[b], end)
      /\ Traced(g, y, p, c, ds, first, b, k)
  BY EngineUnfold
<1> HIDE DEF first, b, f, k
<1>3. cs = ds
  BY <1>1, SignalsAlike DEF Readable, Sane
<1> HIDE DEF cs, ds
<1>4. \A i \in (first - 1) .. b : Books(h, c, f[i], first, i) /\ Marked(h, f[i], first, i)
  <2>1. b < N \/ b = first - 1
    BY <1>1
  <2> QED
    BY <1>1, <2>1, RunBooks
<1>5. \A i \in (first - 1) .. b : f[i] = k[i]
  <2> DEFINE Bad == {i \in (first - 1) .. b : f[i] # k[i]}
  <2> SUFFICES ASSUME Bad # {} PROVE FALSE
    OBVIOUS
  <2>1. PICK i \in Bad : \A m \in Bad : i <= m
    <3>1. Bad \subseteq Nat
      BY <1>1
    <3> HIDE DEF Bad
    <3> QED
      BY <3>1, NatMin
  <2>2. i \in (first - 1) .. b /\ f[i] # k[i]
    OBVIOUS
  <2>3. i # first - 1
    BY <1>1, <1>2, <2>2 DEF Traced
  <2>4. i - 1 \in (first - 1) .. b /\ i - 1 \notin Bad
    BY <1>1, <2>1, <2>2, <2>3
  <2>5. f[i - 1] = k[i - 1]
    BY <2>4
  <2> HIDE DEF Bad
  <2>6. i \in first .. b /\ i \in first .. (n - 1)
    BY <1>1, <2>2, <2>3
  <2>7. f[i] = Bar(h, x, p, c, cs, f[i - 1], i) /\ k[i] = Bar(g, y, p, c, ds, k[i - 1], i)
    BY <1>1, <1>2, <2>6 DEF Traced
  <2>8. Books(h, c, f[i - 1], first, i - 1)
    BY <1>4, <2>4
  <2>9. Bar(h, x, p, c, cs, f[i - 1], i) = Bar(g, y, p, c, cs, f[i - 1], i)
    BY <1>1, <2>6, <2>8, BarAlike
  <2> QED
    BY <1>3, <2>2, <2>5, <2>7, <2>9
<1>6. f[b] = k[b] /\ Books(h, c, f[b], first, b)
  BY <1>1, <1>4, <1>5
<1> DEFINE s == f[b]
<1>7. Settle(h, c, s, end) = Settle(g, c, s, end)
  <2> HIDE DEF s
  <2>1. CASE s.entry = Flat
    BY <2>1 DEF Settle
  <2>2. CASE s.entry # Flat
    <3>1. s.entry \in first .. b
      BY <1>6, <2>2 DEF Books, s
    <3>2. s.entry \in 0 .. (n - 1) /\ end - 1 \in 0 .. (n - 1)
      BY <1>1, <3>1
    <3>3. h[s.entry] = g[s.entry] /\ h[end - 1] = g[end - 1]
      BY <3>2 DEF Alike, SameUpTo
    <3>4. Exit(h, c, s, end - 1, h[end - 1].close, "end_of_window")
             = Exit(g, c, s, end - 1, g[end - 1].close, "end_of_window")
      BY <3>3 DEF Exit
    <3> QED
      BY <2>2, <3>4 DEF Settle
  <2> QED
    BY <2>1, <2>2
<1> QED
  BY <1>1, <1>2, <1>6, <1>7

(************************* what a backtest reports **************************)

\* Finite sets have finite images.
LEMMA ImageFinite ==
    ASSUME NEW S, IsFiniteSet(S), NEW f
    PROVE  IsFiniteSet({f[x] : x \in S})
<1> DEFINE T == {f[x] : x \in S}
           g == [x \in S |-> f[x]]
<1>1. g \in Surjection(S, T)
  BY DEF Surjection
<1> HIDE DEF g
<1> QED
  BY <1>1, FS_Surjection

\* Finite sets of numbers have a greatest one.
LEMMA MaxNumber ==
    ASSUME NEW S, IsFiniteSet(S), S # {}, S \subseteq Int
    PROVE  Max(S) \in Int /\ Max(S) \in S /\ \A y \in S : Max(S) >= y
<1> DEFINE HasMax(T) == \E x \in T : \A y \in T : x >= y
           Bad == {T \in SUBSET S : T # {} /\ ~HasMax(T)}
<1>1. HasMax(S)
  <2> SUFFICES ASSUME Bad # {} PROVE FALSE
    OBVIOUS
  <2>1. \A T \in Bad : IsFiniteSet(T)
    BY FS_Subset
  <2>2. PICK T \in Bad : \A U \in SUBSET T : U \in Bad => U = T
    <3> HIDE DEF Bad
    <3> QED
      BY <2>1, LeastSet
  <2>3. T \subseteq S /\ T # {} /\ ~HasMax(T)
    OBVIOUS
  <2>4. PICK x \in T : TRUE
    BY <2>3
  <2> DEFINE U == T \ {x}
  <2>5. U \notin Bad /\ U \subseteq S
    <3>1. U \in SUBSET T /\ U # T
      BY <2>4
    <3> HIDE DEF Bad, U
    <3> QED
      BY <2>2, <2>3, <3>1
  <2>6. CASE U = {}
    <3>1. \A y \in T : y = x
      BY <2>6
    <3>2. x \in Int
      BY <2>3, <2>4
    <3> QED
      BY <2>3, <3>1, <3>2
  <2>7. CASE U # {}
    <3>1. HasMax(U)
      BY <2>5, <2>7
    <3>2. PICK m \in U : \A y \in U : m >= y
      BY <3>1
    <3>3. m \in Int /\ x \in Int /\ m \in T
      BY <2>3, <2>4, <3>2
    <3>4. \A y \in T : y = x \/ y \in U
      OBVIOUS
    <3>5. CASE m >= x
      BY <2>3, <3>2, <3>3, <3>4, <3>5
    <3>6. CASE ~(m >= x)
      <4>1. \A y \in U : y \in Int
        BY <2>3
      <4>2. \A y \in U : x >= y
        BY <3>2, <3>3, <3>6, <4>1
      <4> QED
        BY <2>3, <3>3, <3>4, <4>2
    <3> QED
      BY <3>5, <3>6
  <2> QED
    BY <2>6, <2>7
<1>2. Max(S) \in S /\ \A y \in S : Max(S) >= y
  BY <1>1 DEF Max
<1> QED
  BY <1>2

\* The statistics of a backtest are numbers, whatever the curve.
LEMMA ReturnNumber ==
    ASSUME NEW e \in Seq(Nat), e # <<>>
    PROVE  ReturnOf(e) \in Int
<1>1. Len(e) \in Nat \ {0}
  BY EmptySeq
<1>2. e[1] \in Nat /\ e[Len(e)] \in Nat
  BY <1>1, ElementOfSeq
<1>3. (e[Len(e)] - e[1]) * 1000 \in Int
  BY <1>2
<1> QED
  BY <1>2, <1>3, DivInt DEF ReturnOf

LEMMA DrawdownNumber ==
    ASSUME NEW e \in Seq(Nat), e # <<>>
    PROVE  DrawdownOf(e) \in Int
<1> DEFINE peak == [k \in DOMAIN e |-> Max({e[j] : j \in 1 .. k})]
           down(k) == IF peak[k] > 0 THEN ((peak[k] - e[k]) * 1000) \div peak[k] ELSE 0
<1>1. Len(e) \in Nat \ {0} /\ DOMAIN e = 1 .. Len(e)
  BY EmptySeq, LenProperties
<1>2. \A k \in DOMAIN e : e[k] \in Nat
  BY <1>1, ElementOfSeq
<1>3. \A k \in DOMAIN e : peak[k] \in Int
  <2> SUFFICES ASSUME NEW k \in DOMAIN e PROVE peak[k] \in Int
    OBVIOUS
  <2> DEFINE S == {e[j] : j \in 1 .. k}
  <2>1. k \in Nat \ {0} /\ \A j \in 1 .. k : j \in DOMAIN e
    BY <1>1
  <2>2. IsFiniteSet(S)
    <3>1. IsFiniteSet(1 .. k)
      BY <2>1, FS_Interval
    <3> QED
      BY <3>1, ImageFinite
  <2>3. S # {} /\ S \subseteq Int
    <3>1. 1 \in 1 .. k
      BY <2>1
    <3> QED
      BY <1>2, <2>1, <3>1
  <2>4. Max(S) \in Int
    <3> HIDE DEF S
    <3> QED
      BY <2>2, <2>3, MaxNumber
  <2> QED
    BY <2>4
<1>4. \A k \in DOMAIN e : down(k) \in Int
  <2> SUFFICES ASSUME NEW k \in DOMAIN e PROVE down(k) \in Int
    OBVIOUS
  <2> HIDE DEF peak
  <2>1. peak[k] \in Int /\ e[k] \in Nat
    BY <1>2, <1>3
  <2>2. (peak[k] - e[k]) * 1000 \in Int
    BY <2>1
  <2>3. CASE peak[k] > 0
    <3>1. peak[k] \in Nat \ {0}
      BY <2>1, <2>3
    <3> QED
      BY <2>2, <2>3, <3>1, DivInt
  <2>4. CASE ~(peak[k] > 0)
    BY <2>4
  <2> QED
    BY <2>3, <2>4
<1> DEFINE D == {down(k) : k \in DOMAIN e}
<1>5. DrawdownOf(e) = Max(D)
  BY DEF DrawdownOf
<1> HIDE DEF peak, down
<1>6. D # {} /\ D \subseteq Int
  <2>1. 1 \in DOMAIN e
    BY <1>1
  <2> QED
    BY <1>4, <2>1
<1>7. IsFiniteSet(D)
  <2>1. IsFiniteSet(DOMAIN e)
    BY <1>1, FS_Interval
  <2> DEFINE f == [k \in DOMAIN e |-> down(k)]
  <2>2. D = {f[k] : k \in DOMAIN e}
    OBVIOUS
  <2> HIDE DEF f, D
  <2> QED
    BY <2>1, <2>2, ImageFinite
<1> HIDE DEF D
<1> QED
  BY <1>5, <1>6, <1>7, MaxNumber

LEMMA SharpeNumber ==
    ASSUME NEW e \in Seq(Nat), e # <<>>
    PROVE  SharpeOf(e) \in Int
<1> DEFINE days == {k \in 1 .. (Len(e) - 1) : e[k] > 0}
           m == Cardinality(days)
           ret == [k \in days |-> ((e[k + 1] - e[k]) * 1000) \div e[k]]
           sum == SumFunction(ret)
           sq == [k \in days |-> (ret[k] - sum \div m) * (ret[k] - sum \div m)]
           squares == SumFunction(sq)
           std == SquareRoot(squares \div (m - 1))
<1>1. SharpeOf(e) = IF m < 2 THEN 0 ELSE IF std > 0 THEN (100 * sum) \div (m * std) ELSE 0
  BY DEF SharpeOf
<1>2. Len(e) \in Nat \ {0} /\ \A k \in 1 .. Len(e) : e[k] \in Nat
  BY EmptySeq, ElementOfSeq
<1>3. IsFiniteSet(days) /\ m \in Nat
  <2>1. IsFiniteSet(1 .. (Len(e) - 1))
    BY <1>2, FS_Interval
  <2>2. days \subseteq 1 .. (Len(e) - 1)
    OBVIOUS
  <2>3. IsFiniteSet(days)
    <3> HIDE DEF days
    <3> QED
      BY <2>1, <2>2, FS_Subset
  <2> QED
    BY <2>3, FS_CardinalityType
<1>4. DOMAIN ret = days /\ \A k \in days : ret[k] \in Int
  <2>1. ASSUME NEW k \in days PROVE ret[k] \in Int
    <3>1. e[k + 1] \in Nat /\ e[k] \in Nat \ {0}
      BY <1>2
    <3>2. (e[k + 1] - e[k]) * 1000 \in Int
      BY <3>1
    <3>3. ret[k] = ((e[k + 1] - e[k]) * 1000) \div e[k]
      OBVIOUS
    <3> QED
      BY <3>1, <3>2, <3>3, DivInt
  <2> QED
    BY <2>1
<1> HIDE DEF ret
<1>5. sum \in Int
  BY <1>3, <1>4, FunctionSumNumber
<1> HIDE DEF sum, m
<1>6. CASE m < 2
  BY <1>1, <1>6
<1>7. CASE ~(m < 2)
  <2>1. sum \div m \in Int
    BY <1>3, <1>5, <1>7, DivInt
  <2>2. \A k \in days : sq[k] \in Nat
    <3> SUFFICES ASSUME NEW k \in days PROVE sq[k] \in Nat
      OBVIOUS
    <3>1. ret[k] - sum \div m \in Int
      BY <1>4, <2>1
    <3>2. sq[k] = (ret[k] - sum \div m) * (ret[k] - sum \div m)
      OBVIOUS
    <3> QED
      BY <3>1, <3>2, SquareNat
  <2>3. DOMAIN sq = days
    OBVIOUS
  <2> HIDE DEF sq, days
  <2>4. squares \in Nat
    <3>1. \A k \in DOMAIN sq : sq[k] \in Int /\ sq[k] >= 0
      BY <2>2, <2>3
    <3> QED
      BY <1>3, <2>3, <3>1, FunctionSumNumber
  <2> HIDE DEF squares
  <2>5. squares \div (m - 1) \in Nat
    BY <1>3, <1>7, <2>4, DivNat
  <2>6. std \in Nat
    BY <2>5, RootNat
  <2> HIDE DEF std
  <2>7. CASE std > 0
    <3>1. m * std \in Nat \ {0}
      BY <1>3, <1>7, <2>6, <2>7, TimesNat
    <3>2. 100 * sum \in Int
      BY <1>5
    <3> QED
      BY <1>1, <1>7, <2>7, <3>1, <3>2, DivInt
  <2>8. CASE ~(std > 0)
    BY <1>1, <1>7, <2>8
  <2> QED
    BY <2>7, <2>8
<1> QED
  BY <1>6, <1>7

LEMMA KellyNumber ==
    ASSUME NEW ts \in Seq(TradeRecords), ts # <<>>
    PROVE  KellyOf(ts) \in Int
<1> DEFINE n == Len(ts)
           pnl == [k \in 1 .. n |-> Pnl(ts[k])]
           wins == {k \in 1 .. n : pnl[k] > 0}
           losses == {k \in 1 .. n : pnl[k] < 0}
           w == Cardinality(wins)
           l == Cardinality(losses)
           won == SumFunctionOnSet(pnl, wins)
           lost == Abs(SumFunctionOnSet(pnl, losses))
<1>1. KellyOf(ts) = IF losses = {} \/ won <= 0 THEN 0
                    ELSE (100 * (w * l * won - (n - w) * lost * w)) \div (n * l * won)
  BY DEF KellyOf
<1>2. n \in Nat \ {0}
  BY EmptySeq
<1>3. \A k \in 1 .. n : pnl[k] \in Int
  <2> SUFFICES ASSUME NEW k \in 1 .. n PROVE pnl[k] \in Int
    OBVIOUS
  <2>1. ts[k] \in TradeRecords
    BY ElementOfSeq
  <2>2. ts[k].buy \in Nat \ {0} /\ ts[k].sell \in Nat
    BY <2>1 DEF TradeRecords
  <2>3. (ts[k].sell - ts[k].buy) * 1000 \in Int
    BY <2>2
  <2>4. Pnl(ts[k]) \in Int
    BY <2>2, <2>3, DivInt DEF Pnl
  <2> QED
    BY <2>4
<1> HIDE DEF pnl, n
<1>4. /\ IsFiniteSet(wins) /\ IsFiniteSet(losses)
      /\ wins \subseteq 1 .. n /\ losses \subseteq 1 .. n
  <2>1. wins \subseteq 1 .. n /\ losses \subseteq 1 .. n
    OBVIOUS
  <2>2. IsFiniteSet(1 .. n)
    BY <1>2, FS_Interval
  <2> HIDE DEF wins, losses
  <2> QED
    BY <2>1, <2>2, FS_Subset
<1> HIDE DEF wins, losses
<1>5. w \in Nat /\ l \in Nat /\ (losses # {} => l # 0)
  BY <1>4, FS_CardinalityType, FS_EmptySet
<1>6. won \in Int /\ lost \in Int
  <2>1. won \in Int
    BY <1>3, <1>4, SumNumber
  <2>2. SumFunctionOnSet(pnl, losses) \in Int
    BY <1>3, <1>4, SumNumber
  <2> QED
    BY <2>1, <2>2 DEF Abs, MaxOf
<1> HIDE DEF w, l, won, lost
<1>7. CASE losses = {} \/ won <= 0
  BY <1>1, <1>7
<1>8. CASE ~(losses = {} \/ won <= 0)
  <2>1. l \in Nat \ {0} /\ won \in Nat \ {0}
    BY <1>5, <1>6, <1>8
  <2>2. n * l \in Nat \ {0}
    BY <1>2, <2>1, TimesNat
  <2>3. (n * l) * won \in Nat \ {0}
    BY <2>1, <2>2, TimesNat
  <2>4. w * l \in Int /\ n - w \in Int
    BY <1>2, <1>5, TimesInt
  <2>5. (w * l) * won \in Int /\ (n - w) * lost \in Int
    BY <1>6, <2>4, TimesInt
  <2>6. ((n - w) * lost) * w \in Int
    BY <1>5, <2>5, TimesInt
  <2>7. 100 * ((w * l) * won - ((n - w) * lost) * w) \in Int
    BY <2>5, <2>6
  <2> QED
    BY <1>1, <1>8, <2>3, <2>7, DivInt
<1> QED
  BY <1>7, <1>8

\* What a backtest reports: numbers of a run whose trades could have been made.
Reported(h, c, r, first, end) ==
    /\ \E e : Finished(h, c, e, first, end) /\ r.trades = e.trades /\ r.equity = e.equity
    /\ r.count \in Int /\ r.return \in Int /\ r.maxdd \in Int /\ r.sharpe \in Int /\ r.kelly \in Int

\* Every backtest reports numbers and trades that could have been made.
LEMMA RunReported ==
    ASSUME NEW N \in Nat, NEW h, NEW x, Readable(h, x, N), NEW c \in Costs, NEW p,
           p.atr_multiple \in Nat, NEW start \in Nat, NEW end \in Nat, end <= N
    PROVE  Reported(h, c, Run(h, x, p, c, start, end), MaxOf(1, start), end)
<1> DEFINE e == Engine(h, x, p, c, start, end)
           r == Run(h, x, p, c, start, end)
<1>1. Finished(h, c, e, MaxOf(1, start), end)
  BY EngineFinishes
<1>2. e.trades \in Seq(TradeRecords) /\ e.equity \in Seq(Nat)
  BY <1>1 DEF Finished, Engines
<1>3. r = Stats(e)
  BY DEF Run
<1> HIDE DEF e, r
<1> DEFINE none == e.trades = <<>> \/ e.equity = <<>>
<1>4. /\ r.trades = e.trades /\ r.equity = e.equity /\ r.count = Len(e.trades)
      /\ r.return = IF none THEN 0 ELSE ReturnOf(e.equity)
      /\ r.maxdd = IF none THEN 0 ELSE DrawdownOf(e.equity)
      /\ r.sharpe = IF none THEN 0 ELSE SharpeOf(e.equity)
      /\ r.kelly = IF none THEN 0 ELSE KellyOf(e.trades)
  BY <1>3 DEF Stats
<1>5. Len(e.trades) \in Int
  BY <1>2, LenProperties
<1>6. /\ r.return \in Int /\ r.maxdd \in Int /\ r.sharpe \in Int /\ r.kelly \in Int
  <2>1. CASE none
    BY <1>4, <2>1
  <2>2. CASE ~none
    BY <1>2, <1>4, <2>2, ReturnNumber, DrawdownNumber, SharpeNumber, KellyNumber
  <2> QED
    BY <2>1, <2>2
<1>7. Reported(h, c, r, MaxOf(1, start), end)
  BY <1>1, <1>4, <1>5, <1>6 DEF Reported
<1> QED
  BY <1>7 DEF r

(**************************** ranks and choices *****************************)

\* Python's order of tuples is total, transitive and strict.
LEMMA PrecedesTotal ==
    ASSUME NEW m \in Nat, NEW u \in [1 .. m -> Int], NEW v \in [1 .. m -> Int], u # v
    PROVE  Precedes(u, v) \/ Precedes(v, u)
<1> DEFINE D == {k \in 1 .. m : u[k] # v[k]}
<1>1. D # {} /\ D \subseteq Nat
  OBVIOUS
<1>2. PICK k \in D : \A j \in D : k <= j
  <2> HIDE DEF D
  <2> QED
    BY <1>1, NatMin
<1>3. k \in 1 .. m /\ u[k] # v[k] /\ u[k] \in Int /\ v[k] \in Int
  OBVIOUS
<1>4. \A j \in 1 .. (k - 1) : u[j] = v[j]
  <2> SUFFICES ASSUME NEW j \in 1 .. (k - 1) PROVE u[j] = v[j]
    OBVIOUS
  <2>1. j \in 1 .. m /\ ~(k <= j)
    BY <1>3
  <2>2. j \notin D
    <3> HIDE DEF D
    <3> QED
      BY <1>2, <2>1
  <2> QED
    BY <2>1, <2>2
<1>5. DOMAIN u = 1 .. m /\ DOMAIN v = 1 .. m
  OBVIOUS
<1>6. u[k] > v[k] \/ v[k] > u[k]
  BY <1>3
<1> HIDE DEF D
<1> QED
  BY <1>3, <1>4, <1>5, <1>6 DEF Precedes

LEMMA PrecedesStrict ==
    ASSUME NEW m \in Nat, NEW u \in [1 .. m -> Int], NEW v \in [1 .. m -> Int], Precedes(u, v)
    PROVE  ~Precedes(v, u)
<1>1. PICK k \in 1 .. m : u[k] > v[k] /\ \A j \in 1 .. (k - 1) : u[j] = v[j]
  BY DEF Precedes
<1> SUFFICES ASSUME Precedes(v, u) PROVE FALSE
  OBVIOUS
<1>2. PICK l \in 1 .. m : v[l] > u[l] /\ \A j \in 1 .. (l - 1) : v[j] = u[j]
  BY DEF Precedes
<1>3. u[k] \in Int /\ v[k] \in Int /\ u[l] \in Int /\ v[l] \in Int
  OBVIOUS
<1>4. CASE k < l
  <2>1. k \in 1 .. (l - 1)
    BY <1>4
  <2> QED
    BY <1>1, <1>2, <1>3, <2>1
<1>5. CASE l < k
  <2>1. l \in 1 .. (k - 1)
    BY <1>5
  <2> QED
    BY <1>1, <1>2, <1>3, <2>1
<1>6. CASE k = l
  BY <1>1, <1>2, <1>3, <1>6
<1> QED
  BY <1>4, <1>5, <1>6

LEMMA PrecedesOn ==
    ASSUME NEW m \in Nat, NEW u \in [1 .. m -> Int], NEW v \in [1 .. m -> Int], NEW w \in [1 .. m -> Int],
           Precedes(u, v), Precedes(v, w)
    PROVE  Precedes(u, w)
<1>1. PICK k \in 1 .. m : u[k] > v[k] /\ \A j \in 1 .. (k - 1) : u[j] = v[j]
  BY DEF Precedes
<1>2. PICK l \in 1 .. m : v[l] > w[l] /\ \A j \in 1 .. (l - 1) : v[j] = w[j]
  BY DEF Precedes
<1>3. /\ u[k] \in Int /\ v[k] \in Int /\ w[k] \in Int
      /\ u[l] \in Int /\ v[l] \in Int /\ w[l] \in Int
  OBVIOUS
<1>4. DOMAIN u = 1 .. m
  OBVIOUS
<1>5. CASE k < l
  <2>1. k \in 1 .. (l - 1) /\ \A j \in 1 .. (k - 1) : j \in 1 .. (l - 1)
    BY <1>5
  <2>2. u[k] > w[k] /\ \A j \in 1 .. (k - 1) : u[j] = w[j]
    BY <1>1, <1>2, <1>3, <2>1
  <2> QED
    BY <1>4, <2>2 DEF Precedes
<1>6. CASE l < k
  <2>1. l \in 1 .. (k - 1) /\ \A j \in 1 .. (l - 1) : j \in 1 .. (k - 1)
    BY <1>6
  <2>2. u[l] > w[l] /\ \A j \in 1 .. (l - 1) : u[j] = w[j]
    BY <1>1, <1>2, <1>3, <2>1
  <2> QED
    BY <1>4, <2>2 DEF Precedes
<1>7. CASE k = l
  <2>1. u[k] > w[k] /\ \A j \in 1 .. (k - 1) : u[j] = w[j]
    BY <1>1, <1>2, <1>3, <1>7
  <2> QED
    BY <1>4, <2>1 DEF Precedes
<1> QED
  BY <1>5, <1>6, <1>7

\* Of finitely many different tuples one precedes all others.
LEMMA FirstOfAll ==
    ASSUME NEW S, IsFiniteSet(S), S # {}, NEW m \in Nat, NEW f,
           \A x \in S : f[x] \in [1 .. m -> Int],
           \A x, y \in S : x # y => f[x] # f[y]
    PROVE  \E x \in S : \A y \in S \ {x} : Precedes(f[x], f[y])
<1> DEFINE HasFirst(T) == \E x \in T : \A y \in T \ {x} : Precedes(f[x], f[y])
           Bad == {T \in SUBSET S : T # {} /\ ~HasFirst(T)}
<1> SUFFICES ASSUME Bad # {} PROVE FALSE
  OBVIOUS
<1>1. \A T \in Bad : IsFiniteSet(T)
  BY FS_Subset
<1>2. PICK T \in Bad : \A U \in SUBSET T : U \in Bad => U = T
  <2> HIDE DEF Bad
  <2> QED
    BY <1>1, LeastSet
<1>3. T \subseteq S /\ T # {} /\ ~HasFirst(T)
  OBVIOUS
<1>4. PICK x \in T : TRUE
  BY <1>3
<1> DEFINE U == T \ {x}
<1>5. U \notin Bad /\ U \subseteq S
  <2>1. U \in SUBSET T /\ U # T
    BY <1>4
  <2> HIDE DEF Bad, U
  <2> QED
    BY <1>2, <1>3, <2>1
<1>6. CASE U = {}
  BY <1>3, <1>4, <1>6
<1>7. CASE U # {}
  <2>1. HasFirst(U)
    BY <1>5, <1>7
  <2>2. PICK b \in U : \A y \in U \ {b} : Precedes(f[b], f[y])
    BY <2>1
  <2>3. b \in S /\ x \in S /\ b # x /\ b \in T
    BY <1>3, <1>4, <2>2
  <2>4. f[b] \in [1 .. m -> Int] /\ f[x] \in [1 .. m -> Int] /\ f[b] # f[x]
    BY <2>3
  <2>5. CASE Precedes(f[b], f[x])
    <3>1. \A y \in T \ {b} : y = x \/ y \in U \ {b}
      OBVIOUS
    <3>2. \A y \in T \ {b} : Precedes(f[b], f[y])
      BY <2>2, <2>5, <3>1
    <3> QED
      BY <1>3, <2>3, <3>2
  <2>6. CASE Precedes(f[x], f[b])
    <3>1. ASSUME NEW y \in T \ {x} PROVE Precedes(f[x], f[y])
      <4>1. y = b \/ y \in U \ {b}
        OBVIOUS
      <4>2. CASE y = b
        BY <2>6, <4>2
      <4>3. CASE y \in U \ {b}
        <5>1. f[y] \in [1 .. m -> Int] /\ Precedes(f[b], f[y])
          BY <1>3, <2>2, <4>3
        <5> QED
          BY <2>4, <2>6, <5>1, PrecedesOn
      <4> QED
        BY <4>1, <4>2, <4>3
    <3> QED
      BY <1>3, <1>4, <3>1
  <2>7. Precedes(f[b], f[x]) \/ Precedes(f[x], f[b])
    BY <2>4, PrecedesTotal
  <2> QED
    BY <2>5, <2>6, <2>7
<1> QED
  BY <1>6, <1>7

Numbered(r) == r.count \in Int /\ r.return \in Int /\ r.maxdd \in Int /\ r.sharpe \in Int /\ r.kelly \in Int

\* The ranks are tuples of five numbers; the training rank tells the sets of the grid apart.
LEMMA TrainRankShape ==
    ASSUME NEW cs, NEW g \in Int, Numbered(cs[g])
    PROVE  /\ TrainRank(cs, g) \in [1 .. 5 -> Int] /\ TrainRank(cs, g)[5] = -g
           /\ TrainRank(cs, g) \in Seq(Int) /\ Len(TrainRank(cs, g)) = 5
<1>1. /\ cs[g].kelly \in Int /\ cs[g].return \in Int /\ -cs[g].maxdd \in Int /\ cs[g].count \in Int /\ -g \in Int
  BY DEF Numbered
<1>2. TrainRank(cs, g) = <<cs[g].kelly, cs[g].return, -cs[g].maxdd, cs[g].count, -g>>
  BY DEF TrainRank
<1>3. \A a, b, c, d, e \in Int : /\ <<a, b, c, d, e>> \in Seq(Int) /\ Len(<<a, b, c, d, e>>) = 5
                                 /\ <<a, b, c, d, e>>[5] = e
  OBVIOUS
<1>4. TrainRank(cs, g) \in Seq(Int) /\ Len(TrainRank(cs, g)) = 5 /\ TrainRank(cs, g)[5] = -g
  BY <1>1, <1>2, <1>3
<1> QED
  BY <1>4, LenProperties

LEMMA ValidationRankShape ==
    ASSUME NEW r, Numbered(r)
    PROVE  ValidationRank(r) \in Seq(Int) /\ Len(ValidationRank(r)) = 5
<1> DEFINE won == IF r.count > 0 /\ r.return > 0 THEN 1 ELSE 0
<1>1. won \in Int /\ r.sharpe \in Int /\ r.return \in Int /\ -r.maxdd \in Int /\ r.count \in Int
  BY DEF Numbered
<1>2. ValidationRank(r) = <<won, r.sharpe, r.return, -r.maxdd, r.count>>
  BY DEF ValidationRank
<1>3. \A a, b, c, d, e \in Int : <<a, b, c, d, e>> \in Seq(Int) /\ Len(<<a, b, c, d, e>>) = 5
  OBVIOUS
<1> HIDE DEF won
<1> QED
  BY <1>1, <1>2, <1>3

\* The shortlist is of sets that were trained, and never empty.
LEMMA ShortlistIn ==
    ASSUME NEW cs, IsFiniteSet(DOMAIN cs), DOMAIN cs # {}, DOMAIN cs \subseteq Int,
           \A g \in DOMAIN cs : Numbered(cs[g])
    PROVE  Shortlist(cs) \subseteq DOMAIN cs /\ Shortlist(cs) # {}
<1> DEFINE able == {g \in DOMAIN cs : cs[g].kelly > 0 /\ cs[g].count >= MinTrades(cs)}
           ranked == IF able = {} THEN DOMAIN cs ELSE able
<1>1. Shortlist(cs) = {g \in ranked : Cardinality({o \in ranked : Precedes(TrainRank(cs, o), TrainRank(cs, g))})
                                        < ShortlistSize}
  BY DEF Shortlist
<1>2. ranked \subseteq DOMAIN cs /\ ranked # {}
  OBVIOUS
<1> HIDE DEF ranked
<1> DEFINE f == [g \in ranked |-> TrainRank(cs, g)]
<1>3. /\ IsFiniteSet(ranked)
      /\ \A g \in ranked : g \in Int /\ TrainRank(cs, g) \in [1 .. 5 -> Int] /\ TrainRank(cs, g)[5] = -g
  BY <1>2, FS_Subset, TrainRankShape
<1>4. \A g \in ranked : f[g] \in [1 .. 5 -> Int] /\ f[g][5] = -g
  BY <1>3
<1>5. \A g, o \in ranked : g # o => f[g] # f[o]
  <2>1. \A g, o \in Int : g # o => -g # -o
    OBVIOUS
  <2> HIDE DEF f
  <2> QED
    BY <1>3, <1>4, <2>1
<1>6. PICK b \in ranked : \A o \in ranked \ {b} : Precedes(f[b], f[o])
  <2> HIDE DEF f
  <2>1. 5 \in Nat
    OBVIOUS
  <2> QED
    BY <1>2, <1>3, <1>4, <1>5, <2>1, FirstOfAll
<1>7. ASSUME NEW o \in ranked PROVE ~Precedes(TrainRank(cs, o), TrainRank(cs, b))
  <2>1. f[o] = TrainRank(cs, o) /\ f[b] = TrainRank(cs, b)
    OBVIOUS
  <2> HIDE DEF f
  <2>2. f[o] \in [1 .. 5 -> Int] /\ f[b] \in [1 .. 5 -> Int] /\ 5 \in Nat
    BY <1>4
  <2>3. o # b => Precedes(f[b], f[o])
    BY <1>6
  <2>4. o # b => ~Precedes(f[o], f[b])
    BY <2>2, <2>3, PrecedesStrict
  <2>5. Precedes(f[b], f[b]) => ~Precedes(f[b], f[b])
    BY <2>2, PrecedesStrict
  <2> QED
    BY <2>1, <2>4, <2>5
<1>8. {o \in ranked : Precedes(TrainRank(cs, o), TrainRank(cs, b))} = {}
  BY <1>7
<1>9. b \in Shortlist(cs)
  <2>1. Cardinality({}) = 0 /\ 0 < ShortlistSize
    BY FS_EmptySet, Numbers
  <2> QED
    BY <1>1, <1>8, <2>1
<1> QED
  BY <1>1, <1>2, <1>9

\* The choice is one of the validated.
LEMMA SelectedIn ==
    ASSUME NEW cs, NEW vs, IsFiniteSet(DOMAIN vs), DOMAIN vs # {}, DOMAIN vs \subseteq Int,
           \A g \in DOMAIN vs : Numbered(vs[g]) /\ Numbered(cs[g])
    PROVE  Selected(cs, vs) \in DOMAIN vs
<1> DEFINE rank(g) == ValidationRank(vs[g]) \o TrainRank(cs, g)
           f == [g \in DOMAIN vs |-> rank(g)]
<1>1. ASSUME NEW g \in DOMAIN vs
      PROVE  rank(g) \in [1 .. 10 -> Int] /\ rank(g)[10] = -g
  <2>1. /\ ValidationRank(vs[g]) \in Seq(Int) /\ Len(ValidationRank(vs[g])) = 5
        /\ TrainRank(cs, g) \in Seq(Int) /\ Len(TrainRank(cs, g)) = 5 /\ TrainRank(cs, g)[5] = -g
    BY ValidationRankShape, TrainRankShape
  <2>2. \A u, v \in Seq(Int) : Len(u) = 5 /\ Len(v) = 5 =>
            u \o v \in Seq(Int) /\ Len(u \o v) = 10 /\ (u \o v)[10] = v[5]
    <3> SUFFICES ASSUME NEW u \in Seq(Int), NEW v \in Seq(Int), Len(u) = 5, Len(v) = 5
                 PROVE  u \o v \in Seq(Int) /\ Len(u \o v) = 10 /\ (u \o v)[10] = v[5]
      OBVIOUS
    <3>1. /\ u \o v \in Seq(Int) /\ Len(u \o v) = Len(u) + Len(v)
          /\ \A i \in 1 .. (Len(u) + Len(v)) : (u \o v)[i] = IF i <= Len(u) THEN u[i] ELSE v[i - Len(u)]
      BY ConcatProperties
    <3>2. 10 \in 1 .. (Len(u) + Len(v)) /\ ~(10 <= Len(u)) /\ 10 - Len(u) = 5 /\ Len(u) + Len(v) = 10
      OBVIOUS
    <3>3. (u \o v)[10] = v[5]
      BY <3>1, <3>2, Zenon
    <3> QED
      BY <3>1, <3>2, <3>3
  <2>3. rank(g) \in Seq(Int) /\ Len(rank(g)) = 10 /\ rank(g)[10] = -g
    BY <2>1, <2>2
  <2> QED
    BY <2>3, LenProperties
<1>2. \A g \in DOMAIN vs : f[g] = rank(g)
  OBVIOUS
<1>3. Selected(cs, vs) = CHOOSE g \in DOMAIN vs : \A o \in (DOMAIN vs) \ {g} : Precedes(rank(g), rank(o))
  BY DEF Selected
<1> HIDE DEF f, rank
<1>4. \A g, o \in DOMAIN vs : g # o => f[g] # f[o]
  <2>1. \A g, o \in Int : g # o => -g # -o
    OBVIOUS
  <2> QED
    BY <1>1, <1>2, <2>1
<1>5. \E g \in DOMAIN vs : \A o \in (DOMAIN vs) \ {g} : Precedes(f[g], f[o])
  <2>1. \A g \in DOMAIN vs : f[g] \in [1 .. 10 -> Int]
    BY <1>1, <1>2
  <2>2. 10 \in Nat
    OBVIOUS
  <2> QED
    BY <1>4, <2>1, <2>2, FirstOfAll
<1>6. \E g \in DOMAIN vs : \A o \in (DOMAIN vs) \ {g} : Precedes(rank(g), rank(o))
  BY <1>2, <1>5
<1> QED
  BY <1>3, <1>6

(**************************** the estimated cost ****************************)

\* A place in the ascending order of numbers holds one of them.
LEMMA SortedIn ==
    ASSUME NEW S, IsFiniteSet(S), NEW f, \A s \in S : f[s] \in Nat,
           NEW r \in Nat, r < Cardinality(S)
    PROVE  \E s \in S : Sorted(f, S, r) = f[s]
<1> DEFINE V == {f[s] : s \in S}
           Upto(v) == {s \in S : f[s] <= v}
           Below(v) == {s \in S : f[s] < v}
           T == {v \in V : r < Cardinality(Upto(v))}
<1>1. Cardinality(S) \in Nat
  BY FS_CardinalityType
<1>2. S # {}
  BY FS_EmptySet
<1>3. IsFiniteSet(V) /\ V # {} /\ V \subseteq Nat /\ V \subseteq Int
  <2>1. IsFiniteSet(V)
    BY ImageFinite
  <2> QED
    BY <1>2, <2>1
<1>4. \A v : /\ IsFiniteSet(Upto(v)) /\ IsFiniteSet(Below(v))
             /\ Cardinality(Upto(v)) \in Nat /\ Cardinality(Below(v)) \in Nat
  <2> SUFFICES ASSUME NEW v
               PROVE  /\ IsFiniteSet(Upto(v)) /\ IsFiniteSet(Below(v))
                      /\ Cardinality(Upto(v)) \in Nat /\ Cardinality(Below(v)) \in Nat
    OBVIOUS
  <2>1. Upto(v) \subseteq S /\ Below(v) \subseteq S
    OBVIOUS
  <2>2. IsFiniteSet(Upto(v)) /\ IsFiniteSet(Below(v))
    <3> HIDE DEF Upto, Below
    <3> QED
      BY <2>1, FS_Subset
  <2> QED
    BY <2>2, FS_CardinalityType
<1>5. T # {}
  <2> DEFINE top == Max(V)
  <2>1. top \in V /\ \A y \in V : top >= y
    <3> HIDE DEF V
    <3> QED
      BY <1>3, MaxNumber
  <2> HIDE DEF top
  <2>2. \A s \in S : f[s] <= top
    BY <1>3, <2>1
  <2>3. Upto(top) = S
    BY <2>2
  <2>4. top \in T
    <3> HIDE DEF Upto
    <3> QED
      BY <2>1, <2>3
  <2> QED
    BY <2>4
<1>6. PICK v \in T : \A u \in T : v <= u
  <2>1. T \subseteq Nat
    BY <1>3
  <2> HIDE DEF T
  <2> QED
    BY <1>5, <2>1, NatMin
<1>7. v \in V /\ v \in Nat /\ r < Cardinality(Upto(v))
  BY <1>3
<1>8. Cardinality(Below(v)) <= r
  <2> SUFFICES ASSUME ~(Cardinality(Below(v)) <= r) PROVE FALSE
    OBVIOUS
  <2>1. r < Cardinality(Below(v))
    BY <1>4
  <2> DEFINE B == {f[s] : s \in Below(v)}
             u == Max(B)
  <2>2. Below(v) # {}
    <3>1. Cardinality({}) = 0
      BY FS_EmptySet
    <3> HIDE DEF Below
    <3>2. Below(v) = {} => r < 0
      BY <2>1, <3>1
    <3> QED
      BY <3>2, SMT
  <2>3. IsFiniteSet(B) /\ B # {} /\ B \subseteq Int
    <3>1. IsFiniteSet(B)
      <4> HIDE DEF Below
      <4> QED
        BY <1>4, ImageFinite
    <3>2. PICK s : s \in Below(v)
      <4> HIDE DEF Below
      <4> QED
        BY <2>2
    <3>3. f[s] \in B
      BY <3>2
    <3>4. \A y \in B : y \in Int
      OBVIOUS
    <3> HIDE DEF B
    <3> QED
      BY <3>1, <3>3, <3>4
  <2>4. u \in B /\ \A y \in B : u >= y
    <3> HIDE DEF B
    <3> QED
      BY <2>3, MaxNumber
  <2> HIDE DEF u
  <2>5. u \in V /\ u < v
    BY <2>4
  <2>6. Below(v) \subseteq Upto(u)
    <3> SUFFICES ASSUME NEW s \in Below(v) PROVE s \in Upto(u)
      OBVIOUS
    <3>1. f[s] \in B /\ f[s] \in Nat /\ s \in S
      OBVIOUS
    <3>2. u >= f[s] /\ u \in Int
      BY <2>3, <2>4, <3>1
    <3> QED
      BY <3>1, <3>2
  <2>7. Cardinality(Below(v)) <= Cardinality(Upto(u))
    <3> HIDE DEF Below, Upto
    <3> QED
      BY <1>4, <2>6, FS_Subset
  <2>8. u \in T
    <3>1. Cardinality(Below(v)) \in Nat /\ Cardinality(Upto(u)) \in Nat
      BY <1>4
    <3>2. r < Cardinality(Upto(u))
      <4> HIDE DEF Below, Upto
      <4> QED
        BY <2>1, <2>7, <3>1
    <3> HIDE DEF Upto
    <3> QED
      BY <2>5, <3>2
  <2>9. v <= u /\ u \in Nat
    <3>1. v <= u
      <4> HIDE DEF T
      <4> QED
        BY <1>6, <2>8
    <3> QED
      BY <1>3, <2>5, <3>1
  <2> QED
    BY <1>7, <2>5, <2>9
<1>9. Sorted(f, S, r) \in V
  <2>1. Sorted(f, S, r) = CHOOSE w \in V : Cardinality(Below(w)) <= r /\ r < Cardinality(Upto(w))
    BY DEF Sorted
  <2> HIDE DEF V, Below, Upto
  <2> QED
    BY <1>7, <1>8, <2>1
<1> QED
  BY <1>9

\* The estimated cost of a side is a small number, whatever was traded.
LEMMA CostNumber ==
    ASSUME NEW n \in Nat, NEW h, Sane(h, n)
    PROVE  EstimateCost(h, n) \in Costs
<1> DEFINE traded == {i \in 0 .. (n - 1) : h[i].close > 0 /\ h[i].volume > 0}
           last == {i \in traded : Cardinality({j \in traded : j > i}) < CostWindow}
           f == [i \in last |-> h[i].close * h[i].volume]
           adv == MedianOf(f, last)
           impact == IF last = {} THEN MaxOf(0, 35 - FeeAndSpread)
                     ELSE MinOf(60, SquareRoot(MinOf(3600, (6400 * OrderNotional) \div adv)))
<1>1. EstimateCost(h, n) = MinOf(100, MaxOf(5, FeeAndSpread + impact)) \div 10
  BY DEF EstimateCost
<1>2. FeeAndSpread \in Nat /\ OrderNotional \in Nat
  BY Settings
<1>3. IsFiniteSet(last) /\ \A i \in last : f[i] \in Nat \ {0}
  <2>1. last \subseteq 0 .. (n - 1) /\ IsFiniteSet(0 .. (n - 1))
    BY FS_Interval
  <2>2. \A i \in last : h[i].close \in Nat \ {0} /\ h[i].volume \in Nat \ {0}
    BY DEF Sane, SanePrices
  <2>3. \A i \in last : f[i] = h[i].close * h[i].volume
    OBVIOUS
  <2> HIDE DEF last, f
  <2>4. IsFiniteSet(last)
    BY <2>1, FS_Subset
  <2>5. \A i \in last : f[i] \in Nat \ {0}
    <3> SUFFICES ASSUME NEW i \in last PROVE f[i] \in Nat \ {0}
      OBVIOUS
    <3>1. h[i].close * h[i].volume \in Nat \ {0}
      BY <2>2, TimesNat
    <3> QED
      BY <2>3, <3>1
  <2> QED
    BY <2>4, <2>5
<1> HIDE DEF f, last
<1>4. impact \in Nat
  <2>1. CASE last = {}
    BY <1>2, <2>1 DEF MaxOf
  <2>2. CASE last # {}
    <3> DEFINE m == Cardinality(last)
    <3>1. m \in Nat \ {0}
      BY <1>3, <2>2, FS_CardinalityType, FS_EmptySet
    <3>2. (m - 1) \div 2 \in Nat /\ (m - 1) \div 2 < m /\ m \div 2 \in Nat /\ m \div 2 < m
      <4> HIDE DEF m
      <4> QED
        BY <3>1, SMT
    <3>3. adv = (Sorted(f, last, (m - 1) \div 2) + Sorted(f, last, m \div 2)) \div 2
      BY DEF MedianOf
    <3>4. Sorted(f, last, (m - 1) \div 2) \in Nat \ {0} /\ Sorted(f, last, m \div 2) \in Nat \ {0}
      <4>1. \E s \in last : Sorted(f, last, (m - 1) \div 2) = f[s]
        BY <1>3, <3>2, SortedIn
      <4>2. \E s \in last : Sorted(f, last, m \div 2) = f[s]
        BY <1>3, <3>2, SortedIn
      <4> QED
        BY <1>3, <4>1, <4>2
    <3> HIDE DEF m, adv
    <3>5. adv \in Nat \ {0}
      <4>1. \A a, b \in Nat \ {0} : (a + b) \div 2 \in Nat \ {0}
        BY SMT
      <4> QED
        BY <3>3, <3>4, <4>1
    <3>6. (6400 * OrderNotional) \div adv \in Nat
      BY <1>2, <3>5, DivNat
    <3>7. MinOf(3600, (6400 * OrderNotional) \div adv) \in Nat
      BY <3>6 DEF MinOf
    <3>8. SquareRoot(MinOf(3600, (6400 * OrderNotional) \div adv)) \in Nat
      BY <3>7, RootNat
    <3> QED
      BY <2>2, <3>8 DEF MinOf
  <2> QED
    BY <2>1, <2>2
<1> HIDE DEF impact
<1> DEFINE total == MinOf(100, MaxOf(5, FeeAndSpread + impact))
<1>5. total \in 5 .. 100
  BY <1>2, <1>4 DEF MinOf, MaxOf
<1> HIDE DEF total
<1>6. total \div 10 \in 0 .. 1000
  BY <1>5, SMT
<1> QED
  BY <1>1, <1>6 DEF Costs, total

(******************** the folds as functions of the bars ********************)

\* The choices and windows of fold k, from the development part h of n bars and
\* the cost of a side alone.
MadeCandidates(h, c, n, k) == Candidates(h, Prepare(h, Periods), c, n, k)
MadeValidations(h, c, n, k) == Validations(h, Prepare(h, Periods), c, n, k, MadeCandidates(h, c, n, k))
MadeFold(h, c, n, k) ==
    Fold(h, Prepare(h, Periods), c, n, k, MadeCandidates(h, c, n, k), MadeValidations(h, c, n, k))

\* A development part long enough for folds, and the number of one.
Foldable(h, n, k) == n \in Nat /\ n \div 2 > 1 /\ k \in 1 .. 4 /\ Sane(h, n)

SaneParams(p) == p.entry_mode \in EntryModes /\ p.ma_period \in Nat \ {0} /\ p.atr_multiple \in Nat

\* The grid is a finite, nonempty sequence of sane parameters, whose averages are prepared.
LEMMA GridSane ==
    /\ DOMAIN Grid = 1 .. Len(Grid) /\ Len(Grid) \in Nat \ {0}
    /\ IsFiniteSet(DOMAIN Grid) /\ DOMAIN Grid # {} /\ DOMAIN Grid \subseteq Int
    /\ \A g \in DOMAIN Grid : SaneParams(Grid[g]) /\ Grid[g].ma_period \in Periods
                              /\ "adx" \in DOMAIN Grid[g] /\ "atr_multiple" \in DOMAIN Grid[g]
    /\ SaneParams(DefaultParams)
<1>1. Grid \in Seq(Range(Grid)) /\ Grid # <<>>
  BY ParamsAreSane
<1>2. DOMAIN Grid = 1 .. Len(Grid) /\ Len(Grid) \in Nat \ {0}
  BY <1>1, LenProperties, EmptySeq
<1>3. IsFiniteSet(1 .. Len(Grid)) /\ 1 .. Len(Grid) # {} /\ 1 .. Len(Grid) \subseteq Int
  <2>1. IsFiniteSet(1 .. Len(Grid))
    BY <1>2, FS_Interval
  <2>2. 1 \in 1 .. Len(Grid)
    BY <1>2
  <2> QED
    BY <2>1, <2>2
<1>4. \A g \in DOMAIN Grid : Grid[g] \in Range(Grid)
  BY DEF Range
<1>5. \A p \in Range(Grid) \cup {DefaultParams} : SaneParams(p) /\ "adx" \in DOMAIN p /\ "atr_multiple" \in DOMAIN p
  BY ParamsAreSane DEF SaneParams, EntryModes
<1>6. \A g \in DOMAIN Grid : Grid[g].ma_period \in Periods
  BY DEF Periods
<1> QED
  BY <1>2, <1>3, <1>4, <1>5, <1>6

\* The first bars of a history of sane prices.
LEMMA SliceSane ==
    ASSUME NEW N \in Nat, NEW h, Sane(h, N), NEW n \in Nat, n <= N
    PROVE  Sane(Slice(h, n), n) /\ \A i \in 0 .. (n - 1) : Slice(h, n)[i] = h[i]
BY DEF Slice, Sane

\* What is precomputed from sane prices can be read.
LEMMA PreparedReadable ==
    ASSUME NEW n \in Nat, NEW h, Sane(h, n), NEW S
    PROVE  Readable(h, Prepare(h, S), n)
<1>1. Prepare(h, S).atr = Atr(h)
  BY DEF Prepare
<1> QED
  BY <1>1, AtrNumber DEF Readable

\* The windows of a fold lie within the development part.
LEMMA WindowNumbers ==
    ASSUME NEW n, NEW h, NEW k, Foldable(h, n, k)
    PROVE  /\ InnerStart(n, k) \in Nat /\ TrainEnd(n, k) \in Nat /\ TestEnd(n, k) \in Nat
           /\ InnerStart(n, k) <= TrainEnd(n, k) /\ TrainEnd(n, k) <= TestEnd(n, k) /\ TestEnd(n, k) <= n
           /\ InnerStart(n, k) <= n /\ TrainEnd(n, k) <= n
<1>1. n \in Nat /\ n \div 2 > 1 /\ k \in 1 .. 4 /\ MinValidation \in Nat
  BY Numbers DEF Foldable
<1>2. /\ InnerStart(n, k) > 0 /\ InnerStart(n, k) <= TrainEnd(n, k)
      /\ TrainEnd(n, k) <= TestEnd(n, k) /\ TestEnd(n, k) <= n
  BY <1>1, WindowsApart
<1>3. TrainEnd(n, k) \in Int
  <2>1. (3 + k) * n \in Int
    BY <1>1, TimesInt
  <2> QED
    BY <2>1, DivInt DEF TrainEnd
<1>4. TestEnd(n, k) \in Int /\ InnerStart(n, k) \in Int
  <2>1. n \div 8 \in Int /\ TrainEnd(n, k) \div 2 \in Int /\ TrainEnd(n, k) \div 5 \in Int
    BY <1>1, <1>3, DivInt
  <2> QED
    BY <1>1, <1>3, <2>1 DEF TestEnd, InnerStart, MinOf, MaxOf
<1> QED
  BY <1>1, <1>2, <1>3, <1>4

\* A backtest has numbers to rank it by.
LEMMA ReportedNumbers ==
    ASSUME NEW h, NEW c, NEW r, NEW first, NEW end, Reported(h, c, r, first, end)
    PROVE  Numbered(r)
BY DEF Reported, Numbered

\* Every candidate of the inner training is a backtest.
LEMMA CandidatesReported ==
    ASSUME NEW n, NEW h, NEW k, Foldable(h, n, k), NEW c \in Costs
    PROVE  /\ DOMAIN MadeCandidates(h, c, n, k) = DOMAIN Grid
           /\ \A g \in DOMAIN Grid : Numbered(MadeCandidates(h, c, n, k)[g])
<1> DEFINE x == Prepare(h, Periods)
<1>1. n \in Nat /\ Readable(h, x, n)
  BY PreparedReadable DEF Foldable
<1> HIDE DEF x
<1>2. MadeCandidates(h, c, n, k) = [g \in DOMAIN Grid |-> Run(h, x, Grid[g], c, 0, InnerStart(n, k))]
  BY DEF MadeCandidates, Candidates, x
<1>3. ASSUME NEW g \in DOMAIN Grid PROVE Numbered(Run(h, x, Grid[g], c, 0, InnerStart(n, k)))
  <2>1. Grid[g].atr_multiple \in Nat
    BY GridSane DEF SaneParams
  <2>2. InnerStart(n, k) \in Nat /\ InnerStart(n, k) <= n
    BY WindowNumbers
  <2>3. Reported(h, c, Run(h, x, Grid[g], c, 0, InnerStart(n, k)), MaxOf(1, 0), InnerStart(n, k))
    BY <1>1, <2>1, <2>2, RunReported
  <2> QED
    BY <2>3, ReportedNumbers
<1> QED
  BY <1>2, <1>3

\* Some of the grid are validated, every one by a backtest.
LEMMA ValidationsReported ==
    ASSUME NEW n, NEW h, NEW k, Foldable(h, n, k), NEW c \in Costs,
           NEW vs, vs = MadeValidations(h, c, n, k)
    PROVE  /\ DOMAIN vs \subseteq DOMAIN Grid /\ DOMAIN vs # {}
           /\ \A g \in DOMAIN vs :
                 Reported(h, c, vs[g], MaxOf(1, InnerStart(n, k)), TrainEnd(n, k))
<1> DEFINE x == Prepare(h, Periods)
           cs == MadeCandidates(h, c, n, k)
<1>1. n \in Nat /\ Readable(h, x, n)
  BY PreparedReadable DEF Foldable
<1>2. vs = [g \in Shortlist(cs) |-> Run(h, x, Grid[g], c, InnerStart(n, k), TrainEnd(n, k))]
  BY DEF MadeValidations, Validations
<1>3. DOMAIN cs = DOMAIN Grid /\ \A g \in DOMAIN Grid : Numbered(cs[g])
  BY CandidatesReported
<1> HIDE DEF x, cs
<1>4. Shortlist(cs) \subseteq DOMAIN Grid /\ Shortlist(cs) # {}
  BY <1>3, GridSane, ShortlistIn
<1>5. ASSUME NEW g \in Shortlist(cs)
      PROVE  Reported(h, c, Run(h, x, Grid[g], c, InnerStart(n, k), TrainEnd(n, k)),
                      MaxOf(1, InnerStart(n, k)), TrainEnd(n, k))
  <2>1. Grid[g].atr_multiple \in Nat
    BY <1>4, GridSane DEF SaneParams
  <2>2. InnerStart(n, k) \in Nat /\ TrainEnd(n, k) \in Nat /\ TrainEnd(n, k) <= n
    BY WindowNumbers
  <2> QED
    BY <1>1, <2>1, <2>2, RunReported
<1> QED
  BY <1>2, <1>4, <1>5

\* The choice of a fold is one of the grid, and one of the validated.
LEMMA ChoiceInGrid ==
    ASSUME NEW n, NEW h, NEW k, Foldable(h, n, k), NEW c \in Costs,
           NEW cs, cs = MadeCandidates(h, c, n, k), NEW vs, vs = MadeValidations(h, c, n, k)
    PROVE  Selected(cs, vs) \in DOMAIN Grid /\ Selected(cs, vs) \in DOMAIN vs
<1>1. DOMAIN vs \subseteq DOMAIN Grid /\ DOMAIN vs # {}
  BY ValidationsReported
<1>2. \A g \in DOMAIN vs : Numbered(vs[g])
  BY ValidationsReported, ReportedNumbers
<1>3. \A g \in DOMAIN vs : Numbered(cs[g])
  BY <1>1, CandidatesReported
<1>4. IsFiniteSet(DOMAIN vs) /\ DOMAIN vs \subseteq Int
  <2>1. IsFiniteSet(DOMAIN Grid) /\ DOMAIN Grid \subseteq Int
    BY GridSane
  <2> QED
    BY <1>1, <2>1, FS_Subset
<1>5. Selected(cs, vs) \in DOMAIN vs
  BY <1>1, <1>2, <1>3, <1>4, SelectedIn
<1> QED
  BY <1>1, <1>5

\* The parts of a fold.
LEMMA FoldParts ==
    ASSUME NEW h, NEW c, NEW n, NEW k, NEW x, x = Prepare(h, Periods),
           NEW cs, cs = MadeCandidates(h, c, n, k), NEW vs, vs = MadeValidations(h, c, n, k),
           NEW p, p = Grid[Selected(cs, vs)], NEW f, f = MadeFold(h, c, n, k)
    PROVE  /\ f.params = p /\ f.inner = vs[Selected(cs, vs)]
           /\ f.train = Run(h, x, p, c, 0, TrainEnd(n, k))
           /\ f.oos = Run(h, x, p, c, TrainEnd(n, k), TestEnd(n, k))
           /\ f.nocost = Run(h, x, p, 0, TrainEnd(n, k), TestEnd(n, k))
           /\ f = [windows |-> Windows(n, k), params |-> f.params, inner |-> f.inner, train |-> f.train,
                   oos |-> f.oos, nocost |-> f.nocost,
                   passed |-> FoldPasses(f.oos, f.nocost,
                                         IF LowFrequency(f.params, f.train, n, k) THEN 1 ELSE MinOosTrades)]
<1>1. f = Fold(h, x, c, n, k, cs, vs)
  BY DEF MadeFold
<1>2. Windows(n, k).train_end = TrainEnd(n, k) /\ Windows(n, k).test_start = TrainEnd(n, k)
      /\ Windows(n, k).test_end = TestEnd(n, k)
  BY WindowParts
<1> DEFINE w == Windows(n, k)
           chosen == Selected(cs, vs)
           inner == vs[chosen]
           train == Run(h, x, p, c, 0, w.train_end)
           oos == Run(h, x, p, c, w.test_start, w.test_end)
           nocost == Run(h, x, p, 0, w.test_start, w.test_end)
           passed == FoldPasses(oos, nocost, IF LowFrequency(p, train, n, k) THEN 1 ELSE MinOosTrades)
<1>3. f = [windows |-> w, params |-> p, inner |-> inner, train |-> train, oos |-> oos,
           nocost |-> nocost, passed |-> passed]
  BY <1>1 DEF Fold
<1>4. /\ train = Run(h, x, p, c, 0, TrainEnd(n, k))
      /\ oos = Run(h, x, p, c, TrainEnd(n, k), TestEnd(n, k))
      /\ nocost = Run(h, x, p, 0, TrainEnd(n, k), TestEnd(n, k))
  BY <1>2
<1>5. passed = FoldPasses(oos, nocost, IF LowFrequency(p, train, n, k) THEN 1 ELSE MinOosTrades)
  OBVIOUS
<1> HIDE DEF w, chosen, inner, train, oos, nocost, passed
<1>6. /\ f.params = p /\ f.inner = inner /\ f.train = train /\ f.oos = oos /\ f.nocost = nocost
      /\ f.passed = passed /\ f.windows = w
  BY <1>3
<1> QED
  BY <1>3, <1>4, <1>5, <1>6 DEF w, chosen, inner

\* Everything a fold reports is a backtest of it.
FoldReported(h, c, f, n) ==
    /\ \A r \in {f.inner, f.train, f.oos} : \E first \in Nat, end \in Nat :
           end <= n /\ Reported(h, c, r, first, end)
    /\ \E first \in Nat, end \in Nat : end <= n /\ Reported(h, 0, f.nocost, first, end)

\* Every result of a fold is a backtest, and its choice one of the grid.
LEMMA FoldIsReported ==
    ASSUME NEW n, NEW h, NEW k, Foldable(h, n, k), NEW c \in Costs, NEW f, f = MadeFold(h, c, n, k)
    PROVE  /\ FoldReported(h, c, f, n)
           /\ \E g \in DOMAIN Grid : f.params = Grid[g]
<1> DEFINE x == Prepare(h, Periods)
           cs == MadeCandidates(h, c, n, k)
           vs == MadeValidations(h, c, n, k)
           g == Selected(cs, vs)
           p == Grid[g]
<1>1. n \in Nat /\ Readable(h, x, n) /\ 0 \in Costs
  BY PreparedReadable DEF Foldable, Costs
<1>2. /\ f.params = p /\ f.inner = vs[g]
      /\ f.train = Run(h, x, p, c, 0, TrainEnd(n, k))
      /\ f.oos = Run(h, x, p, c, TrainEnd(n, k), TestEnd(n, k))
      /\ f.nocost = Run(h, x, p, 0, TrainEnd(n, k), TestEnd(n, k))
  BY FoldParts
<1>3. g \in DOMAIN Grid /\ g \in DOMAIN vs
  BY ChoiceInGrid
<1>4. Reported(h, c, vs[g], MaxOf(1, InnerStart(n, k)), TrainEnd(n, k))
  <2>1. \A j \in DOMAIN vs : Reported(h, c, vs[j], MaxOf(1, InnerStart(n, k)), TrainEnd(n, k))
    BY ValidationsReported
  <2> QED
    BY <1>3, <2>1
<1> HIDE DEF x, cs, vs, g
<1>5. p.atr_multiple \in Nat
  BY <1>3, GridSane DEF SaneParams
<1> HIDE DEF p
<1>6. /\ InnerStart(n, k) \in Nat /\ TrainEnd(n, k) \in Nat /\ TestEnd(n, k) \in Nat
      /\ TrainEnd(n, k) <= n /\ TestEnd(n, k) <= n
  BY WindowNumbers
<1>7. Reported(h, c, f.train, MaxOf(1, 0), TrainEnd(n, k))
  BY <1>1, <1>2, <1>5, <1>6, RunReported
<1>8. Reported(h, c, f.oos, MaxOf(1, TrainEnd(n, k)), TestEnd(n, k))
  BY <1>1, <1>2, <1>5, <1>6, RunReported
<1>9. Reported(h, 0, f.nocost, MaxOf(1, TrainEnd(n, k)), TestEnd(n, k))
  BY <1>1, <1>2, <1>5, <1>6, RunReported
<1>10. MaxOf(1, 0) \in Nat /\ MaxOf(1, TrainEnd(n, k)) \in Nat /\ MaxOf(1, InnerStart(n, k)) \in Nat
  BY <1>6 DEF MaxOf
<1>11. FoldReported(h, c, f, n)
  BY <1>2, <1>4, <1>6, <1>7, <1>8, <1>9, <1>10 DEF FoldReported
<1> QED
  BY <1>2, <1>3, <1>11 DEF p

\* A backtest of two development parts that are the same below its end.
LEMMA RunsAlike ==
    ASSUME NEW n \in Nat, NEW h, NEW g, Sane(h, n), Sane(g, n), NEW m \in Nat, m <= n,
           SameUpTo(h, g, m), NEW i \in DOMAIN Grid, NEW c \in Costs,
           NEW start \in Nat, NEW end \in Nat, end <= m
    PROVE  Run(h, Prepare(h, Periods), Grid[i], c, start, end)
             = Run(g, Prepare(g, Periods), Grid[i], c, start, end)
<1> DEFINE p == Grid[i]
           x == Prepare(h, Periods)
           y == Prepare(g, Periods)
<1>1. SaneParams(p) /\ p.ma_period \in Periods
  BY GridSane
<1>2. p.ma_period \in Nat \ {0} /\ p.entry_mode \in EntryModes /\ p.atr_multiple \in Nat
  BY <1>1 DEF SaneParams
<1>3. Readable(h, x, n) /\ Readable(g, y, n)
  BY PreparedReadable
<1>4. DOMAIN h = 0 .. (n - 1) /\ DOMAIN g = 0 .. (n - 1)
  BY DEF Sane
<1>5. Alike(h, x, g, y, p.ma_period, m)
  BY <1>1, <1>2, <1>4, PreparedAlike
<1> HIDE DEF p, x, y
<1>6. Engine(h, x, p, c, start, end) = Engine(g, y, p, c, start, end)
  BY <1>2, <1>3, <1>5, EngineAlike
<1> QED
  BY <1>6 DEF Run, p, x, y

\* The inner training looks at no bar after it.
LEMMA CandidatesAlike ==
    ASSUME NEW n, NEW h, NEW g, NEW k, Foldable(h, n, k), Foldable(g, n, k), NEW c \in Costs,
           NEW m \in Nat, m <= n, SameUpTo(h, g, m), InnerStart(n, k) <= m
    PROVE  MadeCandidates(h, c, n, k) = MadeCandidates(g, c, n, k)
<1>1. n \in Nat /\ Sane(h, n) /\ Sane(g, n) /\ InnerStart(n, k) \in Nat
  BY WindowNumbers DEF Foldable
<1>2. \A i \in DOMAIN Grid : Run(h, Prepare(h, Periods), Grid[i], c, 0, InnerStart(n, k))
                               = Run(g, Prepare(g, Periods), Grid[i], c, 0, InnerStart(n, k))
  BY <1>1, RunsAlike
<1> QED
  BY <1>2 DEF MadeCandidates, Candidates

\* Nor does the inner validation.
LEMMA ValidationsAlike ==
    ASSUME NEW n, NEW h, NEW g, NEW k, Foldable(h, n, k), Foldable(g, n, k), NEW c \in Costs,
           NEW m \in Nat, m <= n, SameUpTo(h, g, m), TrainEnd(n, k) <= m
    PROVE  MadeValidations(h, c, n, k) = MadeValidations(g, c, n, k)
<1>1. n \in Nat /\ Sane(h, n) /\ Sane(g, n)
  BY DEF Foldable
<1>2. InnerStart(n, k) \in Nat /\ TrainEnd(n, k) \in Nat /\ InnerStart(n, k) <= TrainEnd(n, k)
  BY WindowNumbers
<1>3. InnerStart(n, k) <= m
  BY <1>2
<1>4. MadeCandidates(h, c, n, k) = MadeCandidates(g, c, n, k)
  BY <1>3, CandidatesAlike
<1> DEFINE cs == MadeCandidates(h, c, n, k)
<1>5. DOMAIN cs = DOMAIN Grid /\ \A i \in DOMAIN Grid : Numbered(cs[i])
  BY CandidatesReported
<1>6. Shortlist(cs) \subseteq DOMAIN Grid
  <2> HIDE DEF cs
  <2> QED
    BY <1>5, GridSane, ShortlistIn
<1>7. \A i \in Shortlist(cs) :
          Run(h, Prepare(h, Periods), Grid[i], c, InnerStart(n, k), TrainEnd(n, k))
            = Run(g, Prepare(g, Periods), Grid[i], c, InnerStart(n, k), TrainEnd(n, k))
  <2> HIDE DEF cs
  <2> QED
    BY <1>1, <1>2, <1>6, RunsAlike
<1> QED
  BY <1>4, <1>7 DEF MadeValidations, Validations

\* A fold's choice depends on the bars before its test, a fold on the bars up to
\* the end of its test.
LEMMA FoldsAlike ==
    ASSUME NEW n, NEW h, NEW g, NEW k, Foldable(h, n, k), Foldable(g, n, k), NEW c \in Costs,
           NEW m \in Nat, m <= n, SameUpTo(h, g, m), TrainEnd(n, k) <= m,
           NEW a, a = MadeFold(h, c, n, k), NEW b, b = MadeFold(g, c, n, k)
    PROVE  /\ a.params = b.params /\ a.inner = b.inner /\ a.train = b.train
           /\ TestEnd(n, k) <= m => a = b
<1> DEFINE x == Prepare(h, Periods)
           y == Prepare(g, Periods)
           cs == MadeCandidates(h, c, n, k)
           vs == MadeValidations(h, c, n, k)
           i == Selected(cs, vs)
           p == Grid[i]
<1>1. n \in Nat /\ Sane(h, n) /\ Sane(g, n) /\ 0 \in Costs
  BY DEF Foldable, Costs
<1>2. /\ InnerStart(n, k) \in Nat /\ TrainEnd(n, k) \in Nat /\ TestEnd(n, k) \in Nat
      /\ InnerStart(n, k) <= TrainEnd(n, k)
  BY WindowNumbers
<1>3. InnerStart(n, k) <= m
  BY <1>2
<1>4. cs = MadeCandidates(g, c, n, k)
  BY <1>3, CandidatesAlike
<1>5. vs = MadeValidations(g, c, n, k)
  BY ValidationsAlike
<1>6. i \in DOMAIN Grid
  BY ChoiceInGrid
<1>7. /\ a.params = p /\ a.inner = vs[i]
      /\ a.train = Run(h, x, p, c, 0, TrainEnd(n, k))
      /\ a.oos = Run(h, x, p, c, TrainEnd(n, k), TestEnd(n, k))
      /\ a.nocost = Run(h, x, p, 0, TrainEnd(n, k), TestEnd(n, k))
      /\ a = [windows |-> Windows(n, k), params |-> a.params, inner |-> a.inner, train |-> a.train,
              oos |-> a.oos, nocost |-> a.nocost,
              passed |-> FoldPasses(a.oos, a.nocost,
                                    IF LowFrequency(a.params, a.train, n, k) THEN 1 ELSE MinOosTrades)]
  BY FoldParts
<1>8. /\ b.params = p /\ b.inner = vs[i]
      /\ b.train = Run(g, y, p, c, 0, TrainEnd(n, k))
      /\ b.oos = Run(g, y, p, c, TrainEnd(n, k), TestEnd(n, k))
      /\ b.nocost = Run(g, y, p, 0, TrainEnd(n, k), TestEnd(n, k))
      /\ b = [windows |-> Windows(n, k), params |-> b.params, inner |-> b.inner, train |-> b.train,
              oos |-> b.oos, nocost |-> b.nocost,
              passed |-> FoldPasses(b.oos, b.nocost,
                                    IF LowFrequency(b.params, b.train, n, k) THEN 1 ELSE MinOosTrades)]
  BY <1>4, <1>5, FoldParts
<1>9. Run(h, x, p, c, 0, TrainEnd(n, k)) = Run(g, y, p, c, 0, TrainEnd(n, k))
  <2> HIDE DEF cs, vs, i
  <2> QED
    BY <1>1, <1>2, <1>6, RunsAlike
<1>10. ASSUME TestEnd(n, k) <= m
       PROVE  /\ Run(h, x, p, c, TrainEnd(n, k), TestEnd(n, k)) = Run(g, y, p, c, TrainEnd(n, k), TestEnd(n, k))
              /\ Run(h, x, p, 0, TrainEnd(n, k), TestEnd(n, k)) = Run(g, y, p, 0, TrainEnd(n, k), TestEnd(n, k))
  <2> HIDE DEF cs, vs, i
  <2> QED
    BY <1>1, <1>2, <1>6, <1>10, RunsAlike
<1> HIDE DEF p, cs, vs, i, x, y
<1>11. a.params = b.params /\ a.inner = b.inner /\ a.train = b.train
  BY <1>7, <1>8, <1>9
<1>12. ASSUME TestEnd(n, k) <= m PROVE a = b
  <2>1. a.oos = b.oos /\ a.nocost = b.nocost
    BY <1>7, <1>8, <1>10, <1>12
  <2> QED
    BY <1>7, <1>8, <1>11, <2>1
<1> QED
  BY <1>11, <1>12

(************************ what a state has computed *************************)

\* The histories are of sane prices, and what is charged for a side is a cost.
HistoriesSane == \A s \in Sides : Sane(hist[s], Bars(hist["run"])) /\ cost[s] \in Costs

\* Every fold is what the development part, the cost and its number make.
FoldsMade ==
    \A s \in Sides : \A k \in DOMAIN folds[s] :
        folds[s][k] = MadeFold(Development(s), cost[s], dev, k)

\* So is what a fold at hand has computed already.
FoldAtHand ==
    \A s \in Sides :
        /\ stage \in Folding => prep[s] = Prepare(Development(s), Periods)
        /\ stage \in {"validate", "test"} => cands[s] = MadeCandidates(Development(s), cost[s], dev, FoldNo)
        /\ stage = "test" => valid[s] = MadeValidations(Development(s), cost[s], dev, FoldNo)

\* The holdout is measured with the indicators of the whole history.
HoldoutReported ==
    \A s \in Sides :
        /\ stage = "measure" => \E S : prep[s] = Prepare(hist[s], S)
        /\ stage \in {"holdout", "measure"} => result[s].params.atr_multiple \in Nat
        /\ stage = "done" => \A j \in DOMAIN result[s].holdout : \E first \in Nat :
               Reported(hist[s], cost[s], result[s].holdout[j], first, Bars(hist["run"]))

MadeInv == WindowInv /\ Waiting /\ HistoriesSane /\ FoldsMade /\ FoldAtHand /\ HoldoutReported

\* It holds before anything is computed.
LEMMA MadeInit == Init => MadeInv
<1> SUFFICES ASSUME Init PROVE MadeInv
  OBVIOUS
<1>1. WindowInv
  BY WindowInit
<1>2. PICK pair \in Pairs : hist = [s \in Sides |-> pair[s]] /\ cut = pair.cut
  BY DEF Init
<1>3. HistoriesSane
  <2>1. ASSUME NEW s \in Sides PROVE Sane(hist[s], Bars(hist["run"]))
    <3>1. DOMAIN hist[s] = 0 .. (Bars(hist["run"]) - 1)
      BY <1>1 DEF WindowInv, PairKept
    <3>2. hist[s] \in {pair.run, pair.twin}
      BY <1>2 DEF Sides
    <3>3. \A i \in DOMAIN hist[s] : SanePrices(hist[s][i])
      BY <3>2, PricesArePositive DEF SanePrices
    <3> QED
      BY <3>1, <3>3 DEF Sane
  <2>2. \A s \in Sides : cost[s] \in Costs
    BY DEF Init, Costs
  <2> QED
    BY <2>1, <2>2 DEF HistoriesSane
<1>4. FoldsMade
  <2>1. \A s \in Sides : DOMAIN folds[s] = {}
    BY DEF Init
  <2> QED
    BY <2>1 DEF FoldsMade
<1>5. FoldAtHand /\ HoldoutReported /\ Waiting
  BY DEF Init, FoldAtHand, HoldoutReported, Waiting, Folding
<1> QED
  BY <1>1, <1>3, <1>4, <1>5 DEF MadeInv

\* What divides the history.
LEMMA DivideLength ==
    ASSUME PairKept, Divide
    PROVE  dev' = Length /\ Length \in Nat /\ Length <= Bars(hist["run"]) /\ hist' = hist
<1>1. dev' = Length /\ hist' = hist
  BY DEF Divide
<1>2. PairKept'
  BY PairStep DEF Next
<1> QED
  BY <1>1, <1>2 DEF PairKept

\* What the other steps leave alone.
LEMMA OthersKeep ==
    ASSUME [Next]_vars, ~Divide
    PROVE  /\ hist' = hist /\ cost' = cost /\ dev' = dev
           /\ \A s : Development(s)' = Development(s)
           /\ ~TestChoice => folds' = folds
<1>1. hist' = hist /\ cost' = cost /\ dev' = dev
  BY DEF Next, vars, TooShort, TrainGrid, Validate, TestChoice, ReplayNeighbours, Decide, Open, Measure
<1>2. ~TestChoice => folds' = folds
  BY DEF Next, vars, TooShort, TrainGrid, Validate, ReplayNeighbours, Decide, Open, Measure
<1> QED
  BY <1>1, <1>2 DEF Development, Slice

\* The estimated cost is one, and the histories stay.
LEMMA HistoriesStep == MadeInv /\ [Next]_vars => HistoriesSane'
<1> SUFFICES ASSUME MadeInv, [Next]_vars PROVE HistoriesSane'
  OBVIOUS
<1> DEFINE N == Bars(hist["run"])
<1>1. PairKept /\ N \in Nat /\ \A s \in Sides : Sane(hist[s], N) /\ cost[s] \in Costs
  BY DEF MadeInv, WindowInv, PairKept, HistoriesSane
<1>2. CASE Divide
  <2>1. Length \in Nat /\ Length <= N /\ hist' = hist
    BY <1>1, <1>2, DivideLength
  <2>2. \A s \in Sides : cost'[s] = EstimateCost(Slice(hist[s], Length), Length)
    BY <1>2 DEF Divide
  <2>3. ASSUME NEW s \in Sides PROVE cost'[s] \in Costs
    <3>1. Sane(Slice(hist[s], Length), Length)
      <4> HIDE DEF N
      <4> QED
        BY <1>1, <2>1, SliceSane
    <3>2. EstimateCost(Slice(hist[s], Length), Length) \in Costs
      BY <2>1, <3>1, CostNumber
    <3> QED
      BY <2>2, <3>2
  <2> QED
    BY <1>1, <2>1, <2>3 DEF HistoriesSane
<1>3. CASE ~Divide
  <2>1. hist' = hist /\ cost' = cost
    BY <1>3, OthersKeep
  <2> QED
    BY <1>1, <2>1 DEF HistoriesSane
<1> QED
  BY <1>2, <1>3

\* A fold is appended as the functions make it.
LEMMA FoldsMadeStep == MadeInv /\ [Next]_vars => FoldsMade'
<1> SUFFICES ASSUME MadeInv, [Next]_vars PROVE FoldsMade'
  OBVIOUS
<1>1. FoldsMade /\ FoldAtHand /\ WindowInv
  BY DEF MadeInv
<1>2. CASE Divide
  <2>1. stage = "load" /\ folds' = folds
    BY <1>2 DEF Divide
  <2>2. \A s \in Sides : DOMAIN folds[s] = {}
    BY <1>1, <2>1 DEF WindowInv, FoldsInOrder, Sides
  <2> QED
    BY <2>1, <2>2 DEF FoldsMade
<1>3. CASE TestChoice
  <2>1. stage = "test" /\ ~Divide
    BY <1>3 DEF TestChoice, Divide
  <2>2. cost' = cost /\ dev' = dev /\ \A s : Development(s)' = Development(s)
    BY <2>1, OthersKeep
  <2> DEFINE new(s) == Fold(Development(s), prep[s], cost[s], dev, FoldNo, cands[s], valid[s])
  <2>3. folds' = [s \in Sides |-> Append(folds[s], new(s))]
    BY <1>3 DEF TestChoice
  <2>4. \A s \in Sides : new(s) = MadeFold(Development(s), cost[s], dev, FoldNo)
    BY <1>1, <2>1 DEF FoldAtHand, MadeFold, Folding
  <2> HIDE DEF new
  <2>5. ASSUME NEW s \in Sides, NEW k \in DOMAIN folds'[s]
        PROVE  folds'[s][k] = MadeFold(Development(s), cost[s], dev, k)
    <3>1. PICK S : folds[s] \in Seq(S)
      BY <1>1 DEF WindowInv, FoldsInOrder
    <3>2. FoldNo = Len(folds[s]) + 1
      BY <1>1 DEF WindowInv, FoldsInOrder, FoldNo, Sides
    <3>3. folds'[s] = Append(folds[s], new(s))
      BY <2>3
    <3>4. /\ Len(folds[s]) \in Nat /\ DOMAIN folds[s] = 1 .. Len(folds[s])
          /\ DOMAIN Append(folds[s], new(s)) = 1 .. (Len(folds[s]) + 1)
          /\ \A i \in 1 .. Len(folds[s]) : Append(folds[s], new(s))[i] = folds[s][i]
          /\ Append(folds[s], new(s))[Len(folds[s]) + 1] = new(s)
      BY <3>1, AppendAny
    <3>5. CASE k = FoldNo
      BY <2>4, <3>2, <3>3, <3>4, <3>5
    <3>6. CASE k # FoldNo
      <4>1. k \in DOMAIN folds[s]
        BY <3>2, <3>3, <3>4, <3>6
      <4> QED
        BY <1>1, <3>3, <3>4, <4>1 DEF FoldsMade
    <3> QED
      BY <3>5, <3>6
  <2> QED
    BY <2>2, <2>5 DEF FoldsMade
<1>4. CASE ~Divide /\ ~TestChoice
  <2>1. /\ folds' = folds /\ cost' = cost /\ dev' = dev
        /\ \A s : Development(s)' = Development(s)
    BY <1>4, OthersKeep
  <2> QED
    BY <1>1, <2>1 DEF FoldsMade
<1> QED
  BY <1>2, <1>3, <1>4

\* Each stage of a fold computes from what the one before computed.
LEMMA AtHandStep == MadeInv /\ [Next]_vars => FoldAtHand'
<1> SUFFICES ASSUME MadeInv, [Next]_vars PROVE FoldAtHand'
  OBVIOUS
<1>1. FoldAtHand
  BY DEF MadeInv
<1>2. CASE Divide
  <2>1. dev' = Length /\ hist' = hist /\ stage' \in {"train", "replay"}
        /\ prep' = [s \in Sides |-> Prepare(Slice(hist[s], Length), Periods)]
    BY <1>2 DEF Divide
  <2>2. \A s \in Sides : Development(s)' = Slice(hist[s], Length)
    BY <2>1 DEF Development
  <2>3. \A s \in Sides : prep'[s] = Prepare(Development(s)', Periods)
    BY <2>1, <2>2
  <2> QED
    BY <2>1, <2>3 DEF FoldAtHand
<1>3. CASE ~Divide /\ stage' \in Folding /\ Next
  <2>1. cost' = cost /\ dev' = dev /\ \A s : Development(s)' = Development(s)
    BY <1>3, OthersKeep
  <2>2. prep' = prep /\ stage \in Folding
    BY <1>3 DEF Next, TooShort, TrainGrid, Validate, TestChoice, ReplayNeighbours, Decide, Open,
                Measure, Folding
  <2>3. \A s \in Sides : prep'[s] = Prepare(Development(s)', Periods)
    BY <1>1, <2>1, <2>2 DEF FoldAtHand
  <2>4. CASE stage' = "train"
    BY <2>3, <2>4 DEF FoldAtHand
  <2>5. CASE stage' = "validate"
    <3>1. TrainGrid
      BY <1>3, <2>5 DEF Next, TooShort, Validate, TestChoice, ReplayNeighbours, Decide, Open, Measure
    <3>2. stage = "train" /\ folds' = folds
      BY <3>1 DEF TrainGrid
    <3>3. \A s \in Sides : cands'[s] = MadeCandidates(Development(s), cost[s], dev, FoldNo)
      BY <1>1, <3>1, <3>2 DEF TrainGrid, MadeCandidates, FoldAtHand, Folding
    <3>4. FoldNo' = FoldNo
      BY <3>2 DEF FoldNo
    <3> QED
      BY <2>1, <2>3, <2>5, <3>3, <3>4 DEF FoldAtHand
  <2>6. CASE stage' = "test"
    <3>1. Validate
      BY <1>3, <2>6 DEF Next, TooShort, TrainGrid, TestChoice, ReplayNeighbours, Decide, Open, Measure
    <3>2. stage = "validate" /\ folds' = folds /\ cands' = cands
      BY <3>1 DEF Validate
    <3>3. \A s \in Sides : valid'[s] = MadeValidations(Development(s), cost[s], dev, FoldNo)
      BY <1>1, <3>1, <3>2 DEF Validate, MadeValidations, FoldAtHand, Folding
    <3>4. FoldNo' = FoldNo
      BY <3>2 DEF FoldNo
    <3>5. \A s \in Sides : cands'[s] = MadeCandidates(Development(s), cost[s], dev, FoldNo)
      BY <1>1, <3>2 DEF FoldAtHand
    <3> QED
      BY <2>1, <2>3, <2>6, <3>3, <3>4, <3>5 DEF FoldAtHand
  <2> QED
    BY <1>3, <2>4, <2>5, <2>6 DEF Folding
<1>4. CASE stage' \notin Folding
  BY <1>4 DEF FoldAtHand, Folding
<1>5. CASE UNCHANGED vars
  BY <1>1, <1>5 DEF vars, FoldAtHand, Development, Slice, FoldNo
<1> QED
  BY <1>2, <1>3, <1>4, <1>5

(*********************** what a decision has measured ***********************)

\* The decision on folds of the grid reads the stop's distance from it.
LEMMA DecisionSane ==
    ASSUME NEW fs, NEW r, fs # <<>> => \E g \in DOMAIN Grid : fs[Len(fs)].params = Grid[g]
    PROVE  Decision(fs, r).params.atr_multiple \in Nat /\ Decision(fs, r).holdout = <<>>
<1>1. Decision(fs, r).params = ProductionParams(fs) /\ Decision(fs, r).holdout = <<>>
  BY DEF Decision
<1>2. ProductionParams(fs).atr_multiple \in Nat
  <2>1. CASE fs = <<>>
    BY <2>1, GridSane DEF ProductionParams, SaneParams
  <2>2. CASE fs # <<>>
    <3>1. PICK g \in DOMAIN Grid : fs[Len(fs)].params = Grid[g]
      BY <2>2
    <3> DEFINE p == Grid[g]
               full == [p EXCEPT !.adx = <<FALSE, 20, 14, FALSE>>]
    <3>2. ProductionParams(fs) = IF p.adx = <<>> THEN full ELSE p
      BY <2>2, <3>1 DEF ProductionParams
    <3>3. p.atr_multiple \in Nat /\ "atr_multiple" \in DOMAIN p
      BY GridSane DEF SaneParams
    <3>4. full.atr_multiple = p.atr_multiple
      BY <3>3
    <3> HIDE DEF full, p
    <3> QED
      BY <3>2, <3>3, <3>4
  <2> QED
    BY <2>1, <2>2
<1> QED
  BY <1>1, <1>2

\* What a verified candidate measures in the holdout is a backtest.
LEMMA HoldoutIsReported ==
    ASSUME NEW N \in Nat, NEW h, Sane(h, N), Bars(h) = N, NEW S, NEW x, x = Prepare(h, S),
           NEW c \in Costs, NEW fs, NEW d, Decisions(d), d.params.atr_multiple \in Nat, dev \in Nat
    PROVE  \A j \in DOMAIN AfterHoldout(h, x, c, fs, d).holdout : \E first \in Nat :
               Reported(h, c, AfterHoldout(h, x, c, fs, d).holdout[j], first, N)
<1>1. PICK gs, r : d = Decision(gs, r)
  BY DEF Decisions
<1> DEFINE m == Run(h, x, d.params, c, dev, N)
<1>2. AfterHoldout(h, x, c, fs, d).holdout = <<m>>
  BY <1>1 DEF Decision, AfterHoldout
<1>3. Reported(h, c, m, MaxOf(1, dev), N)
  <2>1. Readable(h, x, N)
    BY PreparedReadable
  <2> QED
    BY <2>1, RunReported
<1>4. MaxOf(1, dev) \in Nat
  BY DEF MaxOf
<1> HIDE DEF m
<1>5. DOMAIN <<m>> = {1} /\ <<m>>[1] = m
  OBVIOUS
<1> QED
  BY <1>2, <1>3, <1>4, <1>5

\* The folds of a state were foldable.
LEMMA FoldsFoldable ==
    ASSUME MadeInv, NEW s \in Sides, NEW k \in DOMAIN folds[s]
    PROVE  /\ Foldable(Development(s), dev, k) /\ cost[s] \in Costs
           /\ dev \in Nat /\ dev <= Bars(hist["run"])
           /\ \A i \in 0 .. (dev - 1) : Development(s)[i] = hist[s][i]
           /\ k \in DOMAIN folds["run"] /\ k \in DOMAIN folds["twin"]
           /\ folds[s][k] = MadeFold(Development(s), cost[s], dev, k)
<1>1. WindowInv /\ HistoriesSane /\ FoldsMade
  BY DEF MadeInv
<1>2. \A t \in Sides : Len(folds[t]) \in Nat /\ DOMAIN folds[t] = 1 .. Len(folds[t])
  <2> SUFFICES ASSUME NEW t \in Sides
               PROVE  Len(folds[t]) \in Nat /\ DOMAIN folds[t] = 1 .. Len(folds[t])
    OBVIOUS
  <2>1. PICK S : folds[t] \in Seq(S)
    BY <1>1 DEF WindowInv, FoldsInOrder
  <2> QED
    BY <2>1, LenProperties
<1>3. \A t \in Sides : Len(folds[t]) = Len(folds["run"]) /\ Len(folds["run"]) <= 4
  BY <1>1 DEF WindowInv, FoldsInOrder, Sides
<1>4. /\ k \in 1 .. 4 /\ Len(folds["run"]) > 0
      /\ k \in DOMAIN folds["run"] /\ k \in DOMAIN folds["twin"]
  <2>1. k \in 1 .. Len(folds["run"]) /\ Len(folds["run"]) \in Nat
    BY <1>2, <1>3 DEF Sides
  <2>2. DOMAIN folds["run"] = 1 .. Len(folds["run"]) /\ DOMAIN folds["twin"] = 1 .. Len(folds["run"])
    BY <1>2, <1>3 DEF Sides
  <2> QED
    BY <1>3, <2>1, <2>2, SMT
<1>5. dev \in Nat /\ dev <= Bars(hist["run"]) /\ Bars(hist["run"]) \in Nat
  BY <1>1 DEF WindowInv, PairKept
<1>6. dev \div 2 > 1
  <2>1. dev \div 2 >= MinFirstTrain
    BY <1>1, <1>4 DEF WindowInv, FoldsInOrder
  <2>2. dev \div 2 \in Nat
    BY <1>5, SMTT(30)
  <2> QED
    BY <2>1, <2>2, Numbers
<1>7. Sane(Development(s), dev) /\ \A i \in 0 .. (dev - 1) : Development(s)[i] = hist[s][i]
  BY <1>1, <1>5, SliceSane DEF HistoriesSane, Development
<1> QED
  BY <1>1, <1>4, <1>5, <1>6, <1>7 DEF Foldable, HistoriesSane, FoldsMade

\* The parameters decided on are of the grid, or the default.
LEMMA LastOfGrid ==
    ASSUME MadeInv, NEW s \in Sides, folds[s] # <<>>
    PROVE  \E g \in DOMAIN Grid : folds[s][Len(folds[s])].params = Grid[g]
<1>1. PICK S : folds[s] \in Seq(S)
  BY DEF MadeInv, WindowInv, FoldsInOrder
<1>2. Len(folds[s]) \in DOMAIN folds[s]
  <2>1. Len(folds[s]) \in Nat /\ DOMAIN folds[s] = 1 .. Len(folds[s]) /\ Len(folds[s]) # 0
    BY <1>1, LenProperties, EmptySeq
  <2> QED
    BY <2>1
<1> DEFINE k == Len(folds[s])
<1>3. /\ Foldable(Development(s), dev, k) /\ cost[s] \in Costs
      /\ folds[s][k] = MadeFold(Development(s), cost[s], dev, k)
  BY <1>2, FoldsFoldable
<1> HIDE DEF k
<1>4. \E g \in DOMAIN Grid : folds[s][k].params = Grid[g]
  BY <1>3, FoldIsReported
<1> QED
  BY <1>4 DEF k

\* The decision has parameters of the grid, its holdout is a backtest.
LEMMA HoldoutStep == MadeInv /\ [Next]_vars => HoldoutReported'
<1> SUFFICES ASSUME MadeInv, [Next]_vars PROVE HoldoutReported'
  OBVIOUS
<1>1. HoldoutReported /\ Waiting /\ HistoriesSane /\ PairKept
  BY DEF MadeInv, WindowInv
<1>2. CASE Decide
  <2>1. \A s \in Sides : result'[s] = Decision(folds[s], cands[s])
    BY <1>2 DEF Decide
  <2>2. \A s \in Sides : result'[s].params.atr_multiple \in Nat /\ result'[s].holdout = <<>>
    <3> SUFFICES ASSUME NEW s \in Sides
                 PROVE  result'[s].params.atr_multiple \in Nat /\ result'[s].holdout = <<>>
      OBVIOUS
    <3>1. folds[s] # <<>> => \E g \in DOMAIN Grid : folds[s][Len(folds[s])].params = Grid[g]
      BY LastOfGrid
    <3> QED
      BY <2>1, <3>1, DecisionSane
  <2>3. stage' # "measure"
    BY <1>2 DEF Decide
  <2>4. DOMAIN <<>> = {}
    OBVIOUS
  <2> QED
    BY <2>2, <2>3, <2>4 DEF HoldoutReported
<1>3. CASE Open
  <2>1. /\ stage = "holdout" /\ stage' = "measure" /\ result' = result /\ hist' = hist
        /\ prep' = [s \in Sides |-> Prepare(hist[s], {result[s].params.ma_period})]
    BY <1>3 DEF Open
  <2> QED
    BY <1>1, <2>1 DEF HoldoutReported
<1>4. CASE Measure
  <2>1. /\ stage = "measure" /\ stage' = "done" /\ hist' = hist /\ cost' = cost
        /\ \A s \in Sides : result'[s] =
              IF result[s].status = "verified"
              THEN AfterHoldout(hist[s], prep[s], cost[s], folds[s], result[s]) ELSE result[s]
    BY <1>4 DEF Measure
  <2> DEFINE N == Bars(hist["run"])
  <2>2. ASSUME NEW s \in Sides
        PROVE  \A j \in DOMAIN result'[s].holdout : \E first \in Nat :
                   Reported(hist[s], cost[s], result'[s].holdout[j], first, N)
    <3>1. Decisions(result[s]) /\ result[s].params.atr_multiple \in Nat
      BY <1>1, <2>1 DEF Waiting, HoldoutReported
    <3>2. CASE result[s].status = "verified"
      <4>1. PICK S : prep[s] = Prepare(hist[s], S)
        BY <1>1, <2>1 DEF HoldoutReported
      <4>2. N \in Nat /\ dev \in Nat /\ Sane(hist[s], N) /\ cost[s] \in Costs
        BY <1>1 DEF PairKept, HistoriesSane
      <4>3. Bars(hist[s]) = N
        BY <1>1 DEF PairKept, Bars, Sides
      <4>4. result'[s] = AfterHoldout(hist[s], prep[s], cost[s], folds[s], result[s])
        BY <2>1, <3>2
      <4> HIDE DEF N
      <4> QED
        BY <3>1, <4>1, <4>2, <4>3, <4>4, HoldoutIsReported
    <3>3. CASE result[s].status # "verified"
      <4>1. result'[s] = result[s]
        BY <2>1, <3>3
      <4>2. result[s].holdout = <<>>
        BY <3>1 DEF Decisions, Decision
      <4>3. DOMAIN <<>> = {}
        OBVIOUS
      <4> QED
        BY <4>1, <4>2, <4>3
    <3> QED
      BY <3>2, <3>3
  <2> QED
    BY <2>1, <2>2 DEF HoldoutReported
<1>5. CASE TooShort \/ Divide \/ TrainGrid \/ Validate \/ TestChoice \/ ReplayNeighbours
  <2>1. stage' \notin {"measure", "holdout", "done"}
    BY <1>5 DEF TooShort, Divide, TrainGrid, Validate, TestChoice, ReplayNeighbours
  <2> QED
    BY <2>1 DEF HoldoutReported
<1>6. CASE UNCHANGED vars
  BY <1>1, <1>6 DEF HoldoutReported, vars
<1> QED
  BY <1>2, <1>3, <1>4, <1>5, <1>6 DEF Next

LEMMA MadeStep == MadeInv /\ [Next]_vars => MadeInv'
<1> SUFFICES ASSUME MadeInv, [Next]_vars PROVE MadeInv'
  OBVIOUS
<1>1. WindowInv' /\ Waiting'
  BY WindowStep, WaitingStep DEF MadeInv
<1> QED
  BY <1>1, HistoriesStep, FoldsMadeStep, AtHandStep, HoldoutStep DEF MadeInv

LEMMA MadeAlways == Spec => []MadeInv
BY MadeInit, MadeStep, PTL DEF Spec

(************************ what the choices depend on ************************)

\* Folds of the same bars below the cut are the same.
LEMMA BlindFollows == MadeInv => SelectionIsBlind
<1> SUFFICES ASSUME MadeInv, cost["run"] = cost["twin"], NEW k \in DOMAIN folds["run"]
             PROVE  LET a == folds["run"][k]
                        b == folds["twin"][k]
                    IN /\ a.windows.train_end <= cut =>
                             a.params = b.params /\ a.inner = b.inner /\ a.train = b.train
                       /\ a.windows.test_end <= cut => a = b
  BY DEF SelectionIsBlind, ChoicesAgree
<1> DEFINE h == Development("run")
           g == Development("twin")
           c == cost["run"]
           m == MinOf(cut, dev)
           a == folds["run"][k]
           b == folds["twin"][k]
<1>1. /\ Foldable(h, dev, k) /\ c \in Costs /\ dev \in Nat /\ dev <= Bars(hist["run"])
      /\ \A i \in 0 .. (dev - 1) : h[i] = hist["run"][i]
      /\ a = MadeFold(h, c, dev, k) /\ k \in DOMAIN folds["twin"]
  BY FoldsFoldable DEF Sides
<1>2. /\ Foldable(g, dev, k) /\ b = MadeFold(g, c, dev, k)
      /\ \A i \in 0 .. (dev - 1) : g[i] = hist["twin"][i]
  BY <1>1, FoldsFoldable DEF Sides
<1>3. PairKept /\ FoldsInOrder
  BY DEF MadeInv, WindowInv
<1>4. m \in Nat /\ m <= dev /\ m <= cut /\ \A e \in Int : e <= cut /\ e <= dev => e <= m
  BY <1>1, <1>3 DEF MinOf, PairKept
<1>5. SameUpTo(h, g, m)
  <2>1. \A i \in 0 .. (dev - 1) : i < cut => hist["run"][i] = hist["twin"][i]
    BY <1>1, <1>3 DEF PairKept, Sides
  <2> HIDE DEF h, g, m
  <2> QED
    BY <1>1, <1>2, <1>3, <1>4, <2>1 DEF SameUpTo, PairKept
<1>6. a.windows.train_end = TrainEnd(dev, k) /\ a.windows.test_end = TestEnd(dev, k)
  <2>1. a.windows = Windows(dev, k)
    BY <1>3 DEF FoldsInOrder, Sides
  <2> QED
    BY <2>1, WindowParts
<1> HIDE DEF h, g, c, m, a, b
<1>7. /\ TrainEnd(dev, k) \in Nat /\ TestEnd(dev, k) \in Nat
      /\ TrainEnd(dev, k) <= TestEnd(dev, k) /\ TestEnd(dev, k) <= dev /\ TrainEnd(dev, k) <= dev
  BY <1>1, WindowNumbers
<1>8. ASSUME TrainEnd(dev, k) <= cut
      PROVE  /\ a.params = b.params /\ a.inner = b.inner /\ a.train = b.train
             /\ TestEnd(dev, k) <= m => a = b
  <2>1. TrainEnd(dev, k) <= m
    BY <1>4, <1>7, <1>8
  <2> QED
    BY <1>1, <1>2, <1>4, <1>5, <2>1, FoldsAlike
<1>9. ASSUME TestEnd(dev, k) <= cut PROVE a = b
  <2>1. TrainEnd(dev, k) <= cut /\ TestEnd(dev, k) <= m
    <3>1. cut \in Nat
      BY <1>3 DEF PairKept
    <3> QED
      BY <1>4, <1>7, <1>9, <3>1
  <2> QED
    BY <1>8, <2>1
<1> QED
  BY <1>6, <1>8, <1>9 DEF a, b

\* The nested selection of run_walk_forward is blind: at a given cost the choice
\* of a fold, its validation and its training are the same for any two
\* histories that agree below the fold's test, the fold for any that agree up
\* to the test's end.
THEOREM SelectionBlind == Spec => []SelectionIsBlind
BY MadeAlways, BlindFollows, PTL

(************************ what a result reports *****************************)

\* The trades a result reports could have been made in a history that has the
\* bars of the backtest.
LEMMA ReportedTrades ==
    ASSUME NEW h, NEW c, NEW r, NEW first \in Nat, NEW end \in Nat, Reported(h, c, r, first, end),
           NEW H, SameUpTo(h, H, end), NEW t \in DOMAIN r.trades
    PROVE  /\ r.trades[t].in <= r.trades[t].out
           /\ t > 1 => r.trades[t - 1].out < r.trades[t].in
           /\ r.trades[t].buy = H[r.trades[t].in].close
           /\ OhlcValid(H[r.trades[t].out]) => /\ H[r.trades[t].out].low <= r.trades[t].sell
                                               /\ r.trades[t].sell <= H[r.trades[t].out].high
<1>1. PICK e : Finished(h, c, e, first, end) /\ r.trades = e.trades
  BY DEF Reported
<1> DEFINE ts == r.trades
<1>2. ts \in Seq(TradeRecords)
  BY <1>1 DEF Finished, Engines
<1>3. Real(h, ts, first, end - 1)
  <2>1. ts # <<>>
    OBVIOUS
  <2> QED
    BY <1>1, <2>1 DEF Finished
<1> HIDE DEF ts
<1>4. t \in DOMAIN ts
  BY DEF ts
<1>5. ts[t].in \in Nat /\ ts[t].out \in Nat
  <2>1. ts[t] \in TradeRecords
    BY <1>2, <1>4
  <2> QED
    BY <2>1 DEF TradeRecords
<1>6. /\ first <= ts[t].in /\ ts[t].out <= end - 1 /\ Possible(h, ts[t])
      /\ t > 1 => ts[t - 1].out < ts[t].in
  BY <1>3, <1>4 DEF Real
<1>7. ts[t].in <= ts[t].out
  BY <1>6 DEF Possible
<1>8. ts[t].in \in 0 .. (end - 1) /\ ts[t].out \in 0 .. (end - 1)
  BY <1>5, <1>6, <1>7
<1>9. h[ts[t].in] = H[ts[t].in] /\ h[ts[t].out] = H[ts[t].out]
  BY <1>8 DEF SameUpTo
<1> QED
  BY <1>6, <1>7, <1>9 DEF Possible, ts

\* The curve a result reports ends with the money of its trades.
LEMMA ReportedEquity ==
    ASSUME NEW h, NEW c, NEW r, NEW first, NEW end, Reported(h, c, r, first, end)
    PROVE  r.equity # <<>> => r.equity[Len(r.equity)] = Compounded(r.trades, c)
BY DEF Reported, Finished

\* Every fold's results, and the holdout's, are backtests of the history.
LEMMA ResultsReported ==
    ASSUME MadeInv, NEW s \in Sides, NEW r \in Results(s)
    PROVE  \E h, c : \E first \in Nat, end \in Nat :
               Reported(h, c, r, first, end) /\ SameUpTo(h, hist[s], end)
<1>1. CASE \E k \in DOMAIN folds[s] :
              r \in {folds[s][k].inner, folds[s][k].train, folds[s][k].oos, folds[s][k].nocost}
  <2>1. PICK k \in DOMAIN folds[s] :
             r \in {folds[s][k].inner, folds[s][k].train, folds[s][k].oos, folds[s][k].nocost}
    BY <1>1
  <2> DEFINE h == Development(s)
  <2>2. /\ Foldable(h, dev, k) /\ cost[s] \in Costs /\ dev \in Nat
        /\ \A i \in 0 .. (dev - 1) : h[i] = hist[s][i]
        /\ folds[s][k] = MadeFold(h, cost[s], dev, k)
    BY FoldsFoldable
  <2> HIDE DEF h
  <2>3. FoldReported(h, cost[s], folds[s][k], dev)
    BY <2>2, FoldIsReported
  <2>4. \E c : \E first \in Nat, end \in Nat : end <= dev /\ Reported(h, c, r, first, end)
    BY <2>1, <2>3 DEF FoldReported
  <2>5. PICK c : \E first \in Nat, end \in Nat : end <= dev /\ Reported(h, c, r, first, end)
    BY <2>4
  <2>6. PICK first \in Nat, end \in Nat : end <= dev /\ Reported(h, c, r, first, end)
    BY <2>5
  <2>7. SameUpTo(h, hist[s], end)
    BY <2>2, <2>6 DEF SameUpTo
  <2> QED
    BY <2>6, <2>7
<1>2. CASE stage = "done" /\ \E j \in DOMAIN result[s].holdout : r = result[s].holdout[j]
  <2>1. \E first \in Nat : Reported(hist[s], cost[s], r, first, Bars(hist["run"]))
    BY <1>2 DEF MadeInv, HoldoutReported
  <2>2. Bars(hist["run"]) \in Nat
    BY DEF MadeInv, WindowInv, PairKept
  <2> QED
    BY <2>1, <2>2 DEF SameUpTo
<1>3. \/ \E k \in DOMAIN folds[s] : r \in {folds[s][k].inner, folds[s][k].train, folds[s][k].oos, folds[s][k].nocost}
      \/ stage = "done" /\ \E j \in DOMAIN result[s].holdout : r = result[s].holdout[j]
  <2>1. ASSUME NEW f \in {folds[s][k] : k \in DOMAIN folds[s]}, r \in {f.inner, f.train, f.oos, f.nocost}
        PROVE  \E k \in DOMAIN folds[s] :
                   r \in {folds[s][k].inner, folds[s][k].train, folds[s][k].oos, folds[s][k].nocost}
    BY <2>1
  <2>2. \/ \E f \in {folds[s][k] : k \in DOMAIN folds[s]} : r \in {f.inner, f.train, f.oos, f.nocost}
        \/ stage = "done" /\ r \in {result[s].holdout[j] : j \in DOMAIN result[s].holdout}
    BY Zenon DEF Results
  <2> QED
    BY <2>1, <2>2
<1> QED
  BY <1>1, <1>2, <1>3

\* The trades of all results are of the history.
LEMMA TradesFollow == MadeInv => TradesAreReal
<1> SUFFICES ASSUME MadeInv, NEW s \in Sides, NEW r \in Results(s), NEW t \in DOMAIN r.trades
             PROVE  LET trade == r.trades[t]
                        bar == hist[s][trade.out]
                    IN /\ trade.in <= trade.out
                       /\ t > 1 => r.trades[t - 1].out < trade.in
                       /\ trade.buy = hist[s][trade.in].close
                       /\ OhlcValid(bar) => bar.low <= trade.sell /\ trade.sell <= bar.high
  BY DEF TradesAreReal
<1>1. PICK h, c : \E first \in Nat, end \in Nat :
          Reported(h, c, r, first, end) /\ SameUpTo(h, hist[s], end)
  BY ResultsReported
<1>2. PICK first \in Nat, end \in Nat :
          Reported(h, c, r, first, end) /\ SameUpTo(h, hist[s], end)
  BY <1>1
<1> DEFINE H == hist[s]
<1>3. SameUpTo(h, H, end)
  BY <1>2
<1> HIDE DEF H
<1>4. /\ r.trades[t].in <= r.trades[t].out
      /\ t > 1 => r.trades[t - 1].out < r.trades[t].in
      /\ r.trades[t].buy = H[r.trades[t].in].close
      /\ OhlcValid(H[r.trades[t].out]) => /\ H[r.trades[t].out].low <= r.trades[t].sell
                                          /\ r.trades[t].sell <= H[r.trades[t].out].high
  BY <1>2, <1>3, ReportedTrades
<1> QED
  BY <1>4 DEF H

\* Every trade that a fold or the holdout reports could have been made: bought
\* at a close, sold after it at a price a valid bar traded at, before the next.
THEOREM TradesHappened == Spec => []TradesAreReal
BY MadeAlways, TradesFollow, PTL

\* The curves of all folds are of their trades.
LEMMA EquityFollows == MadeInv => EquityIsTheTrades
<1> SUFFICES ASSUME MadeInv, NEW s \in Sides, NEW k \in DOMAIN folds[s]
             PROVE  LET f == folds[s][k]
                    IN /\ \A r \in {f.inner, f.train, f.oos} :
                             r.equity # <<>> => r.equity[Len(r.equity)] = Compounded(r.trades, cost[s])
                       /\ f.nocost.equity # <<>> =>
                             f.nocost.equity[Len(f.nocost.equity)] = Compounded(f.nocost.trades, 0)
  BY DEF EquityIsTheTrades
<1> DEFINE h == Development(s)
           f == folds[s][k]
<1>1. Foldable(h, dev, k) /\ cost[s] \in Costs /\ f = MadeFold(h, cost[s], dev, k)
  BY FoldsFoldable
<1> HIDE DEF h, f
<1>2. FoldReported(h, cost[s], f, dev)
  BY <1>1, FoldIsReported
<1>3. ASSUME NEW r \in {f.inner, f.train, f.oos}
      PROVE  r.equity # <<>> => r.equity[Len(r.equity)] = Compounded(r.trades, cost[s])
  <2>1. \E first, end : Reported(h, cost[s], r, first, end)
    BY <1>2, <1>3 DEF FoldReported
  <2> QED
    BY <2>1, ReportedEquity
<1>4. f.nocost.equity # <<>> => f.nocost.equity[Len(f.nocost.equity)] = Compounded(f.nocost.trades, 0)
  <2>1. \E first, end : Reported(h, 0, f.nocost, first, end)
    BY <1>2 DEF FoldReported
  <2> QED
    BY <2>1, ReportedEquity
<1> QED
  BY <1>3, <1>4 DEF f

\* The equity curve of every fold ends with what its reported trades made of the
\* initial cash, at the cost the fold was run with.
THEOREM EquityExplained == Spec => []EquityIsTheTrades
BY MadeAlways, EquityFollows, PTL
=============================================================================
