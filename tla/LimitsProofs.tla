------------------------------ MODULE LimitsProofs -----------------------------
(***************************************************************************)
(* Proofs about the two components whose limits bound sums: the canaries   *)
(* of LiveCanary, for any canaries, requests and limits, and the target of *)
(* Portfolio, for any symbols, prices, policy and market.                  *)
(*                                                                         *)
(* The limits of a canary hold because it is closed in the transaction     *)
(* that exhausts it: an ACTIVE one has room, so one more order fits. What  *)
(* a decision may order is said of the plan it persists; when a decision   *)
(* waits for the previous plan and for a sync, no sale exceeds what is     *)
(* held, and what is held in the end is within the limits the target was   *)
(* reviewed for.                                                           *)
(***************************************************************************)
EXTENDS LiveCanary, Portfolio, FiniteSetTheorems, WellFoundedInduction, TLAPS

-----------------------------------------------------------------------------
(* Sums: the fold takes one element after the other, in an order it        *)
(* chooses; what is shown of it is shown by the smallest set for which it  *)
(* would fail.                                                             *)

\* Among any natural numbers there is a least one.
LEMMA NatMin == ASSUME NEW T, T \subseteq Nat, T # {} PROVE \E x \in T : \A y \in T : x <= y
<1> DEFINE Less == OpToRel(<, Nat)
<1>1. IsWellFoundedOn(Less, Nat)
  BY NatLessThanWellFounded
<1>2. \A a, b \in Nat : a < b => <<a, b>> \in Less
  BY DEF OpToRel
<1> HIDE DEF Less
<1>3. PICK x \in T : \A y \in T : ~(<<y, x>> \in Less)
  BY <1>1, WFMin, Zenon
<1>4. ASSUME NEW y \in T PROVE x <= y
  <2>1. x \in Nat /\ y \in Nat
    OBVIOUS
  <2>2. ~(y < x)
    BY <1>2, <1>3, <2>1
  <2>3. QED
    BY <2>1, <2>2
<1>5. QED
  BY <1>4

\* Among any finite sets there is one that contains no other.
LEMMA LeastSet ==
  ASSUME NEW Bad, Bad # {}, \A S \in Bad : IsFiniteSet(S)
  PROVE  \E S \in Bad : \A T \in SUBSET S : T \in Bad => T = S
<1> DEFINE Sizes == {Cardinality(S) : S \in Bad}
<1>1. Sizes \subseteq Nat /\ Sizes # {}
  BY FS_CardinalityType
<1>2. PICK n \in Sizes : \A m \in Sizes : n <= m
  BY <1>1, NatMin
<1>3. PICK S \in Bad : Cardinality(S) = n
  BY <1>2
<1>4. ASSUME NEW T \in SUBSET S, T \in Bad PROVE T = S
  <2>1. Cardinality(S) <= Cardinality(T)
    BY <1>2, <1>3, <1>4
  <2>2. IsFiniteSet(S)
    OBVIOUS
  <2>3. Cardinality(T) <= Cardinality(S) /\ (Cardinality(T) = Cardinality(S) => T = S)
    BY <2>2, FS_Subset
  <2>4. Cardinality(S) \in Nat /\ Cardinality(T) \in Nat
    BY <1>4, FS_CardinalityType
  <2>5. QED
    BY <2>1, <2>3, <2>4
<1>5. QED
  BY <1>4

First(s) == CHOOSE x \in s : TRUE
Adds(g, w, S) == g = [s \in SUBSET S |-> IF s = {} THEN 0 ELSE w[First(s)] + g[s \ {First(s)}]]
Adder(w, S) == CHOOSE g : Adds(g, w, S)
SumOver(w, S) == Adder(w, S)[S]

LEMMA NotionalSum == \A S : MapThenSumSet(LAMBDA r : Notional[r], S) = SumOver(Notional, S)
BY DEF MapThenSumSet, MapThenFoldSet, SumOver, Adder, Adds, First

LEMMA FunctionSum == \A w, S : SumFunctionOnSet(w, S) = SumOver(w, S)
BY DEF SumFunctionOnSet, FoldFunctionOnSet, MapThenFoldSet, SumOver, Adder, Adds, First

LEMMA FirstIn == \A s : s # {} => First(s) \in s /\ s \ {First(s)} # s
BY DEF First

LEMMA AddsUnfold ==
  ASSUME NEW g, NEW w, NEW S, Adds(g, w, S), NEW s \in SUBSET S
  PROVE  /\ s = {} => g[s] = 0
         /\ s # {} => g[s] = w[First(s)] + g[s \ {First(s)}]
<1> DEFINE body(k, t) == IF t = {} THEN 0 ELSE w[First(t)] + k[t \ {First(t)}]
<1>1. g = [t \in SUBSET S |-> body(g, t)]
  BY DEF Adds
<1>2. g[s] = body(g, s)
  <2> HIDE DEF body
  <2>1. QED
    BY <1>1
<1>3. QED
  BY <1>2

LEMMA AdderUnfold ==
  ASSUME NEW w, NEW S, Adds(Adder(w, S), w, S)
  PROVE  S # {} => SumOver(w, S) = w[First(S)] + Adder(w, S)[S \ {First(S)}]
<1>1. S \in SUBSET S
  OBVIOUS
<1>2. QED
  BY <1>1, AddsUnfold DEF SumOver

\* Two recursions agree on the sets they share.
LEMMA AddsAgree ==
  ASSUME NEW w, NEW S, NEW U, NEW g, NEW h, Adds(g, w, S), Adds(h, w, U), IsFiniteSet(S)
  PROVE  \A s \in SUBSET (S \cap U) : g[s] = h[s]
<1> DEFINE Bad == {s \in SUBSET (S \cap U) : g[s] # h[s]}
<1> SUFFICES ASSUME Bad # {} PROVE FALSE
  OBVIOUS
<1>1. \A s \in Bad : IsFiniteSet(s)
  BY FS_Subset
<1>2. PICK s \in Bad : \A t \in SUBSET s : t \in Bad => t = s
  <2> HIDE DEF Bad
  <2>1. QED
    BY <1>1, LeastSet
<1>3. s \in SUBSET S /\ s \in SUBSET U /\ g[s] # h[s]
  OBVIOUS
<1>4. s # {}
  BY <1>3, AddsUnfold
<1> DEFINE t == s \ {First(s)}
<1>5. t \in SUBSET s /\ t # s
  BY <1>4, FirstIn
<1>6. g[t] = h[t]
  BY <1>2, <1>5
<1>7. g[s] = w[First(s)] + g[t] /\ h[s] = w[First(s)] + h[t]
  BY <1>3, <1>4, AddsUnfold
<1>8. QED
  BY <1>3, <1>6, <1>7

\* Every finite set has such a recursion.
LEMMA AdderAdds == \A w, S : IsFiniteSet(S) => Adds(Adder(w, S), w, S)
<1> SUFFICES ASSUME NEW w, NEW V, IsFiniteSet(V), ~Adds(Adder(w, V), w, V) PROVE FALSE
  OBVIOUS
<1> DEFINE Bad == {S \in SUBSET V : ~Adds(Adder(w, S), w, S)}
<1>1. Bad # {} /\ \A S \in Bad : IsFiniteSet(S)
  BY FS_Subset
<1>2. PICK S \in Bad : \A T \in SUBSET S : T \in Bad => T = S
  <2> HIDE DEF Bad
  <2>1. QED
    BY <1>1, LeastSet
<1>3. IsFiniteSet(S) /\ ~Adds(Adder(w, S), w, S)
  BY <1>1
<1>4. ASSUME NEW T \in SUBSET S, T # S PROVE Adds(Adder(w, T), w, T) /\ IsFiniteSet(T)
  BY <1>2, <1>3, <1>4, FS_Subset
<1> HIDE DEF Bad
<1> DEFINE g == [s \in SUBSET S |-> IF s = {} THEN 0 ELSE w[First(s)] + SumOver(w, s \ {First(s)})]
<1>5. ASSUME NEW s \in SUBSET S, s # {} PROVE g[s \ {First(s)}] = SumOver(w, s \ {First(s)})
  <2> DEFINE u == s \ {First(s)}
  <2>1. u \in SUBSET S /\ u # S /\ First(s) \in s
    BY <1>5, FirstIn
  <2>2. Adds(Adder(w, u), w, u)
    BY <1>4, <2>1
  <2>3. CASE u = {}
    BY <2>1, <2>2, <2>3, AddsUnfold DEF SumOver
  <2>4. CASE u # {}
    <3> DEFINE v == u \ {First(u)}
    <3>1. v \in SUBSET u /\ v \in SUBSET S /\ v # S
      BY <2>1
    <3>2. Adds(Adder(w, v), w, v) /\ IsFiniteSet(v)
      BY <1>4, <3>1
    <3>3. SumOver(w, u) = w[First(u)] + Adder(w, u)[v]
      BY <2>2, <2>4, AdderUnfold
    <3>4. Adder(w, v)[v] = Adder(w, u)[v]
      BY <2>2, <3>1, <3>2, AddsAgree
    <3>5. g[u] = w[First(u)] + SumOver(w, v)
      BY <2>1, <2>4
    <3>6. QED
      BY <3>3, <3>4, <3>5 DEF SumOver
  <2>5. QED
    BY <2>3, <2>4
<1>6. g = [s \in SUBSET S |-> IF s = {} THEN 0 ELSE w[First(s)] + g[s \ {First(s)}]]
  <2> DEFINE rhs == [s \in SUBSET S |-> IF s = {} THEN 0 ELSE w[First(s)] + g[s \ {First(s)}]]
  <2>1. \A s \in SUBSET S : g[s] = rhs[s]
    <3> SUFFICES ASSUME NEW s \in SUBSET S PROVE g[s] = rhs[s]
      OBVIOUS
    <3>1. CASE s = {}
      BY <3>1
    <3>2. CASE s # {}
      <4>1. g[s] = w[First(s)] + SumOver(w, s \ {First(s)})
        BY <3>2
      <4>2. rhs[s] = w[First(s)] + g[s \ {First(s)}]
        <5> HIDE DEF g
        <5>1. QED
          BY <3>2
      <4>3. QED
        <5> HIDE DEF g, rhs
        <5>1. QED
          BY <1>5, <3>2, <4>1, <4>2
    <3>3. QED
      BY <3>1, <3>2
  <2>2. g = [s \in SUBSET S |-> g[s]]
    OBVIOUS
  <2>3. rhs = [s \in SUBSET S |-> rhs[s]]
    <3> HIDE DEF g
    <3>1. QED
      OBVIOUS
  <2>4. g = rhs
    <3> HIDE DEF g, rhs
    <3>1. QED
      BY <2>1, <2>2, <2>3, Zenon
  <2>5. QED
    BY <2>4
<1> HIDE DEF g
<1>7. Adds(g, w, S)
  BY <1>6 DEF Adds
<1>8. Adds(Adder(w, S), w, S)
  BY <1>7 DEF Adder
<1>9. QED
  BY <1>3, <1>8

LEMMA SumUnfold ==
  ASSUME NEW w, NEW S, IsFiniteSet(S)
  PROVE  /\ S = {} => SumOver(w, S) = 0
         /\ S # {} => SumOver(w, S) = w[First(S)] + SumOver(w, S \ {First(S)})
<1>1. Adds(Adder(w, S), w, S)
  BY AdderAdds
<1>2. CASE S = {}
  BY <1>1, <1>2, AddsUnfold DEF SumOver
<1>3. CASE S # {}
  <2> DEFINE u == S \ {First(S)}
  <2>1. IsFiniteSet(u) /\ u \in SUBSET (u \cap S)
    BY FS_Subset
  <2>2. Adds(Adder(w, u), w, u)
    BY <2>1, AdderAdds
  <2>3. Adder(w, u)[u] = Adder(w, S)[u]
    BY <1>1, <2>1, <2>2, AddsAgree
  <2>4. Adder(w, S)[S] = w[First(S)] + Adder(w, S)[u]
    BY <1>1, <1>3, AddsUnfold
  <2>5. QED
    BY <1>3, <2>3, <2>4 DEF SumOver
<1>4. QED
  BY <1>2, <1>3

\* Sums of numbers are numbers, and grow with what is summed.
LEMMA SumGrows ==
  ASSUME NEW V, IsFiniteSet(V), NEW v, NEW w,
         \A x \in V : v[x] \in Int /\ w[x] \in Int /\ v[x] <= w[x]
  PROVE  SumOver(v, V) \in Int /\ SumOver(w, V) \in Int /\ SumOver(v, V) <= SumOver(w, V)
<1> DEFINE Fine(S) == SumOver(v, S) \in Int /\ SumOver(w, S) \in Int /\ SumOver(v, S) <= SumOver(w, S)
           Bad == {S \in SUBSET V : ~Fine(S)}
<1> SUFFICES ASSUME Bad # {} PROVE FALSE
  OBVIOUS
<1>1. \A S \in Bad : IsFiniteSet(S)
  BY FS_Subset
<1>2. PICK S \in Bad : \A T \in SUBSET S : T \in Bad => T = S
  <2> HIDE DEF Bad
  <2>1. QED
    BY <1>1, LeastSet
<1>3. IsFiniteSet(S) /\ S \in SUBSET V /\ ~Fine(S)
  BY <1>1
<1>4. \A T \in SUBSET S : T # S => Fine(T)
  BY <1>2, <1>3
<1> HIDE DEF Bad
<1>5. S # {}
  <2>1. S = {} => SumOver(v, S) = 0 /\ SumOver(w, S) = 0
    BY <1>3, SumUnfold
  <2>2. QED
    BY <1>3, <2>1
<1>6. Fine(S \ {First(S)}) /\ First(S) \in V
  <2>1. First(S) \in S /\ S \ {First(S)} # S
    BY <1>5, FirstIn
  <2>2. QED
    BY <1>3, <1>4, <2>1
<1>7. /\ SumOver(v, S) = v[First(S)] + SumOver(v, S \ {First(S)})
      /\ SumOver(w, S) = w[First(S)] + SumOver(w, S \ {First(S)})
  BY <1>3, <1>5, SumUnfold
<1>8. QED
  BY <1>3, <1>6, <1>7

\* Whichever element is taken out, the rest is less by its number.
LEMMA SumWithout ==
  ASSUME NEW V, IsFiniteSet(V), NEW w, \A x \in V : w[x] \in Int
  PROVE  \A x \in V : SumOver(w, V) = w[x] + SumOver(w, V \ {x})
<1> DEFINE Bad == {S \in SUBSET V : \E x \in S : SumOver(w, S) # w[x] + SumOver(w, S \ {x})}
<1> SUFFICES ASSUME Bad # {} PROVE FALSE
  OBVIOUS
<1>1. \A S \in Bad : IsFiniteSet(S)
  BY FS_Subset
<1>2. PICK S \in Bad : \A T \in SUBSET S : T \in Bad => T = S
  <2> HIDE DEF Bad
  <2>1. QED
    BY <1>1, LeastSet
<1>3. IsFiniteSet(S) /\ S \in SUBSET V
  BY <1>1
<1>4. PICK x \in S : SumOver(w, S) # w[x] + SumOver(w, S \ {x})
  OBVIOUS
<1> DEFINE c == First(S)
<1>5. c \in S /\ SumOver(w, S) = w[c] + SumOver(w, S \ {c})
  BY <1>3, <1>4, FirstIn, SumUnfold
<1>6. c # x
  BY <1>4, <1>5
<1>7. \A y, z \in S : y # z => SumOver(w, S \ {y}) = w[z] + SumOver(w, (S \ {y}) \ {z})
  <2>1. ASSUME NEW y \in S, NEW z \in S, y # z
        PROVE  SumOver(w, S \ {y}) = w[z] + SumOver(w, (S \ {y}) \ {z})
    <3>1. S \ {y} \in SUBSET S /\ S \ {y} # S /\ S \ {y} \in SUBSET V /\ z \in S \ {y}
      BY <2>1
    <3>2. S \ {y} \notin Bad
      <4> HIDE DEF Bad
      <4>1. QED
        BY <1>2, <3>1
    <3>3. QED
      BY <3>1, <3>2
  <2>2. QED
    BY <2>1
<1>8. (S \ {c}) \ {x} = (S \ {x}) \ {c}
  OBVIOUS
<1> HIDE DEF Bad
<1>9. w[c] \in Int /\ w[x] \in Int
  <2>1. c \in V /\ x \in V
    BY <1>3, <1>5
  <2>2. QED
    BY <2>1
<1>10. SumOver(w, (S \ {c}) \ {x}) \in Int
  <2> DEFINE R == (S \ {c}) \ {x}
  <2>1. IsFiniteSet(R) /\ R \in SUBSET V
    BY <1>3, FS_Subset
  <2>2. \A y \in R : w[y] \in Int /\ w[y] <= w[y]
    BY <2>1
  <2>3. QED
    <3> HIDE DEF R
    <3>1. SumOver(w, R) \in Int
      BY <2>1, <2>2, SumGrows
    <3>2. QED
      BY <3>1 DEF R
<1>11. /\ SumOver(w, S \ {c}) = w[x] + SumOver(w, (S \ {c}) \ {x})
       /\ SumOver(w, S \ {x}) = w[c] + SumOver(w, (S \ {x}) \ {c})
  BY <1>5, <1>6, <1>7
<1>12. SumOver(w, S) = w[c] + (w[x] + SumOver(w, (S \ {c}) \ {x}))
  BY <1>5, <1>11
<1>13. w[x] + SumOver(w, S \ {x}) = w[x] + (w[c] + SumOver(w, (S \ {c}) \ {x}))
  BY <1>8, <1>11
<1> DEFINE rest == SumOver(w, (S \ {c}) \ {x})
<1> HIDE DEF c, rest
<1>14. rest \in Int
  BY <1>10 DEF rest
<1>15. w[c] + (w[x] + rest) = w[x] + (w[c] + rest)
  BY <1>9, <1>14
<1>16. QED
  BY <1>4, <1>12, <1>13, <1>15 DEF rest

-----------------------------------------------------------------------------
(* The canaries.                                                           *)

\* A canary that was never opened was never reserved from.
UnopenedUnused == \A c \in Canaries : status[c] = "NONE" => orders[c] = 0 /\ notional[c] = 0

CanaryInv == CanaryTypeOK /\ WithinLimits /\ ActiveHasRoom /\ UnopenedUnused

\* Closing canaries opens none and forgets none.
LEMMA ClosingActive ==
  ASSUME CanaryTypeOK, NEW set, set \subseteq Active, status' = Closing(set)
  PROVE  /\ status' \in [Canaries -> {"NONE", "ACTIVE", "CLOSED"}]
         /\ \A c \in Canaries : status'[c] = "ACTIVE" <=> status[c] = "ACTIVE" /\ c \notin set
         /\ \A c \in Canaries : status'[c] = "NONE" <=> status[c] = "NONE"
BY DEF Closing, CanaryTypeOK, Active

\* A transaction that only closes keeps the invariant.
LEMMA ClosingKeeps ==
  ASSUME CanaryInv, NEW set, set \subseteq Active, status' = Closing(set),
         UNCHANGED <<ready, expired, orders, notional, usage>>
  PROVE  CanaryInv'
<1>1. /\ status' \in [Canaries -> {"NONE", "ACTIVE", "CLOSED"}]
      /\ \A c \in Canaries : status'[c] = "ACTIVE" => status[c] = "ACTIVE"
      /\ \A c \in Canaries : status'[c] = "NONE" => status[c] = "NONE"
  BY ClosingActive DEF CanaryInv
<1>2. QED
  BY <1>1 DEF CanaryInv, CanaryTypeOK, WithinLimits, ActiveHasRoom, UnopenedUnused, Active

\* Nothing is opened or used at first.
LEMMA CanaryFirst == CanaryInit => CanaryInv
<1> SUFFICES ASSUME CanaryInit PROVE CanaryInv
  OBVIOUS
<1>1. CanaryTypeOK
  BY DEF CanaryInit, CanaryTypeOK
<1>2. WithinLimits
  <2>1. \A c \in Canaries : MaxOrders[c] \in Nat /\ MaxNotional[c] \in Nat
    BY CanaryAssumption
  <2>2. \A c \in Canaries : orders[c] = 0 /\ notional[c] = 0
    BY DEF CanaryInit
  <2>3. QED
    BY <2>1, <2>2 DEF WithinLimits
<1>3. Active = {}
  BY DEF CanaryInit, Active
<1>4. UnopenedUnused
  BY DEF CanaryInit, UnopenedUnused
<1>5. QED
  BY <1>1, <1>2, <1>3, <1>4 DEF CanaryInv, ActiveHasRoom

\* A reservation fits, and what it exhausts it closes.
LEMMA AuthorizeKeeps ==
  ASSUME CanaryInv, NEW r \in Requests, Authorize(r) PROVE CanaryInv'
<1> DEFINE fitting == {c \in Candidates(r) : Fits(c, r)}
<1>1. PICK c \in Canaries :
        /\ IsOldest(c, fitting)
        /\ usage' = [usage EXCEPT ![r] = c]
        /\ orders' = [orders EXCEPT ![c] = @ + 1]
        /\ notional' = [notional EXCEPT ![c] = @ + Notional[r]]
        /\ status' = Closing(ExpiredOf(Owner[r])
                             \cup {d \in Candidates(r) : Age[d] < Age[c]}
                             \cup {d \in {c} : Exhausts(c, r)})
  BY DEF Authorize
<1> DEFINE closed == ExpiredOf(Owner[r]) \cup {d \in Candidates(r) : Age[d] < Age[c]}
                     \cup {d \in {c} : Exhausts(c, r)}
<1>2. c \in Active /\ Fits(c, r)
  BY <1>1 DEF IsOldest, Candidates
<1>3. closed \subseteq Active
  BY <1>2 DEF ExpiredOf, Candidates
<1>4. /\ status' \in [Canaries -> {"NONE", "ACTIVE", "CLOSED"}]
      /\ \A d \in Canaries : status'[d] = "ACTIVE" <=> status[d] = "ACTIVE" /\ d \notin closed
      /\ \A d \in Canaries : status'[d] = "NONE" <=> status[d] = "NONE"
  BY <1>1, <1>3, ClosingActive DEF CanaryInv
<1>5. /\ orders \in [Canaries -> Nat] /\ notional \in [Canaries -> Nat]
      /\ Notional[r] \in Nat \ {0} /\ MaxOrders[c] \in Nat /\ MaxNotional[c] \in Nat
  BY CanaryAssumption DEF CanaryInv, CanaryTypeOK
<1>6. /\ orders'[c] = orders[c] + 1 /\ notional'[c] = notional[c] + Notional[r]
      /\ \A d \in Canaries : d # c => orders'[d] = orders[d] /\ notional'[d] = notional[d]
  BY <1>1, <1>5
<1>7. CanaryTypeOK'
  BY <1>1, <1>4, <1>5 DEF CanaryInv, CanaryTypeOK, Authorize
<1>8. WithinLimits'
  BY <1>2, <1>5, <1>6 DEF WithinLimits, CanaryInv, Fits
<1>9. ActiveHasRoom'
  <2>1. ASSUME status'[c] = "ACTIVE"
        PROVE  orders'[c] < MaxOrders[c] /\ notional'[c] < MaxNotional[c]
    <3>1. ~Exhausts(c, r)
      BY <1>4, <2>1
    <3>2. QED
      BY <1>5, <1>6, <3>1 DEF Exhausts
  <2>2. \A d \in Canaries : d # c /\ status'[d] = "ACTIVE" =>
           orders'[d] < MaxOrders[d] /\ notional'[d] < MaxNotional[d]
    BY <1>4, <1>6 DEF CanaryInv, ActiveHasRoom, Active
  <2>3. QED
    BY <2>1, <2>2 DEF ActiveHasRoom, Active
<1>10. UnopenedUnused'
  BY <1>2, <1>4, <1>6 DEF CanaryInv, UnopenedUnused, Active
<1>11. QED
  BY <1>7, <1>8, <1>9, <1>10 DEF CanaryInv

\* Every transaction keeps the invariant.
LEMMA CanaryStep == CanaryInv /\ [CanaryNext]_canaryVars => CanaryInv'
<1> SUFFICES ASSUME CanaryInv, [CanaryNext]_canaryVars PROVE CanaryInv'
  OBVIOUS
<1>1. CASE \E pass \in BOOLEAN : MarkReadiness(pass)
  BY <1>1 DEF MarkReadiness, CanaryInv, CanaryTypeOK, WithinLimits, ActiveHasRoom, UnopenedUnused, Active
<1>2. ASSUME NEW c \in Canaries, Create(c) PROVE CanaryInv'
  <2>1. orders[c] = 0 /\ notional[c] = 0 /\ MaxOrders[c] \in Nat \ {0} /\ MaxNotional[c] \in Nat \ {0}
    BY <1>2, CanaryAssumption DEF Create, CanaryInv, UnopenedUnused
  <2>2. QED
    BY <1>2, <2>1 DEF Create, CanaryInv, CanaryTypeOK, WithinLimits, ActiveHasRoom, UnopenedUnused, Active
<1>3. CASE \E c \in Canaries : Expire(c)
  BY <1>3 DEF Expire, CanaryInv, CanaryTypeOK, WithinLimits, ActiveHasRoom, UnopenedUnused, Active
<1>4. CASE \E r \in Requests : Authorize(r)
  BY <1>4, AuthorizeKeeps
<1>5. ASSUME NEW r \in Requests, Refuse(r) PROVE CanaryInv'
  <2>1. ExpiredOf(Owner[r]) \cup Candidates(r) \subseteq Active
    BY DEF ExpiredOf, Candidates
  <2>2. QED
    BY <1>5, <2>1, ClosingKeeps DEF Refuse
<1>6. ASSUME NEW accounts, Close(accounts) PROVE CanaryInv'
  BY <1>6, ClosingKeeps DEF Close
<1>7. ASSUME NEW a \in Accounts, CloseExpired(a) PROVE CanaryInv'
  <2>1. ExpiredOf(a) \subseteq Active
    BY DEF ExpiredOf
  <2>2. QED
    BY <1>7, <2>1, ClosingKeeps DEF CloseExpired
<1>8. CASE UNCHANGED canaryVars
  BY <1>8 DEF canaryVars, CanaryInv, CanaryTypeOK, WithinLimits, ActiveHasRoom, UnopenedUnused, Active
<1>9. QED
  BY <1>1, <1>2, <1>3, <1>4, <1>5, <1>6, <1>7, <1>8 DEF CanaryNext

\* The invariant holds of every reachable state.
THEOREM CanaryInductive == CanarySpec => []CanaryInv
BY CanaryFirst, CanaryStep, PTL DEF CanarySpec

\* The operator's limits are never passed, for any canaries, requests and notionals.
THEOREM LimitsHold == CanarySpec => []WithinLimits
<1>1. CanaryInv => WithinLimits
  BY DEF CanaryInv
<1>2. QED
  BY <1>1, CanaryInductive, PTL

\* No exhausted canary is left ACTIVE.
THEOREM RoomLeft == CanarySpec => []ActiveHasRoom
<1>1. CanaryInv => ActiveHasRoom
  BY DEF CanaryInv
<1>2. QED
  BY <1>1, CanaryInductive, PTL

\* A closed canary is never used again and a reservation never moves.
THEOREM Frozen == CanarySpec => ClosedIsFrozen
<1> DEFINE Frozen1 == /\ \A c \in Canaries : status[c] = "CLOSED" =>
                            status'[c] = "CLOSED" /\ orders'[c] = orders[c] /\ notional'[c] = notional[c]
                      /\ \A r \in Requests : usage[r] # NoCanary => usage'[r] = usage[r]
<1>1. CanaryTypeOK /\ [CanaryNext]_canaryVars => [Frozen1]_canaryVars
  <2> SUFFICES ASSUME CanaryTypeOK, CanaryNext PROVE Frozen1
    OBVIOUS
  <2>1. CASE \E r \in Requests : Authorize(r)
    <3>1. PICK r \in Requests : Authorize(r)
      BY <2>1
    <3>2. PICK c \in Active :
            /\ usage' = [usage EXCEPT ![r] = c]
            /\ orders' = [orders EXCEPT ![c] = @ + 1]
            /\ notional' = [notional EXCEPT ![c] = @ + Notional[r]]
            /\ \E set : status' = Closing(set)
      BY <3>1 DEF Authorize, IsOldest, Candidates
    <3>3. c \in Canaries /\ status[c] = "ACTIVE" /\ usage[r] = NoCanary
      BY <3>1 DEF Active, Authorize, FirstTime
    <3>4. QED
      BY <3>2, <3>3 DEF Closing, CanaryTypeOK
  <2>2. CASE \/ \E r \in Requests : Refuse(r)
             \/ \E a \in Accounts : Close({a}) \/ CloseExpired(a)
             \/ Close(Accounts)
    BY <2>2 DEF Refuse, Close, CloseExpired, Closing
  <2>3. CASE \/ \E pass \in BOOLEAN : MarkReadiness(pass)
             \/ \E c \in Canaries : Create(c) \/ Expire(c)
    BY <2>3 DEF MarkReadiness, Create, Expire, CanaryTypeOK
  <2>4. QED
    BY <2>1, <2>2, <2>3 DEF CanaryNext
<1>2. CanaryInv => CanaryTypeOK
  BY DEF CanaryInv
<1>3. QED
  BY <1>1, <1>2, CanaryInductive, PTL DEF CanarySpec, ClosedIsFrozen

-----------------------------------------------------------------------------
\* What a request reserves is counted once, for the canary it reserved from.
Counted ==
    \A c \in Canaries :
        /\ IsFiniteSet(ReservedFrom(c))
        /\ orders[c] = Cardinality(ReservedFrom(c))
        /\ notional[c] = SumOver(Notional, ReservedFrom(c))

LEMMA CountedFirst == CanaryInit => Counted
<1> SUFFICES ASSUME CanaryInit, NEW c \in Canaries
             PROVE  /\ IsFiniteSet(ReservedFrom(c))
                    /\ orders[c] = Cardinality(ReservedFrom(c))
                    /\ notional[c] = SumOver(Notional, ReservedFrom(c))
  BY DEF Counted
<1>1. ReservedFrom(c) = {}
  BY CanaryAssumption DEF CanaryInit, ReservedFrom
<1>2. QED
  BY <1>1, FS_EmptySet, SumUnfold DEF CanaryInit

LEMMA CountedStep == ASSUME CanaryTypeOK, Counted, [CanaryNext]_canaryVars PROVE Counted'
<1>1. CASE UNCHANGED <<orders, notional, usage>>
  <2>1. \A c : ReservedFrom(c)' = ReservedFrom(c)
    BY <1>1 DEF ReservedFrom
  <2>2. QED
    BY <1>1, <2>1 DEF Counted
<1>2. ASSUME NEW r \in Requests, Authorize(r) PROVE Counted'
  <2>1. PICK c \in Canaries :
          /\ usage' = [usage EXCEPT ![r] = c]
          /\ orders' = [orders EXCEPT ![c] = @ + 1]
          /\ notional' = [notional EXCEPT ![c] = @ + Notional[r]]
    BY <1>2 DEF Authorize
  <2>2. usage[r] = NoCanary /\ c # NoCanary
    BY <1>2, CanaryAssumption DEF Authorize, FirstTime
  <2>3. /\ usage \in [Requests -> Canaries \cup {NoCanary}]
        /\ orders \in [Canaries -> Nat] /\ notional \in [Canaries -> Nat]
    BY DEF CanaryTypeOK
  <2>4. ASSUME NEW d \in Canaries, d # c
        PROVE  ReservedFrom(d)' = ReservedFrom(d) /\ orders'[d] = orders[d] /\ notional'[d] = notional[d]
    <3>1. d # NoCanary
      BY CanaryAssumption
    <3>2. QED
      BY <2>1, <2>2, <2>3, <2>4, <3>1 DEF ReservedFrom
  <2> DEFINE S == ReservedFrom(c)
  <2>5. ReservedFrom(c)' = S \cup {r} /\ r \notin S
    BY <2>1, <2>2, <2>3 DEF ReservedFrom
  <2>6. IsFiniteSet(S) /\ orders[c] = Cardinality(S) /\ notional[c] = SumOver(Notional, S)
    BY DEF Counted
  <2>7. IsFiniteSet(S \cup {r}) /\ Cardinality(S \cup {r}) = Cardinality(S) + 1
    BY <2>5, <2>6, FS_AddElement
  <2>8. SumOver(Notional, S \cup {r}) = Notional[r] + SumOver(Notional, S)
    <3>1. S \cup {r} \in SUBSET Requests /\ (S \cup {r}) \ {r} = S
      BY <2>5 DEF ReservedFrom
    <3>2. \A q \in S \cup {r} : Notional[q] \in Int
      BY <3>1, CanaryAssumption
    <3>3. QED
      BY <2>7, <3>1, <3>2, SumWithout
  <2>9. orders'[c] = Cardinality(S) + 1 /\ notional'[c] = SumOver(Notional, S) + Notional[r]
    BY <2>1, <2>3, <2>6
  <2>10. Notional[r] \in Nat /\ SumOver(Notional, S) \in Nat
    BY <2>3, <2>6, CanaryAssumption
  <2>11. notional'[c] = SumOver(Notional, S \cup {r})
    BY <2>8, <2>9, <2>10
  <2>12. QED
    BY <2>4, <2>5, <2>7, <2>9, <2>11 DEF Counted
<1>3. CASE \E r \in Requests : Refuse(r)
  BY <1>1, <1>3 DEF Refuse
<1>4. CASE \E a \in Accounts : Close({a}) \/ CloseExpired(a)
  BY <1>1, <1>4 DEF Close, CloseExpired
<1>5. CASE Close(Accounts)
  BY <1>1, <1>5 DEF Close
<1>6. CASE \E c \in Canaries : Create(c) \/ Expire(c)
  BY <1>1, <1>6 DEF Create, Expire
<1>7. CASE \E pass \in BOOLEAN : MarkReadiness(pass)
  BY <1>1, <1>7 DEF MarkReadiness
<1>8. QED
  BY <1>1, <1>2, <1>3, <1>4, <1>5, <1>6, <1>7 DEF CanaryNext, canaryVars

\* The counters of a canary are what its usage rows add up to, whatever is closed,
\* refused, expires or is asked for again.
THEOREM AccountedExactly == CanarySpec => []ExactAccounting
<1>1. CanaryInv /\ Counted /\ [CanaryNext]_canaryVars => Counted'
  BY CountedStep DEF CanaryInv
<1>2. Counted => ExactAccounting
  BY NotionalSum DEF Counted, ExactAccounting
<1>3. QED
  BY <1>1, <1>2, CountedFirst, CanaryInductive, PTL DEF CanarySpec

\* A reservation comes from the oldest canary of the account and scope that has room for
\* the request: an older one had expired or had none, and is closed in the same
\* transaction.
THEOREM ReservesOldest == CanarySpec => ReservedRightly
<1> DEFINE Right(r) == LET c == usage'[r]
         IN /\ status[c] = "ACTIVE" /\ c \notin expired /\ Fits(c, r)
            /\ AccountOf[c] = Owner[r] /\ Topic[r] \in Scope[c]
            /\ \A d \in Canaries :
                 d # c /\ status[d] = "ACTIVE" /\ AccountOf[d] = Owner[r] /\ Age[d] < Age[c]
                 /\ Topic[r] \in Scope[d] =>
                      (d \in expired \/ ~Fits(d, r)) /\ status'[d] = "CLOSED"
<1>1. CanaryInv /\ [CanaryNext]_canaryVars => [\A r \in Requests : usage'[r] # usage[r] => Right(r)]_canaryVars
  <2> SUFFICES ASSUME CanaryInv, CanaryNext, NEW q \in Requests, usage'[q] # usage[q] PROVE Right(q)
    OBVIOUS
  <2>1. PICK r \in Requests : Authorize(r)
    BY DEF CanaryNext, MarkReadiness, Create, Expire, Refuse, Close, CloseExpired
  <2> DEFINE fitting == {c \in Candidates(r) : Fits(c, r)}
  <2>2. PICK c \in Canaries :
          /\ IsOldest(c, fitting)
          /\ usage' = [usage EXCEPT ![r] = c]
          /\ status' = Closing(ExpiredOf(Owner[r])
                               \cup {d \in Candidates(r) : Age[d] < Age[c]}
                               \cup {d \in {c} : Exhausts(c, r)})
    BY <2>1 DEF Authorize
  <2>3. q = r /\ usage'[r] = c
    BY <2>2 DEF CanaryInv, CanaryTypeOK
  <2>4. c \in Candidates(r) /\ Fits(c, r)
    BY <2>2 DEF IsOldest
  <2>5. /\ status[c] = "ACTIVE" /\ c \notin expired
        /\ AccountOf[c] = Owner[r] /\ Topic[r] \in Scope[c]
    BY <2>4 DEF Candidates, Active
  <2>6. ASSUME NEW d \in Canaries, status[d] = "ACTIVE", AccountOf[d] = Owner[r], Age[d] < Age[c],
               Topic[r] \in Scope[d]
        PROVE  (d \in expired \/ ~Fits(d, r)) /\ status'[d] = "CLOSED"
    <3>1. d \in Candidates(r) \/ d \in ExpiredOf(Owner[r])
      BY <2>6 DEF Candidates, ExpiredOf, Active
    <3>2. status'[d] = "CLOSED"
      BY <2>2, <2>6, <3>1 DEF Closing
    <3>3. ASSUME d \notin expired, Fits(d, r) PROVE FALSE
      <4>1. d \in fitting
        BY <2>6, <3>3 DEF Candidates, Active
      <4>2. Age[c] <= Age[d]
        BY <2>2, <4>1 DEF IsOldest
      <4>3. QED BY <2>6, <4>2, CanaryAssumption
    <3>4. QED BY <3>2, <3>3
  <2>7. QED
    BY <2>3, <2>4, <2>5, <2>6
<1>2. QED
  BY <1>1, CanaryInductive, PTL DEF CanarySpec, ReservedRightly

-----------------------------------------------------------------------------
(* The portfolio.                                                          *)

\* A weight that is a whole number of shares buys that number of shares.
LEMMA DivMul ==
    ASSUME NEW n \in Int, NEW c \in Nat \ {0}
    PROVE  (n * c) \div c = n
BY SMTT(30)

LEMMA DivInt ==
    ASSUME NEW n \in Int, NEW c \in Nat \ {0}
    PROVE  n \div c \in Int /\ (n >= 0 => n \div c >= 0)
BY SMT

\* The size of an entry is a whole non-negative weight.
LEMMA SizeNat ==
    ASSUME NEW k \in Nat, NEW s \in Symbols
    PROVE  Size(k, s) \in Nat
<1>1. Policy["risk"] \in Nat /\ Policy["single"] \in Nat /\ Stop[s] \in Nat \ {0}
  BY PortfolioAssumption DEF Limits
<1>2. Policy["risk"] \div Stop[s] \in Nat
  BY <1>1, DivInt
<1> QED
  BY <1>1, <1>2 DEF Size, MinOf

\* Weights of positions have the sign of the position.
LEMMA WeightInt ==
    ASSUME NEW pos \in Shares, NEW s \in Symbols
    PROVE  /\ Weights(pos)[s] = pos[s] * Price[s] /\ Weights(pos)[s] \in Int
           /\ pos[s] >= 0 => Weights(pos)[s] >= 0
<1>1. pos[s] \in Int /\ Price[s] \in Nat
  BY PortfolioAssumption DEF Shares
<1>2. pos[s] * Price[s] \in Int /\ (pos[s] >= 0 => pos[s] * Price[s] >= 0)
  BY <1>1, SMT
<1> QED
  BY <1>2 DEF Weights

\* Both targets a decision may end in leave every untouched position at its
\* weight and give every exit the weight zero.
LEMMA FinalShape ==
    ASSUME NEW m \in Markets, NEW pos \in Shares,
           NEW w, w = Wanted(m, pos) \/ w = Kept(m, pos), NEW s \in Symbols
    PROVE  /\ w[s] \in Int
           /\ pos[s] >= 0 => w[s] >= 0
           /\ s \in Exits(m, pos) => w[s] = 0
           /\ s \in Untouched(m, pos) => w[s] = pos[s] * Price[s]
           /\ w = Kept(m, pos) => s \in Exits(m, pos) \/ w[s] = pos[s] * Price[s]
<1>1. /\ Weights(pos)[s] = pos[s] * Price[s] /\ Weights(pos)[s] \in Int
      /\ pos[s] >= 0 => Weights(pos)[s] >= 0
  BY WeightInt
<1>2. m[s].kelly \in Nat
  BY PortfolioAssumption DEF Facts
<1>3. Size(m[s].kelly, s) \in Nat
  BY <1>2, SizeNat
<1>4. s \in Entries(m, pos) => s \notin Untouched(m, pos) /\ s \notin Exits(m, pos)
  BY DEF Entries, Untouched, Exits
<1>5. s \in Untouched(m, pos) => s \notin Exits(m, pos)
  BY DEF Untouched
<1>6. Wanted(m, pos)[s] = IF s \in Exits(m, pos) THEN 0
                          ELSE IF s \in Entries(m, pos) THEN Size(m[s].kelly, s)
                          ELSE Weights(pos)[s]
  BY DEF Wanted
<1>7. Kept(m, pos)[s] = IF s \in Exits(m, pos) THEN 0 ELSE Weights(pos)[s]
  BY DEF Kept
<1> QED
  BY <1>1, <1>3, <1>4, <1>5, <1>6, <1>7

\* The target in shares is not negative unless the position is, is nothing for an
\* exit, and never exceeds the position when the review failed.
LEMMA GoalShape ==
    ASSUME NEW m \in Markets, NEW pos \in Shares,
           NEW w, w = Wanted(m, pos) \/ w = Kept(m, pos),
           NEW lost \in SUBSET Untouched(m, pos)
    PROVE  /\ Goal(w, pos, lost) \in Shares
           /\ \A s \in Symbols : pos[s] >= 0 => Goal(w, pos, lost)[s] >= 0
           /\ \A s \in Exits(m, pos) : Goal(w, pos, lost)[s] = 0
           /\ w = Kept(m, pos) => \A s \in Symbols : Goal(w, pos, lost)[s] <= pos[s]
<1> DEFINE G == Goal(w, pos, lost)
<1>1. ASSUME NEW s \in Symbols
      PROVE  /\ G[s] \in Int
             /\ pos[s] >= 0 => G[s] >= 0
             /\ s \in Exits(m, pos) => G[s] = 0
             /\ w = Kept(m, pos) => G[s] <= pos[s]
  <2>1. Price[s] \in Nat \ {0} /\ pos[s] \in Int
    BY PortfolioAssumption DEF Shares
  <2>2. /\ w[s] \in Int /\ (pos[s] >= 0 => w[s] >= 0)
        /\ s \in Exits(m, pos) => w[s] = 0
        /\ s \in Untouched(m, pos) => w[s] = pos[s] * Price[s]
        /\ w = Kept(m, pos) => s \in Exits(m, pos) \/ w[s] = pos[s] * Price[s]
    BY FinalShape
  <2>3. w[s] \div Price[s] \in Int /\ (w[s] >= 0 => w[s] \div Price[s] >= 0)
    BY <2>1, <2>2, DivInt
  <2>4. w[s] = pos[s] * Price[s] => w[s] \div Price[s] = pos[s]
    BY <2>1, DivMul
  <2>5. w[s] = 0 => w[s] \div Price[s] = 0
    BY <2>1, SMT
  <2>6. s \in lost => pos[s] > 0 /\ s \notin Exits(m, pos) /\ s \in Untouched(m, pos)
    BY DEF Untouched
  <2>7. G[s] = w[s] \div Price[s] - (IF s \in lost THEN 1 ELSE 0)
    BY DEF Goal
  <2> DEFINE d == w[s] \div Price[s]
  <2>8. /\ d \in Int /\ (pos[s] >= 0 => d >= 0)
        /\ s \in Untouched(m, pos) => d = pos[s]
        /\ s \in Exits(m, pos) => d = 0
        /\ w = Kept(m, pos) => s \in Exits(m, pos) \/ d = pos[s]
    BY <2>2, <2>3, <2>4, <2>5
  <2>9. s \in Exits(m, pos) => pos[s] > 0
    BY DEF Exits
  <2> HIDE DEF d
  <2> QED
    BY <2>1, <2>6, <2>7, <2>8, <2>9 DEF d
<1>2. G = [s \in Symbols |-> G[s]]
  BY DEF Goal
<1>3. Exits(m, pos) \subseteq Symbols
  BY DEF Exits
<1> QED
  BY <1>1, <1>2, <1>3 DEF Shares

-----------------------------------------------------------------------------

\* What the review of a target checks that only grows with its weights.
Bounded(w) ==
    /\ Total(Leveraged(w), Symbols) <= Policy["gross"]
    /\ \A x \in Values("sector") : Total(w, Where("sector", x)) <= Policy["sector"]
    /\ \A pair \in Correlated : (\A s \in pair : w[s] > 0) => Total(w, pair) <= Policy["pair"]

LEMMA TotalGrows ==
    ASSUME NEW v, NEW w, NEW S \in SUBSET Symbols,
           \A s \in S : v[s] \in Int /\ w[s] \in Int /\ v[s] <= w[s]
    PROVE  Total(v, S) \in Int /\ Total(w, S) \in Int /\ Total(v, S) <= Total(w, S)
<1>1. IsFiniteSet(S)
  BY PortfolioAssumption, FS_Subset
<1> QED
  BY <1>1, SumGrows, FunctionSum DEF Total

LEMMA LeverageGrows ==
    ASSUME NEW a \in Int, NEW b \in Int, a <= b, NEW l \in Int
    PROVE  a * (IF l > 1 THEN l ELSE 1) \in Int /\ a * (IF l > 1 THEN l ELSE 1) <= b * (IF l > 1 THEN l ELSE 1)
<1>1. CASE l > 1
  <2>1. b - a >= 0 /\ (b - a) * l >= 0
    BY <1>1, SMT
  <2>2. (b - a) * l = b * l - a * l
    BY SMT
  <2> QED
    BY <1>1, <2>1, <2>2, SMT
<1>2. CASE ~(l > 1)
  BY <1>2
<1> QED
  BY <1>1, <1>2

\* Less of every symbol is within the same bounds.
LEMMA LessIsBounded ==
    ASSUME NEW v, NEW w, Bounded(w),
           \A s \in Symbols : v[s] \in Int /\ w[s] \in Int /\ v[s] <= w[s]
    PROVE  Bounded(v)
<1>1. Policy["gross"] \in Int /\ Policy["sector"] \in Int /\ Policy["pair"] \in Int
  BY PortfolioAssumption DEF Limits
<1>2. Total(Leveraged(v), Symbols) <= Policy["gross"]
  <2>1. \A s \in Symbols : /\ Leveraged(v)[s] \in Int /\ Leveraged(w)[s] \in Int
                           /\ Leveraged(v)[s] <= Leveraged(w)[s]
    <3> SUFFICES ASSUME NEW s \in Symbols
                 PROVE  /\ Leveraged(v)[s] \in Int /\ Leveraged(w)[s] \in Int
                        /\ Leveraged(v)[s] <= Leveraged(w)[s]
      OBVIOUS
    <3> DEFINE f == IF Info[s].leverage > 1 THEN Info[s].leverage ELSE 1
    <3>1. Info[s].leverage \in Int /\ v[s] \in Int /\ w[s] \in Int /\ v[s] <= w[s]
      BY PortfolioAssumption
    <3>2. v[s] * f \in Int /\ v[s] * f <= w[s] * f
      BY <3>1, LeverageGrows
    <3>3. w[s] * f \in Int
      BY <3>1, LeverageGrows
    <3> HIDE DEF f
    <3>4. Leveraged(v)[s] = v[s] * f /\ Leveraged(w)[s] = w[s] * f
      BY DEF Leveraged, f
    <3> QED
      BY <3>2, <3>3, <3>4
  <2>2. /\ Total(Leveraged(v), Symbols) \in Int /\ Total(Leveraged(w), Symbols) \in Int
        /\ Total(Leveraged(v), Symbols) <= Total(Leveraged(w), Symbols)
    BY <2>1, TotalGrows
  <2> QED
    BY <1>1, <2>2 DEF Bounded
<1>3. ASSUME NEW x \in Values("sector")
      PROVE  Total(v, Where("sector", x)) <= Policy["sector"]
  <2>1. Where("sector", x) \in SUBSET Symbols
    BY DEF Where
  <2>2. /\ Total(v, Where("sector", x)) \in Int /\ Total(w, Where("sector", x)) \in Int
        /\ Total(v, Where("sector", x)) <= Total(w, Where("sector", x))
    BY <2>1, TotalGrows
  <2> QED
    BY <1>1, <2>2 DEF Bounded
<1>4. ASSUME NEW pair \in Correlated, \A s \in pair : v[s] > 0
      PROVE  Total(v, pair) <= Policy["pair"]
  <2>1. pair \in SUBSET Symbols
    BY PortfolioAssumption
  <2>2. \A s \in pair : w[s] > 0
    BY <1>4, <2>1
  <2>3. Total(v, pair) \in Int /\ Total(w, pair) \in Int /\ Total(v, pair) <= Total(w, pair)
    BY <2>1, TotalGrows
  <2> QED
    BY <1>1, <2>2, <2>3 DEF Bounded
<1> QED
  BY <1>2, <1>3, <1>4 DEF Bounded

\* Whole shares never weigh more than the weight they were bought for.
LEMMA FloorBelow ==
    ASSUME NEW n \in Int, NEW c \in Nat \ {0}, NEW d \in {0, 1}
    PROVE  (n \div c - d) \in Int /\ (n \div c - d) * c <= n
<1>1. n \div c \in Int /\ (n \div c) * c <= n
  BY SMTT(30)
<1>2. (n \div c - d) * c = (n \div c) * c - d * c
  BY <1>1, SMTT(30)
<1>3. d * c >= 0
  BY SMT
<1> QED
  BY <1>1, <1>2, <1>3, SMT

\* The target in shares of a target that passed the review is within its bounds.
LEMMA PassedIsBounded ==
    ASSUME NEW m \in Markets, NEW pos \in Shares, NEW account, NEW power,
           Review(Wanted(m, pos), Entries(m, pos), account, power),
           NEW lost \in SUBSET Untouched(m, pos)
    PROVE  Bounded(Weights(Goal(Wanted(m, pos), pos, lost)))
<1> DEFINE w == Wanted(m, pos)
           G == Goal(w, pos, lost)
<1>1. Bounded(w)
  BY DEF Review, WithinExposures, Bounded
<1>2. ASSUME NEW s \in Symbols
      PROVE  Weights(G)[s] \in Int /\ w[s] \in Int /\ Weights(G)[s] <= w[s]
  <2>1. Price[s] \in Nat \ {0}
    BY PortfolioAssumption
  <2>2. w[s] \in Int
    BY FinalShape
  <2> DEFINE d == IF s \in lost THEN 1 ELSE 0
  <2>3. G[s] = w[s] \div Price[s] - d
    BY DEF Goal
  <2>4. d \in {0, 1}
    OBVIOUS
  <2> HIDE DEF w, d, G
  <2>5. G[s] \in Int /\ G[s] * Price[s] <= w[s]
    BY <2>1, <2>2, <2>3, <2>4, FloorBelow
  <2>6. Weights(G)[s] = G[s] * Price[s]
    BY DEF Weights
  <2>7. G[s] * Price[s] \in Int
    BY <2>1, <2>5, SMT
  <2> QED
    BY <2>2, <2>5, <2>6, <2>7
<1> QED
  BY <1>1, <1>2, LessIsBounded

-----------------------------------------------------------------------------

\* What a plan says of the orders it was made with.
PlanShape(r) ==
    /\ \A s \in Symbols : r.base[s] >= 0 => r.goal[s] >= 0
    /\ \A s \in Symbols : r.order[s] = r.goal[s] - r.base[s]
    /\ ~r.passed => \A s \in Symbols : r.order[s] <= 0
    /\ \A s \in r.exits : r.order[s] = -r.base[s]
    /\ r.passed => Bounded(Weights(r.goal))

ShapeInv ==
    /\ TypeOK
    /\ \A p \in Plans : PlanShape(plan[p])

Record == [status : {"none", "proposed", "sent", "done"}, mode : {"LIVE", "PAPER"},
           base : Shares, goal : Shares, order : Shares, left : Shares,
           passed : BOOLEAN, exits : SUBSET Symbols]

\* The record a decision persists.
LEMMA DecideRecord ==
    ASSUME TypeOK, NEW p \in Plans, NEW mode \in {"LIVE", "PAPER"}, NEW contract \in BOOLEAN,
           NEW m \in Markets, NEW power \in Powers, Decide(p, mode, contract, m, power)
    PROVE  \E r \in Record : /\ plan' = [plan EXCEPT ![p] = r]
                             /\ PlanShape(r) /\ r.left = r.order
                             /\ r.status = "proposed" /\ r.mode = mode
                             /\ r.base = Seen(contract)
<1> DEFINE pos == Seen(contract)
           want == Wanted(m, pos)
           ok == Review(want, Entries(m, pos), Account(contract), power)
           final == IF ok THEN want ELSE Kept(m, pos)
<1>1. PICK lost \in SUBSET Untouched(m, pos) :
         plan' = [plan EXCEPT ![p] =
           [status |-> "proposed", mode |-> mode, base |-> pos,
            goal |-> Goal(final, pos, lost), order |-> Orders(Goal(final, pos, lost), pos),
            left |-> Orders(Goal(final, pos, lost), pos),
            passed |-> ok, exits |-> Exits(m, pos)]]
  BY DEF Decide
<1> DEFINE goal == Goal(final, pos, lost)
           order == Orders(goal, pos)
           r == [status |-> "proposed", mode |-> mode, base |-> pos, goal |-> goal,
                 order |-> order, left |-> order, passed |-> ok, exits |-> Exits(m, pos)]
<1>2. pos \in Shares
  BY DEF Seen, Nothing, TypeOK, Shares
<1>3. final = Wanted(m, pos) \/ final = Kept(m, pos)
  OBVIOUS
<1>4. /\ goal \in Shares
      /\ \A s \in Symbols : pos[s] >= 0 => goal[s] >= 0
      /\ \A s \in Exits(m, pos) : goal[s] = 0
      /\ final = Kept(m, pos) => \A s \in Symbols : goal[s] <= pos[s]
  <2> HIDE DEF final, pos
  <2> QED BY <1>2, <1>3, GoalShape
<1>5. ~ok => final = Kept(m, pos)
  OBVIOUS
<1>12. ok => Bounded(Weights(goal))
  <2>1. ok => final = want
    OBVIOUS
  <2> QED
    BY <1>2, <2>1, PassedIsBounded
<1>6. ok \in BOOLEAN
  BY DEF Review
<1>7. Exits(m, pos) \subseteq Symbols
  BY DEF Exits
<1> HIDE DEF pos, goal, ok, final
<1>8. \A s \in Symbols : order[s] = goal[s] - pos[s]
  BY <1>2, <1>4 DEF Orders, Pending, Nothing, Shares
<1>9. order \in Shares
  BY <1>2, <1>4 DEF Orders, Pending, Nothing, Shares
<1>10. r \in Record
  BY <1>2, <1>4, <1>6, <1>7, <1>9 DEF Record, Shares
<1> HIDE DEF order
<1>11. PlanShape(r)
  <2>1. \A s \in Symbols : pos[s] \in Int /\ goal[s] \in Int
    BY <1>2, <1>4 DEF Shares
  <2>2. ~ok => \A s \in Symbols : order[s] <= 0
    BY <2>1, <1>4, <1>5, <1>8
  <2>3. \A s \in Exits(m, pos) : order[s] = -pos[s]
    BY <2>1, <1>4, <1>7, <1>8
  <2> QED
    BY <2>2, <2>3, <1>4, <1>8, <1>12 DEF PlanShape
<1> QED
  BY <1>1, <1>10, <1>11 DEF pos, goal, ok, final, order

-----------------------------------------------------------------------------

LEMMA InitShape == Init => ShapeInv
<1> SUFFICES ASSUME Init PROVE ShapeInv
  OBVIOUS
<1>1. held \in Shares
  BY PortfolioAssumption DEF Init, Shares
<1>2. Nothing \in Shares
  BY DEF Nothing, Shares
<1>3. TypeOK
  BY <1>1, <1>2 DEF Init, TypeOK, NoPlan, Shares
<1>4. PlanShape(NoPlan)
  BY DEF PlanShape, NoPlan, Nothing
<1> QED
  BY <1>1, <1>3, <1>4 DEF Init, ShapeInv

\* Steps that change nothing of a plan but its status or what is left of it.
LEMMA KeepShape ==
    ASSUME ShapeInv, TypeOK',
           \A p \in Plans : /\ plan'[p].base = plan[p].base
                            /\ plan'[p].goal = plan[p].goal
                            /\ plan'[p].order = plan[p].order
                            /\ plan'[p].passed = plan[p].passed
                            /\ plan'[p].exits = plan[p].exits
    PROVE  ShapeInv'
BY DEF ShapeInv, PlanShape

LEMMA TowardInt ==
    ASSUME NEW n \in Int PROVE Toward(n) \in Int
BY DEF Toward

LEMMA NextShape ==
    ASSUME ShapeInv, [Next]_vars
    PROVE  ShapeInv'
<1> USE DEF ShapeInv
<1>1. CASE Sync
  <2>1. TypeOK'
    BY <1>1 DEF Sync, TypeOK
  <2> QED BY <1>1, <2>1, KeepShape DEF Sync
<1>2. CASE SyncFails
  <2>1. TypeOK'
    BY <1>2 DEF SyncFails, TypeOK
  <2> QED BY <1>2, <2>1, KeepShape DEF SyncFails
<1>3. ASSUME NEW p \in Plans, NEW mode \in {"LIVE", "PAPER"}, NEW contract \in BOOLEAN,
             NEW m \in Markets, NEW power \in Powers, Decide(p, mode, contract, m, power)
      PROVE  ShapeInv'
  <2>1. PICK r \in Record : plan' = [plan EXCEPT ![p] = r] /\ PlanShape(r)
    BY <1>3, DecideRecord
  <2>2. UNCHANGED <<held, snap, synced>>
    BY <1>3 DEF Decide
  <2>3. TypeOK'
    BY <2>1, <2>2 DEF TypeOK, Record
  <2>4. \A q \in Plans : plan'[q] = IF q = p THEN r ELSE plan[q]
    BY <2>1 DEF TypeOK
  <2>5. \A q \in Plans : PlanShape(plan'[q])
    BY <2>1, <2>4
  <2> QED
    BY <2>2, <2>3, <2>5 DEF PlanShape
<1>4. ASSUME NEW p \in Plans, NEW power \in Powers, Send(p, power)
      PROVE  ShapeInv'
  <2>1. PICK x \in {"sent", "done"} : plan' = [plan EXCEPT ![p].status = x]
    BY <1>4 DEF Send
  <2>2. TypeOK'
    BY <1>4, <2>1 DEF Send, TypeOK
  <2> QED BY <1>4, <2>1, <2>2, KeepShape DEF Send, TypeOK
<1>5. ASSUME NEW p \in Plans, NEW s \in Symbols, Fill(p, s)
      PROVE  ShapeInv'
  <2>1. plan[p].left \in Shares /\ held \in Shares
    BY DEF TypeOK
  <2>2. Toward(plan[p].left[s]) \in Int
    BY <2>1, TowardInt DEF Shares
  <2>3. held' \in Shares
    BY <1>5, <2>1, <2>2 DEF Fill, Shares
  <2> DEFINE l == [plan[p].left EXCEPT ![s] = @ - Toward(plan[p].left[s])]
  <2>4. l \in Shares
    BY <2>1, <2>2 DEF Shares
  <2>5. plan' = [plan EXCEPT ![p].left = l]
    BY <1>5 DEF Fill
  <2> HIDE DEF l
  <2>6. TypeOK'
    BY <1>5, <2>3, <2>4, <2>5 DEF Fill, TypeOK
  <2> QED BY <1>5, <2>5, <2>6, KeepShape DEF Fill, TypeOK
<1>6. ASSUME NEW p \in Plans, End(p)
      PROVE  ShapeInv'
  <2>1. TypeOK'
    BY <1>6 DEF End, TypeOK
  <2> QED BY <1>6, <2>1, KeepShape DEF End, TypeOK
<1>7. CASE UNCHANGED vars
  <2>1. TypeOK'
    BY <1>7 DEF vars, TypeOK
  <2> QED BY <1>7, <2>1, KeepShape DEF vars
<1> QED
  BY <1>1, <1>2, <1>3, <1>4, <1>5, <1>6, <1>7 DEF Next

\* The orders of a decision are the differences it found, for whatever way the
\* steps interleave.
THEOREM PlanShapes == Spec => []ShapeInv
<1>1. ShapeInv /\ [Next]_vars => ShapeInv'
  BY NextShape
<1> QED
  BY InitShape, <1>1, PTL DEF Spec

\* The holdings, the snapshot and the plans keep their types.
THEOREM TypeCorrect == Spec => []TypeOK
<1>1. ShapeInv => TypeOK
  BY DEF ShapeInv
<1> QED
  BY PlanShapes, <1>1, PTL

\* A decision that failed the review buys nothing.
THEOREM FailedReviewBuysNothing == Spec => []FailedReviewOnlyReduces
<1>1. ShapeInv => FailedReviewOnlyReduces
  BY DEF ShapeInv, PlanShape, FailedReviewOnlyReduces
<1> QED
  BY PlanShapes, <1>1, PTL

\* A position whose exit was signalled is sold to the last share.
THEOREM ExitsAreSold == Spec => []ExitSells
<1>1. ShapeInv => ExitSells
  BY DEF ShapeInv, PlanShape, ExitSells
<1> QED
  BY PlanShapes, <1>1, PTL

-----------------------------------------------------------------------------

\* When decisions do not overlap: the plan that is out is the only one, and what
\* is held, with what is left of it, is its target.
OneOut == \A p, q \in Plans : Out(p) /\ Out(q) => p = q

Progress(p) ==
    \A s \in Symbols :
        /\ plan[p].base[s] >= 0
        /\ held[s] + plan[p].left[s] = plan[p].goal[s]
        /\ \/ 0 <= plan[p].left[s] /\ plan[p].left[s] <= plan[p].order[s]
           \/ plan[p].order[s] <= plan[p].left[s] /\ plan[p].left[s] <= 0

ProgressInv ==
    /\ ShapeInv
    /\ NeverShort /\ \A s \in Symbols : snap[s] >= 0
    /\ OneOut
    /\ \A p \in Plans : Out(p) => Progress(p)

LEMMA InitProgress == Init => ProgressInv
<1> SUFFICES ASSUME Init PROVE ProgressInv
  OBVIOUS
<1>1. ShapeInv
  BY InitShape
<1>2. held \in [Symbols -> Nat] /\ snap = held
  BY PortfolioAssumption DEF Init
<1>3. \A p \in Plans : ~Out(p)
  BY DEF Init, Out, NoPlan
<1> QED
  BY <1>1, <1>2, <1>3 DEF ProgressInv, NeverShort, OneOut

LEMMA NextProgress ==
    ASSUME Overlap = FALSE, ProgressInv, [Next]_vars
    PROVE  ProgressInv'
<1> USE DEF ProgressInv
<1>1. ShapeInv'
  BY NextShape
<1>2. CASE Sync
  BY <1>1, <1>2 DEF Sync, NeverShort, OneOut, Out, Live, Progress
<1>3. CASE SyncFails
  BY <1>1, <1>3 DEF SyncFails, NeverShort, OneOut, Out, Live, Progress
<1>4. ASSUME NEW p \in Plans, NEW mode \in {"LIVE", "PAPER"}, NEW contract \in BOOLEAN,
             NEW m \in Markets, NEW power \in Powers, Decide(p, mode, contract, m, power)
      PROVE  ProgressInv'
  <2>1. PICK r \in Record : /\ plan' = [plan EXCEPT ![p] = r]
                            /\ PlanShape(r) /\ r.left = r.order
                            /\ r.status = "proposed" /\ r.mode = mode
                            /\ r.base = Seen(contract)
    BY <1>4, DecideRecord DEF ShapeInv
  <2>2. UNCHANGED <<held, snap, synced>> /\ MayDecide(p, mode) /\ plan[p].status = "none"
    BY <1>4 DEF Decide, MayDecide
  <2>3. \A q \in Plans : plan'[q] = IF q = p THEN r ELSE plan[q]
    BY <2>1 DEF ShapeInv, TypeOK
  <2>4. mode = "LIVE" => snap = held /\ Seen(contract) = held /\ \A q \in Plans : ~Out(q)
    BY <2>2 DEF MayDecide, Seen, Account
  <2>5. OneOut'
    BY <2>1, <2>3, <2>4 DEF OneOut, Out, Live
  <2>6. ASSUME NEW q \in Plans, Out(q)'
        PROVE  Progress(q)'
    <3>1. CASE q = p
      <4>1. mode = "LIVE"
        BY <3>1, <2>1, <2>3, <2>6 DEF Out, Live
      <4>2. r.base = held /\ held \in Shares /\ r.goal \in Shares /\ r.order \in Shares
        BY <4>1, <2>1, <2>4 DEF ShapeInv, TypeOK, Record
      <4>3. \A s \in Symbols : r.order[s] = r.goal[s] - r.base[s]
        BY <2>1 DEF PlanShape
      <4>4. \A s \in Symbols : held[s] \in Int /\ r.goal[s] \in Int /\ r.order[s] \in Int
        BY <4>2 DEF Shares
      <4> QED
        BY <3>1, <2>1, <2>2, <2>3, <4>2, <4>3, <4>4 DEF Progress, NeverShort
    <3>2. CASE q # p
      BY <3>2, <2>2, <2>3, <2>6 DEF Out, Live, Progress
    <3> QED BY <3>1, <3>2
  <2> QED
    BY <1>1, <2>2, <2>5, <2>6 DEF NeverShort
<1>5. ASSUME NEW p \in Plans, NEW power \in Powers, Send(p, power)
      PROVE  ProgressInv'
  <2>1. PICK x \in {"sent", "done"} : plan' = [plan EXCEPT ![p].status = x]
    BY <1>5 DEF Send
  <2>2. \A q \in Plans : /\ plan'[q].base = plan[q].base /\ plan'[q].goal = plan[q].goal
                         /\ plan'[q].order = plan[q].order /\ plan'[q].left = plan[q].left
                         /\ Out(q)' => Out(q)
    BY <1>5, <2>1 DEF Send, ShapeInv, TypeOK, Out, Live
  <2> QED
    BY <1>1, <1>5, <2>2 DEF Send, NeverShort, OneOut, Progress
<1>6. ASSUME NEW p \in Plans, NEW x \in Symbols, Fill(p, x)
      PROVE  ProgressInv'
  <2>1. Out(p) /\ Progress(p) /\ plan[p].left[x] # 0
    BY <1>6 DEF Fill, Out, Live
  <2>2. held \in Shares /\ plan[p] \in Record
    BY DEF ShapeInv, TypeOK, Record
  <2>3. /\ held' = [held EXCEPT ![x] = @ + Toward(plan[p].left[x])]
        /\ plan' = [plan EXCEPT ![p].left[x] = @ - Toward(plan[p].left[x])]
        /\ snap' = snap
    BY <1>6 DEF Fill
  <2>4. /\ \A q \in Plans : /\ plan'[q].base = plan[q].base /\ plan'[q].goal = plan[q].goal
                            /\ plan'[q].order = plan[q].order
                            /\ Out(q)' <=> Out(q)
        /\ \A s \in Symbols : plan'[p].left[s] =
              IF s = x THEN plan[p].left[s] - Toward(plan[p].left[s]) ELSE plan[p].left[s]
        /\ \A s \in Symbols : held'[s] =
              IF s = x THEN held[s] + Toward(plan[p].left[s]) ELSE held[s]
    BY <2>2, <2>3 DEF ShapeInv, TypeOK, Out, Live, Record, Shares
  <2>5. \A q \in Plans : Out(q) => q = p
    BY <2>1 DEF OneOut
  <2>6. \A s \in Symbols : /\ held[s] \in Int /\ plan[p].left[s] \in Int
                           /\ plan[p].goal[s] \in Int /\ plan[p].order[s] \in Int
                           /\ plan[p].base[s] \in Int
    BY <2>2 DEF Record, Shares
  <2>7. Progress(p)'
    BY <2>1, <2>4, <2>6 DEF Progress, Toward
  <2>8. \A s \in Symbols : plan[p].goal[s] >= 0
    BY <2>1 DEF Progress, ShapeInv, PlanShape
  <2>9. NeverShort'
    BY <2>1, <2>4, <2>6, <2>8 DEF Progress, Toward, NeverShort
  <2> QED
    BY <1>1, <2>3, <2>4, <2>5, <2>7, <2>9 DEF OneOut
<1>7. ASSUME NEW p \in Plans, End(p)
      PROVE  ProgressInv'
  <2>1. \A q \in Plans : /\ plan'[q].base = plan[q].base /\ plan'[q].goal = plan[q].goal
                         /\ plan'[q].order = plan[q].order /\ plan'[q].left = plan[q].left
                         /\ Out(q)' => Out(q)
    BY <1>7 DEF End, ShapeInv, TypeOK, Out, Live
  <2> QED
    BY <1>1, <1>7, <2>1 DEF End, NeverShort, OneOut, Progress
<1>8. CASE UNCHANGED vars
  BY <1>1, <1>8 DEF vars, NeverShort, OneOut, Out, Live, Progress
<1> QED
  BY <1>2, <1>3, <1>4, <1>5, <1>6, <1>7, <1>8 DEF Next

\* When a decision waits for the plan before it and for a sync, the fills of a
\* sale never exceed what is held.
THEOREM NoShortSale ==
    ASSUME Overlap = FALSE
    PROVE  Spec => []NeverShort
<1>1. ProgressInv /\ [Next]_vars => ProgressInv'
  BY NextProgress
<1>2. ProgressInv => NeverShort
  BY DEF ProgressInv
<1> QED
  BY InitProgress, <1>1, <1>2, PTL DEF Spec

\* No holding passes its target or moves away from it while such a plan is carried out.
THEOREM OnTheWay ==
    ASSUME Overlap = FALSE
    PROVE  Spec => []BetweenBaseAndGoal
<1>1. ProgressInv /\ [Next]_vars => ProgressInv'
  BY NextProgress
<1>2. ProgressInv => BetweenBaseAndGoal
  <2> SUFFICES ASSUME ProgressInv, NEW p \in Plans, Live(p), plan[p].status = "sent",
                      NEW s \in Symbols
               PROVE  \/ plan[p].base[s] <= held[s] /\ held[s] <= plan[p].goal[s]
                      \/ plan[p].base[s] >= held[s] /\ held[s] >= plan[p].goal[s]
    BY DEF BetweenBaseAndGoal
  <2>1. Progress(p) /\ plan[p].order[s] = plan[p].goal[s] - plan[p].base[s]
    BY DEF ProgressInv, ShapeInv, PlanShape, Out
  <2>2. /\ held[s] \in Int /\ plan[p].left[s] \in Int /\ plan[p].goal[s] \in Int
        /\ plan[p].order[s] \in Int /\ plan[p].base[s] \in Int
    BY DEF ProgressInv, ShapeInv, TypeOK, Shares
  <2> QED
    BY <2>1, <2>2 DEF Progress
<1> QED
  BY InitProgress, <1>1, <1>2, PTL DEF Spec
-----------------------------------------------------------------------------

\* Plans are decided in order, the plan that is out is the last one decided for
\* LIVE, and what is held is the target of that one but for what is left of it,
\* also when it was cancelled.
InOrder == \A p, q \in Plans : p < q /\ plan[q].status # "none" => plan[p].status # "none"
OutIsLast == \A p \in Plans : Out(p) => Last(p)
Reached(p) == \A s \in Symbols : held[s] + plan[p].left[s] = plan[p].goal[s]
LastInv == InOrder /\ OutIsLast /\ \A p \in Plans : Last(p) => Reached(p)

LEMMA InitLast == Init => LastInv
BY DEF Init, LastInv, InOrder, OutIsLast, Last, Out, NoPlan

\* Two plans are never both the last.
LEMMA OneLast ==
    ASSUME NEW p \in Plans, NEW q \in Plans, Last(p), Last(q)
    PROVE  p = q
<1>1. p \in Nat /\ q \in Nat
  BY PortfolioAssumption
<1>2. ~(p < q) /\ ~(q < p)
  BY DEF Last
<1> QED
  BY <1>1, <1>2

\* A step that keeps the mode of every plan, decides none and leaves the holdings.
LEMMA KeepLast ==
    ASSUME LastInv,
           \A p \in Plans : /\ plan'[p].mode = plan[p].mode
                            /\ plan'[p].status = "none" <=> plan[p].status = "none"
                            /\ Out(p)' => Out(p)
    PROVE  /\ InOrder' /\ OutIsLast'
           /\ \A p \in Plans : Last(p)' <=> Last(p)
BY DEF LastInv, InOrder, OutIsLast, Last, Out, Live

LEMMA NextLast ==
    ASSUME Overlap = FALSE, ShapeInv, LastInv, [Next]_vars
    PROVE  LastInv'
<1> USE DEF ShapeInv
<1>1. CASE Sync \/ SyncFails \/ UNCHANGED vars
  BY <1>1 DEF Sync, SyncFails, vars, LastInv, InOrder, OutIsLast, Last, Out, Live, Reached
<1>2. ASSUME NEW p \in Plans, NEW mode \in {"LIVE", "PAPER"}, NEW contract \in BOOLEAN,
             NEW m \in Markets, NEW power \in Powers, Decide(p, mode, contract, m, power)
      PROVE  LastInv'
  <2>1. PICK r \in Record : /\ plan' = [plan EXCEPT ![p] = r]
                            /\ PlanShape(r) /\ r.left = r.order
                            /\ r.status = "proposed" /\ r.mode = mode
                            /\ r.base = Seen(contract)
    BY <1>2, DecideRecord
  <2>2. /\ UNCHANGED <<held, snap, synced>> /\ plan[p].status = "none"
        /\ \A q \in Plans : q < p => plan[q].status # "none"
        /\ mode = "LIVE" => Seen(contract) = held /\ \A q \in Plans : ~Out(q)
    BY <1>2 DEF Decide, MayDecide, Seen, Account
  <2>3. \A q \in Plans : plan'[q] = IF q = p THEN r ELSE plan[q]
    BY <2>1 DEF TypeOK
  <2>4. \A q \in Plans : q > p => plan[q].status = "none"
    BY <2>2 DEF LastInv, InOrder
  <2>5. InOrder'
    <3>1. \A q \in Plans : q \in Nat
      BY PortfolioAssumption
    <3> QED
      BY <2>1, <2>2, <2>3, <2>4, <3>1 DEF LastInv, InOrder
  <2>6. ASSUME mode = "LIVE" PROVE Last(p)' /\ Reached(p)'
    <3>1. Last(p)'
      <4>1. \A q \in Plans : q > p => q # p
        BY PortfolioAssumption
      <4> QED
        BY <2>1, <2>3, <2>4, <2>6, <4>1 DEF Last, Live
    <3>2. held \in Shares /\ r.goal \in Shares /\ r.order \in Shares /\ r.base = held
      BY <2>1, <2>2, <2>6 DEF TypeOK, Record
    <3>3. \A s \in Symbols : r.order[s] = r.goal[s] - r.base[s]
      BY <2>1 DEF PlanShape
    <3>4. \A s \in Symbols : held[s] + r.left[s] = r.goal[s]
      BY <2>1, <3>2, <3>3 DEF Shares
    <3> QED
      BY <2>2, <2>3, <3>1, <3>4 DEF Reached
  <2>7. ASSUME NEW q \in Plans, Last(q)' PROVE q = p \/ (q # p /\ mode # "LIVE" /\ Last(q))
    <3>1. CASE q = p
      BY <3>1
    <3>2. CASE q # p /\ mode = "LIVE"
      <4>1. Last(p)' /\ Last(q)'
        BY <2>6, <2>7, <3>2
      <4>2. p \in Nat /\ q \in Nat /\ ~(p < q) /\ ~(q < p)
        BY <4>1, PortfolioAssumption DEF Last
      <4> QED
        BY <3>2, <4>2
    <3>3. CASE q # p /\ mode # "LIVE"
      BY <2>1, <2>2, <2>3, <2>7, <3>3 DEF Last, Live
    <3> QED
      BY <3>1, <3>2, <3>3
  <2>8. \A q \in Plans : Last(q)' => Reached(q)'
    <3> SUFFICES ASSUME NEW q \in Plans, Last(q)' PROVE Reached(q)'
      OBVIOUS
    <3>1. CASE q = p
      <4>1. mode = "LIVE"
        BY <3>1, <2>1, <2>3 DEF Last, Live
      <4> QED
        BY <3>1, <4>1, <2>6
    <3>2. CASE q # p
      BY <2>2, <2>3, <2>7, <3>2 DEF LastInv, Reached
    <3> QED
      BY <3>1, <3>2
  <2>9. OutIsLast'
    <3> SUFFICES ASSUME NEW q \in Plans, Out(q)' PROVE Last(q)'
      BY DEF OutIsLast
    <3>1. CASE q = p
      <4>1. mode = "LIVE"
        BY <3>1, <2>1, <2>3 DEF Out, Live
      <4> QED
        BY <3>1, <4>1, <2>6
    <3>2. CASE q # p
      <4>1. Out(q) /\ mode # "LIVE"
        BY <3>2, <2>2, <2>3 DEF Out, Live
      <4>2. Last(q)
        BY <4>1 DEF LastInv, OutIsLast
      <4> QED
        BY <2>1, <2>3, <3>2, <4>1, <4>2 DEF Last, Live
    <3> QED
      BY <3>1, <3>2
  <2> QED
    BY <2>5, <2>8, <2>9 DEF LastInv
<1>3. ASSUME NEW p \in Plans, NEW x \in {"sent", "done"}, plan[p].status \in {"proposed", "sent"},
             plan[p].status = "proposed" \/ x = "done",
             plan' = [plan EXCEPT ![p].status = x], UNCHANGED held
      PROVE  LastInv'
  <2>1. plan \in [Plans -> Record]
    BY DEF TypeOK, Record
  <2>2. \A q \in Plans : /\ plan'[q].mode = plan[q].mode
                         /\ plan'[q].left = plan[q].left /\ plan'[q].goal = plan[q].goal
                         /\ plan'[q].status = IF q = p THEN x ELSE plan[q].status
    BY <1>3, <2>1 DEF Record
  <2>3. \A q \in Plans : plan'[q].status = "none" <=> plan[q].status = "none"
    BY <1>3, <2>2
  <2>4. \A q \in Plans : Out(q)' => Out(q)
    BY <1>3, <2>2 DEF Out, Live
  <2>5. InOrder' /\ OutIsLast' /\ \A q \in Plans : Last(q)' <=> Last(q)
    BY <2>2, <2>3, <2>4, KeepLast
  <2> QED
    BY <1>3, <2>2, <2>5 DEF LastInv, Reached
<1>4. CASE \E p \in Plans : End(p)
  BY <1>3, <1>4 DEF End
<1>5. ASSUME NEW p \in Plans, NEW power \in Powers, Send(p, power)
      PROVE  LastInv'
  <2>1. PICK x \in {"sent", "done"} : plan' = [plan EXCEPT ![p].status = x]
    BY <1>5 DEF Send
  <2> QED
    BY <1>3, <1>5, <2>1 DEF Send
<1>6. ASSUME NEW p \in Plans, NEW x \in Symbols, Fill(p, x)
      PROVE  LastInv'
  <2>1. plan \in [Plans -> Record]
    BY DEF TypeOK, Record
  <2>2. plan[p] \in Record /\ held \in Shares
    BY DEF TypeOK, Record
  <2>3. /\ held' = [held EXCEPT ![x] = @ + Toward(plan[p].left[x])]
        /\ plan' = [plan EXCEPT ![p].left[x] = @ - Toward(plan[p].left[x])]
    BY <1>6 DEF Fill
  <2>4. \A q \in Plans : /\ plan'[q].mode = plan[q].mode /\ plan'[q].status = plan[q].status
                         /\ plan'[q].goal = plan[q].goal
    BY <2>1, <2>3 DEF Record
  <2>5. \A q \in Plans \ {p} : plan'[q] = plan[q]
    BY <2>1, <2>3
  <2>6. \A s \in Symbols :
           /\ plan'[p].left[s] =
                 IF s = x THEN plan[p].left[s] - Toward(plan[p].left[s]) ELSE plan[p].left[s]
           /\ held'[s] = IF s = x THEN held[s] + Toward(plan[p].left[s]) ELSE held[s]
    BY <2>1, <2>2, <2>3 DEF Record, Shares
  <2>7. \A q \in Plans : Out(q)' <=> Out(q)
    BY <2>4 DEF Out, Live
  <2>8. InOrder' /\ OutIsLast' /\ \A q \in Plans : Last(q)' <=> Last(q)
    <3>1. \A q \in Plans : plan'[q].status = "none" <=> plan[q].status = "none"
      BY <2>4
    <3>2. \A q \in Plans : Out(q)' => Out(q)
      BY <2>7
    <3> QED
      BY <2>4, <3>1, <3>2, KeepLast
  <2>9. Last(p)
    BY <1>6 DEF Fill, Out, Live, LastInv, OutIsLast
  <2>10. \A q \in Plans : Last(q)' => q = p
    BY <2>8, <2>9, OneLast
  <2>11. \A s \in Symbols : /\ held[s] \in Int /\ plan[p].left[s] \in Int
                            /\ Toward(plan[p].left[s]) \in Int
    BY <2>2, TowardInt DEF Record, Shares
  <2>12. Reached(p)'
    <3>1. Reached(p) /\ plan'[p].goal = plan[p].goal
      BY <2>4, <2>9 DEF LastInv
    <3> SUFFICES ASSUME NEW s \in Symbols
                 PROVE  held'[s] + plan'[p].left[s] = plan'[p].goal[s]
      BY DEF Reached
    <3>2. held[s] + plan[p].left[s] = plan[p].goal[s]
      BY <3>1 DEF Reached
    <3>3. CASE s = x
      BY <2>6, <2>11, <3>1, <3>2, <3>3
    <3>4. CASE s # x
      BY <2>6, <3>1, <3>2, <3>4
    <3> QED
      BY <3>3, <3>4
  <2> QED
    BY <2>8, <2>10, <2>12 DEF LastInv
<1> QED
  BY <1>1, <1>2, <1>4, <1>5, <1>6 DEF Next

LEMMA LessTimes ==
    \A a, b \in Int, c \in Nat \ {0} :
        a * c \in Int /\ (a <= b => a * c <= b * c) /\ (a > 0 => a * c > 0)
<1> SUFFICES ASSUME NEW a \in Int, NEW b \in Int, NEW c \in Nat \ {0}
             PROVE  a * c \in Int /\ (a <= b => a * c <= b * c) /\ (a > 0 => a * c > 0)
  OBVIOUS
<1>1. (b - a) * c = b * c - a * c
  BY SMT
<1>2. a <= b => (b - a) * c >= 0
  BY SMT
<1>3. a > 0 => a * c > 0
  BY SMT
<1> QED
  BY <1>1, <1>2, <1>3, SMT

\* When the last decision passed and nothing is out, what is held is within the gross,
\* sector and pair limits of the policy, however far each order got, as long as every
\* sale was filled: the holdings are no more than a target that was reviewed.
THEOREM SettledIsWithinPolicy ==
    ASSUME Overlap = FALSE
    PROVE  Spec => []SettledWithinPolicy
<1>1. ShapeInv /\ LastInv /\ [Next]_vars => LastInv'
  BY NextLast
<1>2. ShapeInv /\ LastInv => SettledWithinPolicy
  <2> SUFFICES ASSUME ShapeInv, LastInv, NEW p \in Plans, Last(p), plan[p].passed,
                      \A s \in Symbols : plan[p].left[s] >= 0
               PROVE  /\ Total(Leveraged(Weights(held)), Symbols) <= Policy["gross"]
                      /\ \A x \in Values("sector") :
                            Total(Weights(held), Where("sector", x)) <= Policy["sector"]
                      /\ \A pair \in Correlated :
                            (\A s \in pair : held[s] > 0)
                                => Total(Weights(held), pair) <= Policy["pair"]
    BY DEF SettledWithinPolicy, Last
  <2>1. Bounded(Weights(plan[p].goal))
    BY DEF ShapeInv, PlanShape
  <2>2. held \in Shares /\ plan[p].goal \in Shares /\ plan[p].left \in Shares
    BY DEF ShapeInv, TypeOK
  <2>3. \A s \in Symbols : /\ held[s] \in Int /\ plan[p].goal[s] \in Int /\ held[s] <= plan[p].goal[s]
                           /\ Price[s] \in Nat \ {0}
    BY <2>2, PortfolioAssumption DEF LastInv, Reached, Shares
  <2>4. \A s \in Symbols : /\ Weights(held)[s] = held[s] * Price[s]
                           /\ Weights(plan[p].goal)[s] = plan[p].goal[s] * Price[s]
    BY DEF Weights
  <2>5. \A a, b \in Int, c \in Nat \ {0} :
           a * c \in Int /\ (a <= b => a * c <= b * c) /\ (a > 0 => a * c > 0)
    BY LessTimes
  <2>6. Bounded(Weights(held))
    BY <2>1, <2>3, <2>4, <2>5, LessIsBounded
  <2>7. \A s \in Symbols : held[s] > 0 => Weights(held)[s] > 0
    BY <2>3, <2>4, <2>5
  <2>8. \A pair \in Correlated : pair \subseteq Symbols
    BY PortfolioAssumption
  <2> QED
    BY <2>6, <2>7, <2>8 DEF Bounded
<1> QED
  BY InitLast, PlanShapes, <1>1, <1>2, PTL DEF Spec

\* A position is advised to EXIT exactly when a decision of the day sells the whole of
\* it: the two read the same report under the same conditions.
THEOREM AdviceAgrees == Spec => []AdviceExitIsPlanned
<1>1. TypeOK => AdviceExitIsPlanned
  <2> SUFFICES ASSUME NEW m \in Markets, ~Raises(m, snap), NEW s \in Symbols, snap[s] > 0
               PROVE  Advice(s, m, snap) = "EXIT" <=> s \in Exits(m, snap)
    BY DEF AdviceExitIsPlanned
  <2>1. m[s].known
    BY DEF Raises
  <2>2. s \in Exits(m, snap) <=> m[s].params /\ m[s].report = "exit"
    BY <2>1 DEF Exits
  <2> QED
    BY <2>1, <2>2 DEF Advice
<1> QED
  BY TypeCorrect, <1>1, PTL
=============================================================================
