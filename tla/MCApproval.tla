------------------------------- MODULE MCApproval -------------------------------
(***************************************************************************)
(* A LIVE and a PAPER plan, two confirmations, one key and one nonce.      *)
(***************************************************************************)
EXTENDS Approval, TLC

\* The first content is the one that expires.
Soon == [x \in Contents |-> 1]
Symmetry == Permutations(Confs) \cup Permutations(Contents)
            \cup Permutations(Clients) \cup Permutations(Deciders)

\* What shares nothing is looked at apart: a request without a key is under way alone, and
\* for the LIVE plan; one confirmation without a key is stored, by a request or a trade
\* session; a request about to store its row, which no decision reads, is not under way
\* while a proof is in a decider's hands.
Bounded ==
    /\ \A q \in Clients : client[q] # Idle =>
          /\ \A d \in Deciders : decider[d] = Idle
          /\ client[q].request.key = NoKey =>
                /\ client[q].request.plan \in LivePlans
                /\ \A o \in Clients : client[o] # Idle => o = q
    /\ \A b, c \in Stored : conf[b].key = NoKey /\ conf[c].key = NoKey => b = c
===============================================================================
