----------------------------- MODULE ApprovalProofs -----------------------------
(***************************************************************************)
(* For any number of plans, confirmations, keys, nonces and processes: a   *)
(* decision says what was signed, of one confirmation, and stays; retries  *)
(* get one confirmation; a LIVE plan is consumed as it was signed.         *)
(***************************************************************************)
EXTENDS Approval, FiniteSetTheorems, TLAPS

\* The copy of a plan in the execution store is the plan.
CopiesAgree == \A p \in Plans : snapshot[p] \in {None, core[p]}

\* A confirmation that waits carries no decision.
PendingIsUndecided ==
    \A c \in Stored : conf[c].status = "PENDING" => conf[c].channel = "none" /\ conf[c].nonce = None

\* What a process has checked and not yet decided: the proof is signed, of a stored
\* confirmation, and a rejection was compared with it. An approval is compared again.
HandsHoldProofs ==
    \A d \in Deciders : decider[d] # Idle =>
        LET proof == decider[d].decision.proof
        IN  /\ proof \in proofs /\ proof.conf \in Stored
            /\ proof.action = "reject" =>
                  proof.plan = conf[proof.conf].plan /\ proof.content = conf[proof.conf].content

KeysAreUnique ==
    \A b, c \in Stored : conf[b].key = conf[c].key /\ conf[b].key # NoKey => b = c

AnswersHaveTheirKey == \A k \in Keys : \A c \in answered[k] : c \in Stored /\ conf[c].key = k

\* The confirmation of a session at work is stored; once the session said y, it is the
\* session that decided it.
SessionsOwnTheirRows ==
    \A c \in Confs : session[c] # "none" =>
        c \in Stored /\ (session[c] = "yes" => conf[c].channel = "cli" /\ conf[c].status # "PENDING")

IInv ==
    /\ TypeOK /\ CopiesAgree
    /\ PendingIsUndecided /\ HandsHoldProofs
    /\ DecidedWasSigned /\ OneDecisionPerNonce
    /\ KeysAreUnique /\ AnswersHaveTheirKey
    /\ LiveConsumedAsSigned /\ SessionsOwnTheirRows

USE ApprovalAssumption

-----------------------------------------------------------------------------
(* Rows.                                                                   *)

LEMMA Rows ==
    ASSUME TypeOK
    PROVE  /\ Absent \notin Row
           /\ \A c \in Confs : (c \in Stored <=> conf[c] \in Row)
           /\ \A c \in Confs : conf[c].status # "ABSENT" <=> c \in Stored
<1>1. \A r \in Row : r # Absent
  <2> SUFFICES ASSUME NEW r \in Row, r = Absent PROVE FALSE
    OBVIOUS
  <2>1. r.status \in {"PENDING", "APPROVED", "REJECTED", "CONSUMED", "CANCELLED"}
    BY DEF Row
  <2>2. r.status = "ABSENT"
    BY DEF Absent
  <2> QED BY <2>1, <2>2
<1>2. \A r \in Row : r.status # "ABSENT"
  BY DEF Row
<1>3. Absent.status = "ABSENT"
  BY DEF Absent
<1>4. \A c \in Confs : conf[c] \in Row \/ conf[c] = Absent
  BY DEF TypeOK
<1> QED BY <1>1, <1>2, <1>3, <1>4 DEF Stored

LEMMA Initially == Init => IInv
<1> SUFFICES ASSUME Init PROVE IInv
  OBVIOUS
<1>1. Stored = {}
  BY DEF Init, Stored
<1>2. TypeOK
  BY DEF Init, TypeOK
<1>3. \A d \in Deciders : decider[d] = Idle
  BY DEF Init
<1>4. CopiesAgree /\ AnswersHaveTheirKey /\ executed = {}
  BY DEF Init, CopiesAgree, AnswersHaveTheirKey
<1> QED
  BY <1>1, <1>2, <1>3, <1>4
  DEF IInv, PendingIsUndecided, HandsHoldProofs, DecidedWasSigned, OneDecisionPerNonce,
      KeysAreUnique, LiveConsumedAsSigned, SessionsOwnTheirRows, Init

\* What was executed stands on a row, its plan and its proof, which stay.
LEMMA SignedKept ==
    ASSUME IInv, proofs \subseteq proofs', UNCHANGED executed,
           \A c \in Stored : /\ c \in Stored' /\ conf'[c].plan = conf[c].plan
                             /\ conf'[c].content = conf[c].content,
           \A p \in Plans : /\ core[p] # None => core'[p] = core[p]
                            /\ snapshot[p] # None => snapshot'[p] = snapshot[p]
    PROVE  LiveConsumedAsSigned'
<1> SUFFICES ASSUME NEW p \in executed \cap LivePlans
             PROVE  \E c \in Stored' :
                       /\ conf'[c].plan = p /\ core'[p] = conf'[c].content
                       /\ snapshot'[p] = conf'[c].content
                       /\ \E proof \in proofs' :
                             /\ proof.conf = c /\ proof.action = "approve"
                             /\ proof.plan = p /\ proof.content = conf'[c].content
  BY DEF LiveConsumedAsSigned
<1>1. PICK c \in Stored :
        /\ conf[c].plan = p /\ core[p] = conf[c].content /\ snapshot[p] = conf[c].content
        /\ \E proof \in proofs : /\ proof.conf = c /\ proof.action = "approve"
                                 /\ proof.plan = p /\ proof.content = conf[c].content
  BY DEF IInv, LiveConsumedAsSigned
<1>2. conf[c].content # None /\ p \in Plans
  BY Rows DEF IInv, Row, Stored, TypeOK
<1>3. /\ c \in Stored' /\ conf'[c].plan = p /\ conf'[c].content = conf[c].content
      /\ core'[p] = core[p] /\ snapshot'[p] = snapshot[p]
  BY <1>1, <1>2
<1>4. PICK proof \in proofs' : /\ proof.conf = c /\ proof.action = "approve"
                               /\ proof.plan = p /\ proof.content = conf'[c].content
  BY <1>1, <1>3
<1> QED BY <1>1, <1>3, <1>4

LEMMA SessionsKept ==
    ASSUME IInv, UNCHANGED session,
           \A c \in Stored : /\ c \in Stored'
                             /\ conf[c].status # "PENDING" => conf'[c] = conf[c]
    PROVE  SessionsOwnTheirRows'
<1> SUFFICES ASSUME NEW c \in Confs, session[c] # "none"
             PROVE  /\ c \in Stored'
                    /\ session[c] = "yes" => conf'[c].channel = "cli" /\ conf'[c].status # "PENDING"
  BY DEF SessionsOwnTheirRows
<1>1. c \in Stored /\ (session[c] = "yes" => conf[c].channel = "cli" /\ conf[c].status # "PENDING")
  BY DEF IInv, SessionsOwnTheirRows
<1>2. c \in Stored' /\ (conf[c].status # "PENDING" => conf'[c] = conf[c])
  BY <1>1
<1> QED BY <1>1, <1>2

-----------------------------------------------------------------------------
(* Steps that leave the confirmations and the plans alone.                 *)

\* What speaks of confirmations and plans only survives them.
LEMMA ConfKept ==
    ASSUME IInv, UNCHANGED <<core, snapshot, conf, trade>>, proofs \subseteq proofs'
    PROVE  /\ Stored' = Stored
           /\ CopiesAgree' /\ PendingIsUndecided' /\ DecidedWasSigned' /\ OneDecisionPerNonce'
           /\ KeysAreUnique' /\ LiveConsumedAsSigned' /\ SessionsOwnTheirRows'
<1>1. Stored' = Stored
  BY DEF Stored
<1>2. DecidedWasSigned'
  BY <1>1 DEF IInv, DecidedWasSigned, Action, trade
<1>3. CopiesAgree' /\ PendingIsUndecided' /\ OneDecisionPerNonce' /\ KeysAreUnique'
  BY <1>1 DEF IInv, CopiesAgree, PendingIsUndecided, OneDecisionPerNonce, KeysAreUnique
<1>4. LiveConsumedAsSigned'
  BY <1>1, SignedKept DEF trade
<1>5. SessionsOwnTheirRows'
  BY <1>1, SessionsKept DEF trade
<1> QED BY <1>1, <1>2, <1>3, <1>4, <1>5

LEMMA TimeAndSignatures ==
    ASSUME IInv,
           \/ Tick
           \/ \E q \in Clients : ReqDies(q)
           \/ \E c \in Confs, a \in Actions, p \in Plans, content \in Contents, n \in Nonces :
                 Sign([action |-> a, conf |-> c, plan |-> p, content |-> content,
                       nonce |-> n, at |-> now])
    PROVE  IInv'
<1>1. UNCHANGED <<core, snapshot, conf, decider, answered, trade>> /\ proofs \subseteq proofs'
  BY DEF Tick, ReqDies, Sign
<1>2. TypeOK'
  <2>1. CASE Tick
    BY <2>1, SMT DEF Tick, IInv, TypeOK, trade
  <2>2. CASE \E q \in Clients : ReqDies(q)
    BY <2>2 DEF ReqDies, IInv, TypeOK, Idle, trade
  <2>3. ASSUME NEW c \in Confs, NEW a \in Actions, NEW p \in Plans, NEW content \in Contents,
               NEW n \in Nonces,
               Sign([action |-> a, conf |-> c, plan |-> p, content |-> content,
                     nonce |-> n, at |-> now])
        PROVE  TypeOK'
    <3>1. [action |-> a, conf |-> c, plan |-> p, content |-> content,
           nonce |-> n, at |-> now] \in Proof
      BY DEF Proof, IInv, TypeOK
    <3> QED BY <2>3, <3>1 DEF Sign, IInv, TypeOK, trade
  <2> QED BY <2>1, <2>2, <2>3
<1>3. HandsHoldProofs' /\ AnswersHaveTheirKey'
  BY <1>1, ConfKept DEF IInv, HandsHoldProofs, AnswersHaveTheirKey
<1> QED BY <1>1, <1>2, <1>3, ConfKept DEF IInv

\* A process checks a proof and takes it into its hands, or dies with it.
LEMMA Checking ==
    ASSUME IInv, NEW d \in Deciders,
           \/ \E proof \in proofs :
                 \/ ApproveCheck(d, proof) \/ WechatCheck(d, proof)
                 \/ \E channel \in {"wechat", "approval-proof"} : RejectCheck(d, proof, channel)
           \/ DeciderDies(d)
    PROVE  IInv'
<1>1. ASSUME NEW proof \in proofs, NEW channel \in {"wechat", "approval-proof"},
             Checked(d, proof, channel), proof.conf \in Stored,
             proof.action = "reject" =>
                 proof.plan = conf[proof.conf].plan /\ proof.content = conf[proof.conf].content
      PROVE  IInv'
  <2>1. UNCHANGED <<core, snapshot, conf, proofs, answered, now, client, trade>>
    BY <1>1 DEF Checked
  <2>2. [proof |-> proof, channel |-> channel] \in Decision
    BY <1>1 DEF Decision, IInv, TypeOK
  <2>3. TypeOK'
    BY <1>1, <2>1, <2>2 DEF Checked, IInv, TypeOK, trade
  <2>4. \A e \in Deciders : decider'[e] = IF e = d
            THEN [step |-> "decide", decision |-> [proof |-> proof, channel |-> channel]]
            ELSE decider[e]
    BY <1>1 DEF Checked, IInv, TypeOK
  <2>5. HandsHoldProofs'
    BY <1>1, <2>1, <2>4, ConfKept DEF IInv, HandsHoldProofs
  <2>6. AnswersHaveTheirKey'
    BY <2>1, ConfKept DEF IInv, AnswersHaveTheirKey
  <2> QED BY <2>1, <2>3, <2>5, <2>6, ConfKept DEF IInv
<1>2. \A proof \in proofs : proof \in Proof /\ proof.conf \in Confs
  BY DEF IInv, TypeOK, Proof
<1>3. ASSUME NEW proof \in proofs, ApproveCheck(d, proof) PROVE IInv'
  <2>1. proof.action # "reject" /\ proof.conf \in Stored
    BY <1>2, <1>3 DEF ApproveCheck, Verified, Stored
  <2> QED BY <1>1, <1>3, <2>1 DEF ApproveCheck
<1>4. ASSUME NEW proof \in proofs, WechatCheck(d, proof) PROVE IInv'
  <2>1. proof.action # "reject" /\ proof.conf \in Stored
    BY <1>2, <1>4 DEF WechatCheck, Verified, Stored
  <2> QED BY <1>1, <1>4, <2>1 DEF WechatCheck
<1>5. ASSUME NEW proof \in proofs, NEW channel \in {"wechat", "approval-proof"},
             RejectCheck(d, proof, channel)
      PROVE  IInv'
  <2>1. /\ proof.conf \in Stored
        /\ proof.plan = conf[proof.conf].plan /\ proof.content = conf[proof.conf].content
    BY <1>2, <1>5 DEF RejectCheck, Verified, Stored
  <2> QED BY <1>1, <1>5, <2>1 DEF RejectCheck
<1>6. CASE DeciderDies(d)
  <2>1. UNCHANGED <<core, snapshot, conf, proofs, answered, now, client, trade>>
    BY <1>6 DEF DeciderDies
  <2>2. TypeOK'
    BY <1>6, <2>1 DEF DeciderDies, IInv, TypeOK, trade
  <2>3. \A e \in Deciders : decider'[e] = IF e = d THEN Idle ELSE decider[e]
    BY <1>6 DEF DeciderDies, IInv, TypeOK
  <2>4. HandsHoldProofs' /\ AnswersHaveTheirKey'
    BY <2>1, <2>3, ConfKept DEF IInv, HandsHoldProofs, AnswersHaveTheirKey
  <2> QED BY <2>1, <2>2, <2>4, ConfKept DEF IInv
<1> QED BY <1>3, <1>4, <1>5, <1>6

-----------------------------------------------------------------------------
(* Plans and their copies.                                                 *)

\* A plan is bound once; its copy comes after it. What is consumed stands on both.
LEMMA CopiesKept ==
    ASSUME IInv, UNCHANGED <<conf, proofs, trade>>, NEW p \in Plans, NEW x \in Contents,
           \/ core' = [core EXCEPT ![p] = Bound(@, x)] /\ UNCHANGED snapshot
           \/ UNCHANGED core /\ snapshot[p] \in {None, core[p]} /\ core[p] # None
              /\ snapshot' = [snapshot EXCEPT ![p] = core[p]]
    PROVE  /\ Stored' = Stored
           /\ core' \in [Plans -> Contents \cup {None}]
           /\ snapshot' \in [Plans -> Contents \cup {None}]
           /\ CopiesAgree' /\ PendingIsUndecided' /\ DecidedWasSigned' /\ OneDecisionPerNonce'
           /\ KeysAreUnique' /\ LiveConsumedAsSigned' /\ SessionsOwnTheirRows'
<1>1. Stored' = Stored
  BY DEF Stored
<1>2. /\ core \in [Plans -> Contents \cup {None}]
      /\ snapshot \in [Plans -> Contents \cup {None}]
      /\ \A q \in Plans : snapshot[q] \in {None, core[q]}
  BY DEF IInv, TypeOK, CopiesAgree
<1>3. /\ core' \in [Plans -> Contents \cup {None}]
      /\ snapshot' \in [Plans -> Contents \cup {None}]
  BY <1>2 DEF Bound
<1>4. \A q \in Plans : /\ core[q] # None => core'[q] = core[q]
                       /\ snapshot[q] # None => snapshot'[q] = snapshot[q]
                       /\ snapshot'[q] \in {None, core'[q]}
  BY <1>2 DEF Bound
<1>5. CopiesAgree'
  BY <1>4 DEF CopiesAgree
<1>6. DecidedWasSigned'
  BY <1>1 DEF IInv, DecidedWasSigned, Action
<1>7. PendingIsUndecided' /\ OneDecisionPerNonce' /\ KeysAreUnique'
  BY <1>1 DEF IInv, PendingIsUndecided, OneDecisionPerNonce, KeysAreUnique
<1>8. LiveConsumedAsSigned'
  BY <1>1, <1>4, SignedKept DEF trade
<1>9. SessionsOwnTheirRows'
  BY <1>1, SessionsKept DEF trade
<1> QED BY <1>1, <1>3, <1>5, <1>6, <1>7, <1>8, <1>9

LEMMA WritingPlans ==
    ASSUME IInv, NEW p \in Plans, NEW content \in Contents, WritePlan(p, content)
    PROVE  IInv'
<1>1. UNCHANGED <<now, snapshot, conf, proofs, client, decider, answered, trade>>
  BY DEF WritePlan
<1>2. core' = [core EXCEPT ![p] = Bound(@, content)]
  BY DEF WritePlan
<1>3. TypeOK'
  BY <1>1, <1>2, CopiesKept DEF IInv, TypeOK, trade
<1>4. HandsHoldProofs' /\ AnswersHaveTheirKey'
  BY <1>1, <1>2, CopiesKept DEF IInv, HandsHoldProofs, AnswersHaveTheirKey
<1> QED BY <1>1, <1>2, <1>3, <1>4, CopiesKept DEF IInv

\* An answer to a request with a key names a confirmation of that key.
LEMMA Answering ==
    ASSUME IInv, NEW r \in Request, NEW c \in WithKey(r.key), Answer(r, c)
    PROVE  /\ answered' \in [Keys -> SUBSET Confs]
           /\ \A k \in Keys : \A b \in answered'[k] : b \in Stored /\ conf[b].key = k
<1>1. r.key \in Keys /\ c \in Stored /\ conf[c].key = r.key
  BY DEF WithKey, Request
<1>2. answered \in [Keys -> SUBSET Confs] /\ c \in Confs
  BY <1>1 DEF IInv, TypeOK, Stored
<1>3. \A k \in Keys : answered'[k] \subseteq answered[k] \cup (IF k = r.key THEN {c} ELSE {})
  BY <1>2 DEF Answer
<1> QED BY <1>1, <1>2, <1>3 DEF Answer, IInv, AnswersHaveTheirKey

LEMMA LookingUp ==
    ASSUME IInv, NEW q \in Clients, NEW r \in Request, ReqLookup(q, r)
    PROVE  IInv'
<1>1. UNCHANGED <<now, core, conf, proofs, decider, trade>> /\ r.plan \in Plans
  BY DEF ReqLookup, Request
<1>2. /\ core[r.plan] # None /\ snapshot[r.plan] \in {None, core[r.plan]}
      /\ snapshot' = [snapshot EXCEPT ![r.plan] = core[r.plan]]
  BY DEF ReqLookup
<1>3. PICK x \in Contents : TRUE
  BY DEF Request
<1>4. Stored' = Stored /\ snapshot' \in [Plans -> Contents \cup {None}]
      /\ CopiesAgree' /\ PendingIsUndecided' /\ DecidedWasSigned' /\ OneDecisionPerNonce'
      /\ KeysAreUnique' /\ LiveConsumedAsSigned' /\ SessionsOwnTheirRows'
  BY <1>1, <1>2, CopiesKept
<1>5. client' \in [Clients -> {Idle} \cup [step : {"insert"}, request : Request]]
  BY DEF ReqLookup, IInv, TypeOK
<1>6. UNCHANGED answered \/ \E c \in WithKey(r.key) : Answer(r, c)
  BY DEF ReqLookup
<1>7. /\ answered' \in [Keys -> SUBSET Confs]
      /\ \A k \in Keys : \A b \in answered'[k] : b \in Stored /\ conf[b].key = k
  BY <1>6, Answering DEF IInv, TypeOK, AnswersHaveTheirKey
<1>8. TypeOK'
  BY <1>1, <1>4, <1>5, <1>7 DEF IInv, TypeOK, trade
<1>9. HandsHoldProofs' /\ AnswersHaveTheirKey'
  BY <1>1, <1>4, <1>7 DEF IInv, HandsHoldProofs, AnswersHaveTheirKey
<1> QED BY <1>4, <1>8, <1>9 DEF IInv

-----------------------------------------------------------------------------
(* A new confirmation.                                                     *)

LEMMA NewRow ==
    ASSUME IInv, NEW c \in Confs, conf[c] = Absent,
           NEW r \in Request, r.key = NoKey \/ WithKey(r.key) = {},
           conf' = [conf EXCEPT ![c] = Pending(r)],
           UNCHANGED <<core, proofs, decider, executed>>,
           \A p \in Plans : snapshot[p] # None => snapshot'[p] = snapshot[p]
    PROVE  /\ conf' \in [Confs -> Row \cup {Absent}] /\ conf'[c].key = r.key
           /\ Stored' = Stored \cup {c} /\ c \notin Stored
           /\ \A b \in Stored : conf'[b] = conf[b]
           /\ PendingIsUndecided' /\ HandsHoldProofs' /\ DecidedWasSigned'
           /\ OneDecisionPerNonce' /\ KeysAreUnique' /\ LiveConsumedAsSigned'
<1>1. Pending(r) \in Row
  BY DEF Pending, Row, Request
<1>2. conf \in [Confs -> Row \cup {Absent}]
  BY DEF IInv, TypeOK
<1>3. /\ conf' \in [Confs -> Row \cup {Absent}]
      /\ \A b \in Confs : conf'[b] = IF b = c THEN Pending(r) ELSE conf[b]
  BY <1>1, <1>2
<1>4. /\ Pending(r).status = "PENDING" /\ Pending(r).channel = "none"
      /\ Pending(r).nonce = None /\ Pending(r).key = r.key
  BY DEF Pending
<1>5. Pending(r) # Absent
  BY <1>1, Rows DEF IInv
<1>6. Stored' = Stored \cup {c} /\ c \notin Stored
  BY <1>3, <1>5 DEF Stored
<1>7. \A b \in Stored : b \in Confs /\ b # c /\ conf'[b] = conf[b]
  BY <1>3, <1>6 DEF Stored
<1>8. PendingIsUndecided'
  BY <1>3, <1>4, <1>6, <1>7 DEF IInv, PendingIsUndecided
<1>9. HandsHoldProofs'
  BY <1>6, <1>7 DEF IInv, HandsHoldProofs
<1>10. DecidedWasSigned'
  BY <1>3, <1>4, <1>6, <1>7 DEF IInv, DecidedWasSigned, Action
<1>11. OneDecisionPerNonce'
  BY <1>3, <1>4, <1>6, <1>7 DEF IInv, OneDecisionPerNonce
<1>12. KeysAreUnique'
  <2>1. \A b \in Stored : r.key # NoKey => conf[b].key # r.key
    BY DEF WithKey
  <2> QED BY <1>3, <1>4, <1>6, <1>7, <2>1 DEF IInv, KeysAreUnique
<1>13. LiveConsumedAsSigned'
  BY <1>6, <1>7, SignedKept
<1> QED BY <1>3, <1>4, <1>6, <1>7, <1>8, <1>9, <1>10, <1>11, <1>12, <1>13

LEMMA Inserting ==
    ASSUME IInv, NEW q \in Clients, NEW c \in Confs, ReqInsert(q, c)
    PROVE  IInv'
<1> DEFINE r == client[q].request
<1>1. r \in Request /\ conf[c] = Absent
  BY DEF ReqInsert, IInv, TypeOK
<1>2. UNCHANGED <<now, core, snapshot, proofs, decider, trade, session, executed>>
  BY DEF ReqInsert, trade
<1>3. client' \in [Clients -> {Idle} \cup [step : {"insert"}, request : Request]]
  BY DEF ReqInsert, IInv, TypeOK
<1>4. CASE Taken(r.key) # {}
  <2>1. conf' = conf /\ \E t \in WithKey(r.key) : Answer(r, t)
    BY <1>4 DEF ReqInsert, Taken
  <2>2. /\ answered' \in [Keys -> SUBSET Confs]
        /\ \A k \in Keys : \A b \in answered'[k] : b \in Stored /\ conf[b].key = k
    BY <1>1, <2>1, Answering
  <2>3. TypeOK'
    BY <1>2, <1>3, <2>1, <2>2 DEF IInv, TypeOK
  <2>4. HandsHoldProofs' /\ AnswersHaveTheirKey'
    BY <1>2, <2>1, <2>2, ConfKept DEF IInv, HandsHoldProofs, AnswersHaveTheirKey
  <2> QED BY <1>2, <2>1, <2>3, <2>4, ConfKept DEF IInv
<1>5. CASE Taken(r.key) = {}
  <2>1. /\ conf' = [conf EXCEPT ![c] = Pending(r)]
        /\ answered' = IF r.key = NoKey THEN answered
                       ELSE [answered EXCEPT ![r.key] = @ \cup {c}]
    BY <1>5 DEF ReqInsert
  <2>2. WithKey(r.key) = {}
    BY <1>5 DEF Taken
  <2>3. /\ conf' \in [Confs -> Row \cup {Absent}] /\ conf'[c].key = r.key
        /\ Stored' = Stored \cup {c} /\ c \notin Stored
        /\ \A b \in Stored : conf'[b] = conf[b]
        /\ PendingIsUndecided' /\ HandsHoldProofs' /\ DecidedWasSigned'
        /\ OneDecisionPerNonce' /\ KeysAreUnique' /\ LiveConsumedAsSigned'
    BY <1>1, <1>2, <2>1, <2>2, NewRow
  <2>4. answered' \in [Keys -> SUBSET Confs]
        /\ \A k \in Keys : answered'[k] \subseteq
              answered[k] \cup (IF k = r.key THEN {c} ELSE {})
    BY <1>1, <2>1 DEF IInv, TypeOK, Request
  <2>5. TypeOK'
    BY <1>2, <1>3, <2>3, <2>4 DEF IInv, TypeOK
  <2>6. AnswersHaveTheirKey'
    BY <2>3, <2>4 DEF IInv, AnswersHaveTheirKey
  <2>7. CopiesAgree'
    BY <1>2 DEF IInv, CopiesAgree
  <2>8. SessionsOwnTheirRows'
    BY <1>2, <2>3, SessionsKept
  <2> QED BY <2>3, <2>5, <2>6, <2>7, <2>8 DEF IInv
<1> QED BY <1>4, <1>5

LEMMA SessionCreates ==
    ASSUME IInv, NEW c \in Confs, NEW p \in Plans, CliCreate(c, p)
    PROVE  IInv'
<1> DEFINE r == [plan |-> p, content |-> core[p], key |-> NoKey]
<1>1. /\ conf[c] = Absent /\ core[p] # None /\ snapshot[p] \in {None, core[p]}
      /\ snapshot' = [snapshot EXCEPT ![p] = core[p]]
      /\ conf' = [conf EXCEPT ![c] = Pending(r)]
      /\ UNCHANGED <<now, core, proofs, client, decider, answered, executed>>
      /\ session' = [session EXCEPT ![c] = "asked"]
  BY DEF CliCreate
<1>2. r \in Request /\ r.key = NoKey
  BY <1>1 DEF Request, IInv, TypeOK
<1>3. /\ snapshot' \in [Plans -> Contents \cup {None}]
      /\ \A o \in Plans : snapshot'[o] = IF o = p THEN core[p] ELSE snapshot[o]
  BY <1>1 DEF IInv, TypeOK
<1>4. \A o \in Plans : snapshot[o] # None => snapshot'[o] = snapshot[o]
  BY <1>1, <1>3
<1>5. /\ conf' \in [Confs -> Row \cup {Absent}]
      /\ Stored' = Stored \cup {c}
      /\ \A b \in Stored : conf'[b] = conf[b]
      /\ PendingIsUndecided' /\ HandsHoldProofs' /\ DecidedWasSigned'
      /\ OneDecisionPerNonce' /\ KeysAreUnique' /\ LiveConsumedAsSigned'
  <2> HIDE DEF r
  <2> QED BY <1>1, <1>2, <1>4, NewRow
<1>6. TypeOK'
  BY <1>1, <1>3, <1>5 DEF IInv, TypeOK
<1>7. CopiesAgree'
  BY <1>1, <1>3 DEF IInv, CopiesAgree
<1>8. AnswersHaveTheirKey'
  BY <1>1, <1>5 DEF IInv, AnswersHaveTheirKey
<1>9. SessionsOwnTheirRows'
  BY <1>1, <1>5 DEF IInv, TypeOK, SessionsOwnTheirRows
<1> QED BY <1>5, <1>6, <1>7, <1>8, <1>9 DEF IInv

-----------------------------------------------------------------------------
(* Decisions.                                                              *)

\* A stored confirmation moves on; what it is about stays.
LEMMA RowMoves ==
    ASSUME IInv, NEW c \in Stored, NEW row \in Row,
           row.plan = conf[c].plan, row.content = conf[c].content, row.key = conf[c].key,
           conf' = [conf EXCEPT ![c] = row],
           UNCHANGED <<core, snapshot, proofs, answered>>,
           \A d \in Deciders : decider'[d] \in {decider[d], Idle}
    PROVE  /\ conf' \in [Confs -> Row \cup {Absent}] /\ Stored' = Stored
           /\ \A b \in Stored : conf'[b] = IF b = c THEN row ELSE conf[b]
           /\ CopiesAgree' /\ KeysAreUnique' /\ AnswersHaveTheirKey' /\ HandsHoldProofs'
<1>1. c \in Confs /\ conf \in [Confs -> Row \cup {Absent}]
  BY DEF Stored, IInv, TypeOK
<1>2. /\ conf' \in [Confs -> Row \cup {Absent}]
      /\ \A b \in Confs : conf'[b] = IF b = c THEN row ELSE conf[b]
  BY <1>1
<1>3. row # Absent
  BY Rows DEF IInv
<1>4. conf[c] # Absent
  BY DEF Stored
<1>5. Stored' = Stored
  BY <1>2, <1>3, <1>4 DEF Stored
<1>6. \A b \in Stored : conf'[b] = IF b = c THEN row ELSE conf[b]
  BY <1>2 DEF Stored
<1>7. \A b \in Stored : /\ conf'[b].plan = conf[b].plan /\ conf'[b].content = conf[b].content
                        /\ conf'[b].key = conf[b].key
  BY <1>6
<1>8. CopiesAgree'
  BY DEF IInv, CopiesAgree
<1>9. KeysAreUnique'
  BY <1>5, <1>7 DEF IInv, KeysAreUnique
<1>10. AnswersHaveTheirKey'
  BY <1>5, <1>7 DEF IInv, AnswersHaveTheirKey
<1>11. HandsHoldProofs'
  BY <1>5, <1>7 DEF IInv, HandsHoldProofs
<1> QED BY <1>2, <1>5, <1>6, <1>8, <1>9, <1>10, <1>11

\* The decision: the row waits, the nonce is new, and the proof is of this row.
LEMMA Deciding ==
    ASSUME IInv, NEW d \in Deciders, Decide(d)
    PROVE  IInv'
<1> DEFINE proof == decider[d].decision.proof
           c == proof.conf
           row == [conf[c] EXCEPT !.nonce = proof.nonce,
                                  !.channel = decider[d].decision.channel,
                                  !.status = IF proof.action = "approve" THEN "APPROVED"
                                             ELSE "REJECTED"]
<1>1. /\ UNCHANGED <<now, core, snapshot, proofs, client, answered, trade, session, executed>>
      /\ decider' = [decider EXCEPT ![d] = Idle]
  BY DEF Decide, trade
<1>2. /\ decider[d].decision \in Decision /\ proof \in Proof
      /\ decider' \in [Deciders -> {Idle} \cup [step : {"decide"}, decision : Decision]]
      /\ \A e \in Deciders : decider'[e] \in {decider[e], Idle}
  BY DEF Decide, IInv, TypeOK, Decision
<1>3. /\ proof \in proofs /\ c \in Stored
      /\ proof.action = "reject" => proof.plan = conf[c].plan /\ proof.content = conf[c].content
  BY DEF Decide, IInv, HandsHoldProofs
<1>4. conf[c] \in Row /\ c \in Confs
  BY <1>3, Rows DEF IInv, Stored
<1>5. CASE conf' = conf
  <2>1. TypeOK'
    BY <1>1, <1>2, <1>5 DEF IInv, TypeOK
  <2>2. HandsHoldProofs' /\ AnswersHaveTheirKey'
    BY <1>1, <1>2, <1>5, ConfKept DEF IInv, HandsHoldProofs, AnswersHaveTheirKey
  <2> QED BY <1>1, <1>5, <2>1, <2>2, ConfKept DEF IInv
<1>6. CASE conf' # conf
  <2>1. /\ Undecided(c) /\ Unused(proof.nonce)
        /\ proof.action = "approve" =>
              conf[c].plan = proof.plan /\ conf[c].content = proof.content
        /\ conf' = [conf EXCEPT ![c].nonce = proof.nonce,
                                ![c].channel = decider[d].decision.channel,
                                ![c].status = IF proof.action = "approve" THEN "APPROVED"
                                              ELSE "REJECTED"]
    BY <1>6 DEF Decide
  <2>2. conf' = [conf EXCEPT ![c] = row]
    BY <1>4, <2>1 DEF IInv, TypeOK, Row
  <2>3. /\ proof.nonce \in Nonces /\ proof.action \in Actions
        /\ decider[d].decision.channel \in {"wechat", "approval-proof"}
    BY <1>2 DEF Proof, Decision
  <2>4. /\ row \in Row
        /\ row.plan = conf[c].plan /\ row.content = conf[c].content /\ row.key = conf[c].key
        /\ row.nonce = proof.nonce /\ row.channel = decider[d].decision.channel
        /\ row.status = IF proof.action = "approve" THEN "APPROVED" ELSE "REJECTED"
    BY <1>4, <2>3 DEF Row
  <2> HIDE DEF row
  <2>5. /\ conf' \in [Confs -> Row \cup {Absent}] /\ Stored' = Stored
        /\ \A b \in Stored : conf'[b] = IF b = c THEN row ELSE conf[b]
        /\ CopiesAgree' /\ KeysAreUnique' /\ AnswersHaveTheirKey' /\ HandsHoldProofs'
    <3> HIDE DEF c, proof
    <3> QED BY <1>1, <1>2, <1>3, <2>2, <2>4, RowMoves
  <2>6. TypeOK'
    BY <1>1, <1>2, <2>5 DEF IInv, TypeOK
  <2>7. PendingIsUndecided'
    BY <2>4, <2>5 DEF IInv, PendingIsUndecided
  <2>8. proof.plan = conf[c].plan /\ proof.content = conf[c].content
    BY <1>3, <2>1, <2>3 DEF Actions
  <2>9. DecidedWasSigned'
    <3> SUFFICES ASSUME NEW b \in Stored, conf'[b].channel \in {"wechat", "approval-proof"}
                 PROVE  \E pr \in proofs :
                           /\ pr.conf = b
                           /\ pr.action \in Action(b)'
                           /\ pr.nonce = conf'[b].nonce
                           /\ pr.plan = conf'[b].plan /\ pr.content = conf'[b].content
      BY <1>1, <2>5 DEF DecidedWasSigned
    <3>1. CASE b = c
      <4>1. proof.action \in Action(b)'
        BY <2>3, <2>4, <2>5, <3>1 DEF Actions, Action
      <4> QED BY <1>3, <2>4, <2>5, <2>8, <3>1, <4>1
    <3>2. CASE b # c
      BY <2>5, <3>2 DEF IInv, DecidedWasSigned, Action
    <3> QED BY <3>1, <3>2
  <2>10. OneDecisionPerNonce'
    <3>1. \A b \in Stored : conf[b].nonce # proof.nonce
      BY <2>1 DEF Unused
    <3>2. \A b \in Stored : conf'[b].nonce = IF b = c THEN proof.nonce ELSE conf[b].nonce
      BY <2>4, <2>5
    <3> HIDE DEF c, proof
    <3> QED BY <2>5, <3>1, <3>2 DEF IInv, OneDecisionPerNonce
  <2>11. LiveConsumedAsSigned'
    BY <1>1, <2>4, <2>5, SignedKept
  <2>12. SessionsOwnTheirRows'
    BY <1>1, <2>1, <2>5, SessionsKept DEF Undecided
  <2> QED BY <2>5, <2>6, <2>7, <2>9, <2>10, <2>11, <2>12 DEF IInv
<1> QED BY <1>5, <1>6

\* The y of a trade session decides without a proof.
LEMMA SessionApproves ==
    ASSUME IInv, NEW c \in Confs, CliApprove(c)
    PROVE  IInv'
<1> DEFINE row == [conf[c] EXCEPT !.status = "APPROVED", !.channel = "cli"]
<1>1. /\ c \in Stored /\ conf[c].status = "PENDING"
      /\ UNCHANGED <<now, core, snapshot, proofs, client, decider, answered, executed>>
      /\ session' = [session EXCEPT ![c] = "yes"]
  BY DEF CliApprove, Undecided, IInv, SessionsOwnTheirRows
<1>2. conf[c] \in Row
  BY <1>1, Rows DEF IInv
<1>3. conf' = [conf EXCEPT ![c] = row]
  BY <1>2 DEF CliApprove, IInv, TypeOK, Row
<1>4. /\ row \in Row /\ row.plan = conf[c].plan /\ row.content = conf[c].content
      /\ row.key = conf[c].key /\ row.nonce = conf[c].nonce
      /\ row.channel = "cli" /\ row.status = "APPROVED"
  BY <1>2 DEF Row
<1> HIDE DEF row
<1>5. /\ conf' \in [Confs -> Row \cup {Absent}] /\ Stored' = Stored
      /\ \A b \in Stored : conf'[b] = IF b = c THEN row ELSE conf[b]
      /\ CopiesAgree' /\ KeysAreUnique' /\ AnswersHaveTheirKey' /\ HandsHoldProofs'
  BY <1>1, <1>3, <1>4, RowMoves
<1>6. TypeOK'
  BY <1>1, <1>5 DEF IInv, TypeOK
<1>7. PendingIsUndecided' /\ LiveConsumedAsSigned'
  BY <1>1, <1>4, <1>5, SignedKept DEF IInv, PendingIsUndecided
<1>8. DecidedWasSigned'
  BY <1>1, <1>4, <1>5 DEF IInv, DecidedWasSigned, Action
<1>9. OneDecisionPerNonce'
  BY <1>4, <1>5 DEF IInv, OneDecisionPerNonce
<1>10. SessionsOwnTheirRows'
  BY <1>1, <1>4, <1>5 DEF IInv, TypeOK, SessionsOwnTheirRows
<1> QED BY <1>5, <1>6, <1>7, <1>8, <1>9, <1>10 DEF IInv

\* A session writes CANCELLED or REJECTED over its confirmation; one that it approved
\* itself was decided without a proof.
LEMMA SessionOverwrites ==
    ASSUME IInv, NEW c \in Confs, CliCancel(c) \/ CliReject(c)
    PROVE  IInv'
<1>1. PICK step \in {"asked", "yes"}, status \in {"CANCELLED", "REJECTED"} :
        /\ CliOverwrites(c, step, status)
        /\ step = "asked" => status = "CANCELLED"
        /\ step = "yes" => status = "REJECTED"
  BY DEF CliCancel, CliReject
<1> DEFINE row == [conf[c] EXCEPT !.status = status]
<1>2. /\ c \in Stored
      /\ step = "yes" => conf[c].channel = "cli"
      /\ UNCHANGED <<now, core, snapshot, proofs, client, decider, answered, executed>>
      /\ session' \in [Confs -> {"none", "asked", "yes"}]
  BY <1>1 DEF CliOverwrites, IInv, SessionsOwnTheirRows, TypeOK
<1>3. conf[c] \in Row
  BY <1>2, Rows DEF IInv
<1>4. conf' = [conf EXCEPT ![c] = row]
  BY <1>1, <1>3 DEF CliOverwrites, IInv, TypeOK, Row
<1>5. /\ row \in Row /\ row.plan = conf[c].plan /\ row.content = conf[c].content
      /\ row.key = conf[c].key /\ row.nonce = conf[c].nonce
      /\ row.channel = conf[c].channel /\ row.status = status
  BY <1>3 DEF Row
<1> HIDE DEF row
<1>6. /\ conf' \in [Confs -> Row \cup {Absent}] /\ Stored' = Stored
      /\ \A b \in Stored : conf'[b] = IF b = c THEN row ELSE conf[b]
      /\ CopiesAgree' /\ KeysAreUnique' /\ AnswersHaveTheirKey' /\ HandsHoldProofs'
  BY <1>2, <1>4, <1>5, RowMoves
<1>7. TypeOK'
  BY <1>2, <1>6 DEF IInv, TypeOK
<1>8. PendingIsUndecided' /\ LiveConsumedAsSigned'
  BY <1>2, <1>5, <1>6, SignedKept DEF IInv, PendingIsUndecided
<1>9. DecidedWasSigned'
  <2> SUFFICES ASSUME NEW b \in Stored, conf'[b].channel \in {"wechat", "approval-proof"}
               PROVE  \E proof \in proofs :
                         /\ proof.conf = b /\ proof.action \in Action(b)'
                         /\ proof.nonce = conf'[b].nonce
                         /\ proof.plan = conf'[b].plan /\ proof.content = conf'[b].content
    BY <1>2, <1>6 DEF DecidedWasSigned
  <2>1. PICK proof \in proofs :
          /\ proof.conf = b /\ proof.action \in Action(b) /\ proof.nonce = conf[b].nonce
          /\ proof.plan = conf[b].plan /\ proof.content = conf[b].content
    BY <1>5, <1>6 DEF IInv, DecidedWasSigned
  <2>2. proof.action \in Action(b)'
    <3>1. CASE b = c
      <4>1. conf'[b].status = "CANCELLED"
        BY <1>1, <1>2, <1>5, <1>6, <3>1
      <4>2. proof.action \in Actions
        BY DEF IInv, TypeOK, Proof
      <4> QED BY <4>1, <4>2 DEF Action
    <3>2. CASE b # c
      BY <1>6, <2>1, <3>2 DEF Action
    <3> QED BY <3>1, <3>2
  <2> QED BY <1>5, <1>6, <2>1, <2>2
<1>10. OneDecisionPerNonce'
  BY <1>5, <1>6 DEF IInv, OneDecisionPerNonce
<1>11. SessionsOwnTheirRows'
  BY <1>1, <1>2, <1>5, <1>6 DEF CliOverwrites, IInv, TypeOK, SessionsOwnTheirRows
<1> QED BY <1>6, <1>7, <1>8, <1>9, <1>10, <1>11 DEF IInv

\* A LIVE plan is consumed under a proof, with its copy as it was signed.
LEMMA Consuming ==
    ASSUME IInv, NEW c \in Confs, NEW own \in BOOLEAN, Consume(c, own)
    PROVE  IInv'
<1> DEFINE row == [conf[c] EXCEPT !.status = "CONSUMED"]
<1>1. /\ c \in Stored /\ conf[c].status = "APPROVED"
      /\ snapshot[conf[c].plan] = conf[c].content
      /\ conf[c].plan \in LivePlans => conf[c].channel = "approval-proof"
      /\ UNCHANGED <<now, core, snapshot, proofs, client, decider, answered>>
      /\ executed' = executed \cup {conf[c].plan}
      /\ session' = IF own THEN [session EXCEPT ![c] = "none"] ELSE session
  BY DEF Consume, MayConsume
<1>2. conf[c] \in Row
  BY <1>1, Rows DEF IInv
<1>3. conf' = [conf EXCEPT ![c] = row]
  BY <1>2 DEF Consume, IInv, TypeOK, Row
<1>4. /\ row \in Row /\ row.plan = conf[c].plan /\ row.content = conf[c].content
      /\ row.key = conf[c].key /\ row.nonce = conf[c].nonce
      /\ row.channel = conf[c].channel /\ row.status = "CONSUMED"
  BY <1>2 DEF Row
<1> HIDE DEF row
<1>5. /\ conf' \in [Confs -> Row \cup {Absent}] /\ Stored' = Stored
      /\ \A b \in Stored : conf'[b] = IF b = c THEN row ELSE conf[b]
      /\ CopiesAgree' /\ KeysAreUnique' /\ AnswersHaveTheirKey' /\ HandsHoldProofs'
  BY <1>1, <1>3, <1>4, RowMoves
<1>6. conf[c].plan \in Plans /\ conf[c].content # None
  BY <1>2 DEF Row
<1>7. TypeOK'
  BY <1>1, <1>5, <1>6 DEF IInv, TypeOK
<1>8. PendingIsUndecided'
  BY <1>4, <1>5 DEF IInv, PendingIsUndecided
<1>9. DecidedWasSigned'
  BY <1>1, <1>4, <1>5 DEF IInv, DecidedWasSigned, Action
<1>10. OneDecisionPerNonce'
  BY <1>4, <1>5 DEF IInv, OneDecisionPerNonce
<1>11. core[conf[c].plan] = conf[c].content
  BY <1>1, <1>6 DEF IInv, CopiesAgree
<1>12. LiveConsumedAsSigned'
  <2> SUFFICES ASSUME NEW p \in executed', p \in LivePlans
               PROVE  \E b \in Stored :
                         /\ conf'[b].plan = p /\ core[p] = conf'[b].content
                         /\ snapshot[p] = conf'[b].content
                         /\ \E proof \in proofs :
                               /\ proof.conf = b /\ proof.action = "approve"
                               /\ proof.plan = p /\ proof.content = conf'[b].content
    BY <1>1, <1>5 DEF LiveConsumedAsSigned
  <2>1. \A b \in Stored : conf'[b].plan = conf[b].plan /\ conf'[b].content = conf[b].content
    BY <1>4, <1>5
  <2>2. CASE p \in executed
    BY <2>1, <2>2 DEF IInv, LiveConsumedAsSigned
  <2>3. CASE p = conf[c].plan
    <3>1. PICK proof \in proofs :
            /\ proof.conf = c /\ proof.action \in Action(c)
            /\ proof.plan = conf[c].plan /\ proof.content = conf[c].content
      BY <1>1, <2>3 DEF IInv, DecidedWasSigned
    <3>2. Action(c) = {"approve"}
      BY <1>1 DEF Action, Actions
    <3> QED BY <1>1, <1>11, <2>1, <2>3, <3>1, <3>2
  <2> QED BY <1>1, <2>2, <2>3
<1>13. SessionsOwnTheirRows'
  BY <1>1, <1>4, <1>5 DEF IInv, TypeOK, SessionsOwnTheirRows
<1> QED BY <1>5, <1>7, <1>8, <1>9, <1>10, <1>12, <1>13 DEF IInv

-----------------------------------------------------------------------------
(* The specification.                                                      *)

LEMMA Steps == IInv /\ [Next]_vars => IInv'
<1> SUFFICES ASSUME IInv, [Next]_vars PROVE IInv'
  OBVIOUS
<1>1. CASE UNCHANGED vars
  <2>1. TypeOK'
    BY <1>1 DEF vars, trade, IInv, TypeOK
  <2>2. HandsHoldProofs' /\ AnswersHaveTheirKey'
    BY <1>1, ConfKept DEF vars, IInv, HandsHoldProofs, AnswersHaveTheirKey
  <2> QED BY <1>1, <2>1, <2>2, ConfKept DEF vars, IInv
<1>2. CASE Tick \/ (\E q \in Clients : ReqDies(q))
           \/ \E c \in Confs, a \in Actions, p \in Plans, content \in Contents, n \in Nonces :
                 Sign([action |-> a, conf |-> c, plan |-> p, content |-> content,
                       nonce |-> n, at |-> now])
  BY <1>2, TimeAndSignatures
<1>3. ASSUME NEW p \in Plans, NEW content \in Contents, WritePlan(p, content) PROVE IInv'
  BY <1>3, WritingPlans
<1>4. ASSUME NEW q \in Clients, NEW r \in Request, ReqLookup(q, r) PROVE IInv'
  BY <1>4, LookingUp
<1>5. ASSUME NEW q \in Clients, NEW c \in Confs, ReqInsert(q, c) PROVE IInv'
  BY <1>5, Inserting
<1>6. ASSUME NEW d \in Deciders,
             \/ \E proof \in proofs :
                   \/ ApproveCheck(d, proof) \/ WechatCheck(d, proof)
                   \/ \E channel \in {"wechat", "approval-proof"} : RejectCheck(d, proof, channel)
             \/ DeciderDies(d)
      PROVE  IInv'
  BY <1>6, Checking
<1>7. ASSUME NEW d \in Deciders, Decide(d) PROVE IInv'
  BY <1>7, Deciding
<1>8. ASSUME NEW c \in Confs,
             \/ \E p \in Plans : CliCreate(c, p)
             \/ CliApprove(c) \/ CliCancel(c) \/ CliReject(c)
             \/ \E own \in BOOLEAN : Consume(c, own)
      PROVE  IInv'
  BY <1>8, SessionCreates, SessionApproves, SessionOverwrites, Consuming
<1> QED BY <1>1, <1>2, <1>3, <1>4, <1>5, <1>6, <1>7, <1>8 DEF Next

LEMMA Inductive == Spec => []IInv
<1> QED BY Initially, Steps, PTL DEF Spec

\* The two stores and the processes keep their types.
THEOREM TypeCorrect == Spec => []TypeOK
<1>1. IInv => TypeOK
  BY DEF IInv
<1> QED BY <1>1, Inductive, PTL

\* Whatever proofs are handed in, when and how often, and whoever dies: a decision made
\* on a proof says what the owner signed (approve_confirmation compares it again in the
\* transaction that writes it).
THEOREM SignedDecisions == Spec => []DecidedWasSigned
<1>1. IInv => DecidedWasSigned
  BY DEF IInv
<1> QED BY <1>1, Inductive, PTL

\* A nonce decides one confirmation, however many processes check it at once.
THEOREM NoReplay == Spec => []OneDecisionPerNonce
<1>1. IInv => OneDecisionPerNonce
  BY DEF IInv
<1> QED BY <1>1, Inductive, PTL

\* The key of a request stands for one confirmation, for all retries and races.
THEOREM OneAnswer == Spec => []RetryGetsTheSame
<1>1. IInv => RetryGetsTheSame
  <2> SUFFICES ASSUME IInv, NEW k \in Keys PROVE Cardinality(answered[k]) <= 1
    BY DEF RetryGetsTheSame
  <2>1. \A b, c \in answered[k] : b = c
    BY DEF IInv, AnswersHaveTheirKey, KeysAreUnique
  <2>2. CASE answered[k] = {}
    BY <2>2, FS_EmptySet
  <2>3. CASE answered[k] # {}
    <3>1. PICK c \in answered[k] : answered[k] = {c}
      BY <2>1, <2>3
    <3> QED BY <3>1, FS_Singleton
  <2> QED BY <2>2, <2>3
<1> QED BY <1>1, Inductive, PTL

\* A LIVE plan is consumed with the content the owner signed, and both stores hold it.
THEOREM LiveAsSigned == Spec => []LiveConsumedAsSigned
<1>1. IInv => LiveConsumedAsSigned
  BY DEF IInv
<1> QED BY <1>1, Inductive, PTL

\* No proof, retry or second decider changes a decision: an approval may be consumed, and
\* the trade session that asked for the confirmation writes a refusal over it, once.
THEOREM DecisionsStay == Spec => DecisionStays
<1> DEFINE Kept(c) == conf[c].status # "PENDING" /\ conf'[c] # conf[c] =>
          \/ conf[c].status = "APPROVED" /\ conf'[c] = [conf[c] EXCEPT !.status = "CONSUMED"]
          \/ /\ session[c] \in {"asked", "yes"} /\ session'[c] = "none"
             /\ \E refusal \in {"CANCELLED", "REJECTED"} :
                   conf'[c] = [conf[c] EXCEPT !.status = refusal]
<1>1. ASSUME IInv, [Next]_vars, NEW c \in Stored PROVE Kept(c)
  <2>1. c \in Confs /\ conf \in [Confs -> Row \cup {Absent}] /\ conf[c] # Absent
    BY <1>1 DEF IInv, TypeOK, Stored
  <2>2. ASSUME NEW d \in Deciders, Decide(d), conf[c].status # "PENDING" PROVE conf'[c] = conf[c]
    <3>1. decider[d].decision.proof.conf # c \/ ~Undecided(c)
      BY <2>2 DEF Undecided
    <3> QED BY <2>1, <2>2, <3>1 DEF Decide, Undecided
  <2>3. ASSUME NEW b \in Confs, CliApprove(b), conf[c].status # "PENDING" PROVE conf'[c] = conf[c]
    BY <2>1, <2>3 DEF CliApprove, Undecided
  <2>4. ASSUME NEW b \in Confs, NEW own \in BOOLEAN, Consume(b, own) PROVE Kept(c)
    BY <2>1, <2>4 DEF Consume
  <2>5. ASSUME NEW b \in Confs, CliCancel(b) \/ CliReject(b) PROVE Kept(c)
    <3>1. PICK step \in {"asked", "yes"}, status \in {"CANCELLED", "REJECTED"} :
            CliOverwrites(b, step, status)
      BY <2>5 DEF CliCancel, CliReject
    <3>2. session \in [Confs -> {"none", "asked", "yes"}]
      BY <1>1 DEF IInv, TypeOK
    <3> QED BY <2>1, <3>1, <3>2 DEF CliOverwrites
  <2>6. ASSUME NEW q \in Clients, NEW b \in Confs, ReqInsert(q, b) PROVE conf'[c] = conf[c]
    BY <2>1, <2>6 DEF ReqInsert
  <2>7. ASSUME NEW b \in Confs, NEW p \in Plans, CliCreate(b, p) PROVE conf'[c] = conf[c]
    BY <2>1, <2>7 DEF CliCreate
  <2>8. ASSUME UNCHANGED vars PROVE conf' = conf
    BY <2>8 DEF vars
  <2> QED
    BY <1>1, <2>2, <2>3, <2>4, <2>5, <2>6, <2>7, <2>8
    DEF Next, Tick, WritePlan, ReqLookup, ReqDies, Sign, ApproveCheck, WechatCheck,
        RejectCheck, Checked, DeciderDies
<1>2. IInv /\ [Next]_vars => [\A c \in Stored : Kept(c)]_vars
  BY <1>1
<1> QED BY <1>2, Inductive, PTL DEF Spec, DecisionStays
=============================================================================
