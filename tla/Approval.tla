-------------------------------- MODULE Approval --------------------------------
(***************************************************************************)
(* From a plan to a decision about it.  A plan is written to the Core      *)
(* store; a client asks for a confirmation, which copies the plan into the *)
(* execution store; the owner's gateway signs ApprovalProofs, anyone may   *)
(* hand them in, and executiond or an application process checks one and   *)
(* then decides in a transaction; an approved confirmation is consumed.    *)
(* A plan hash stands for its content, a signature is not forged.          *)
(***************************************************************************)
EXTENDS Integers, FiniteSets

CONSTANTS
    Plans, LivePlans,   \* plan ids, and those that are LIVE
    Contents,           \* what a plan may say; its hash
    ExpiryOf,           \* when a plan of some content expires
    Confs, Keys,        \* confirmation ids and idempotency keys
    Nonces,
    Clients, Deciders,  \* processes that request and that decide
    MaxAge,             \* seconds a proof is accepted
    MaxNow, MaxProofs   \* bounds

CONSTANTS None, NoKey

ASSUME ApprovalAssumption ==
    /\ LivePlans \subseteq Plans /\ None \notin Contents \cup Nonces /\ NoKey \notin Keys
    /\ ExpiryOf \in [Contents -> Nat]
    /\ MaxAge \in Nat /\ MaxNow \in Nat /\ MaxProofs \in Nat

VARIABLES
    now,
    core, snapshot,     \* the plan's content in the Core and in the execution store
    conf,               \* trading_confirmation
    proofs,             \* the proofs the gateway signed
    client, decider,    \* what the processes hold between their statements
    answered,           \* the confirmations a key was answered with
    session,            \* per confirmation: what its trade session still does with it
    executed            \* the plans that have order intents

trade == <<session, executed>>
vars == <<now, core, snapshot, conf, proofs, client, decider, answered, trade>>

Actions == {"approve", "reject"}
Proof == [action : Actions, conf : Confs, plan : Plans, content : Contents,
          nonce : Nonces, at : 0..MaxNow]
Absent == [status |-> "ABSENT"]
Row == [status : {"PENDING", "APPROVED", "REJECTED", "CONSUMED", "CANCELLED"}, plan : Plans,
        content : Contents, key : Keys \cup {NoKey}, channel : {"none", "cli", "wechat", "approval-proof"},
        nonce : Nonces \cup {None}]
Request == [plan : Plans, content : Contents, key : Keys \cup {NoKey}]
Decision == [proof : Proof, channel : {"wechat", "approval-proof"}]
Idle == [step |-> "idle"]

\* Types of the two stores and of the processes.
TypeOK ==
    /\ now \in 0..MaxNow
    /\ core \in [Plans -> Contents \cup {None}] /\ snapshot \in [Plans -> Contents \cup {None}]
    /\ conf \in [Confs -> Row \cup {Absent}]
    /\ proofs \subseteq Proof
    /\ client \in [Clients -> {Idle} \cup [step : {"insert"}, request : Request]]
    /\ decider \in [Deciders -> {Idle} \cup [step : {"decide"}, decision : Decision]]
    /\ answered \in [Keys -> SUBSET Confs]
    /\ session \in [Confs -> {"none", "asked", "yes"}]
    /\ executed \subseteq Plans

Init ==
    /\ now = 0
    /\ core = [p \in Plans |-> None] /\ snapshot = [p \in Plans |-> None]
    /\ conf = [c \in Confs |-> Absent]
    /\ proofs = {}
    /\ client = [q \in Clients |-> Idle] /\ decider = [d \in Deciders |-> Idle]
    /\ answered = [k \in Keys |-> {}]
    /\ session = [c \in Confs |-> "none"] /\ executed = {}

Tick ==
    /\ now < MaxNow /\ now' = now + 1
    /\ UNCHANGED <<core, snapshot, conf, proofs, client, decider, answered, trade>>

Expired(content) == ExpiryOf[content] <= now

-----------------------------------------------------------------------------
(* Plans and their copies.                                                 *)

\* insert_plan: an id is bound to its content for good; another content raises.
Bound(stored, content) == IF stored = None THEN content ELSE stored

WritePlan(p, content) ==
    /\ core' = [core EXCEPT ![p] = Bound(@, content)]
    /\ UNCHANGED <<now, snapshot, conf, proofs, client, decider, answered, trade>>

-----------------------------------------------------------------------------
(* request_confirmation.                                                   *)

Stored == {c \in Confs : conf[c] # Absent}
WithKey(k) == {c \in Stored : k # NoKey /\ conf[c].key = k}

Answer(r, c) ==
    IF conf[c].plan = r.plan /\ conf[c].content = r.content
    THEN answered' = [answered EXCEPT ![r.key] = @ \cup {c}]
    ELSE UNCHANGED answered

\* The plan is copied, the hash the caller was shown compared, the key looked up.
ReqLookup(q, r) ==
    /\ client[q] = Idle
    /\ core[r.plan] # None /\ snapshot[r.plan] \in {None, core[r.plan]}
    /\ snapshot' = [snapshot EXCEPT ![r.plan] = core[r.plan]]
    /\ IF r.content # core[r.plan] THEN UNCHANGED <<client, answered, trade>>
       ELSE IF WithKey(r.key) # {}
            THEN UNCHANGED client /\ \E c \in WithKey(r.key) : Answer(r, c)
            ELSE /\ client' = [client EXCEPT ![q] = [step |-> "insert", request |-> r]]
                 /\ UNCHANGED answered
    /\ UNCHANGED <<now, core, conf, proofs, decider, trade>>

\* UNIQUE(idempotency_key): whoever comes second gets what the first one stored.
BugTaken(k) == {}
Taken(k) == WithKey(k)

Pending(r) ==
    [status |-> "PENDING", plan |-> r.plan, content |-> r.content, key |-> r.key,
     channel |-> "none", nonce |-> None]

ReqInsert(q, c) ==
    LET r == client[q].request
    IN  /\ client[q] # Idle /\ conf[c] = Absent
        /\ client' = [client EXCEPT ![q] = Idle]
        /\ IF Taken(r.key) # {}
           THEN UNCHANGED conf /\ \E t \in Taken(r.key) : Answer(r, t)
           ELSE /\ conf' = [conf EXCEPT ![c] = Pending(r)]
                /\ answered' = IF r.key = NoKey THEN answered
                               ELSE [answered EXCEPT ![r.key] = @ \cup {c}]
        /\ UNCHANGED <<now, core, snapshot, proofs, decider, trade>>

\* The client's process dies or its answer is lost; it may ask again.
ReqDies(q) ==
    /\ client[q] # Idle /\ client' = [client EXCEPT ![q] = Idle]
    /\ UNCHANGED <<now, core, snapshot, conf, proofs, decider, answered, trade>>

-----------------------------------------------------------------------------
(* Proofs and decisions.                                                   *)

\* The owner signs for a pending confirmation, whatever content the card showed.
Sign(proof) ==
    /\ conf[proof.conf].status = "PENDING" /\ conf[proof.conf].plan = proof.plan /\ proof.at = now /\ Cardinality(proofs) < MaxProofs
    /\ proofs' = proofs \cup {proof}
    /\ UNCHANGED <<now, core, snapshot, conf, client, decider, answered, trade>>

\* HMACIdentityVerifier.verify: the claims and the signature, and the age.
BugVerified(proof, action, c, plan, content) ==
    proof.action = action /\ proof.conf = c /\ proof.plan = plan /\ now - proof.at <= MaxAge
Verified(proof, action, c, plan, content) ==
    /\ proof.action = action /\ proof.conf = c
    /\ proof.plan = plan /\ proof.content = content
    /\ now - proof.at <= MaxAge

Checked(d, proof, channel) ==
    /\ decider' = [decider EXCEPT ![d] =
          [step |-> "decide", decision |-> [proof |-> proof, channel |-> channel]]]
    /\ UNCHANGED <<now, core, snapshot, conf, proofs, client, answered, trade>>

\* ExecutionService.approve, up to its transaction.
ApproveCheck(d, proof) ==
    LET c == conf[proof.conf]
    IN  /\ decider[d] = Idle /\ c # Absent /\ c.status = "PENDING"
        /\ snapshot[c.plan] = c.content /\ ~Expired(c.content)
        /\ Verified(proof, "approve", proof.conf, c.plan, c.content)
        /\ Checked(d, proof, "approval-proof")

\* WechatApprovalAdapter.approve: the plan comes from the caller, expiry is not looked at.
WechatCheck(d, proof) ==
    LET c == conf[proof.conf]
    IN  /\ decider[d] = Idle /\ c # Absent /\ c.status = "PENDING"
        /\ \E shown \in Contents : Verified(proof, "approve", proof.conf, proof.plan, shown)
        /\ Checked(d, proof, "wechat")

\* ExecutionService.reject and WechatApprovalAdapter.reject.
RejectCheck(d, proof, channel) ==
    LET c == conf[proof.conf]
    IN  /\ decider[d] = Idle /\ c # Absent
        /\ channel = "wechat" => c.status = "PENDING"
        /\ Verified(proof, "reject", proof.conf, c.plan, c.content)
        /\ Checked(d, proof, channel)

\* approve_confirmation and reject_confirmation: everything the decision depends on
\* is compared again in the transaction that writes it.
Undecided(c) == conf[c].status = "PENDING"
BugUnused(n) == \A c \in Stored : conf[c].status = "APPROVED" => conf[c].nonce # n
Unused(n) == \A c \in Stored : conf[c].nonce # n

Decide(d) ==
    LET proof == decider[d].decision.proof
        c == proof.conf
        same == conf[c].plan = proof.plan /\ conf[c].content = proof.content
    IN  /\ decider[d] # Idle
        /\ decider' = [decider EXCEPT ![d] = Idle]
        /\ conf' = IF Undecided(c) /\ Unused(proof.nonce) /\ (proof.action = "approve" => same)
                   THEN [conf EXCEPT ![c].nonce = proof.nonce,
                           ![c].channel = decider[d].decision.channel,
                           ![c].status = IF proof.action = "approve" THEN "APPROVED" ELSE "REJECTED"]
                   ELSE conf
        /\ UNCHANGED <<now, core, snapshot, proofs, client, answered, trade>>

DeciderDies(d) ==
    /\ decider[d] # Idle /\ decider' = [decider EXCEPT ![d] = Idle]
    /\ UNCHANGED <<now, core, snapshot, conf, proofs, client, answered, trade>>

\* ConfirmationService.create, at the start of a trade session: the plan is copied and
\* a confirmation without a key stored; nobody is asked for a hash.
CliCreate(c, p) ==
    /\ conf[c] = Absent
    /\ core[p] # None /\ snapshot[p] \in {None, core[p]}
    /\ snapshot' = [snapshot EXCEPT ![p] = core[p]]
    /\ conf' = [conf EXCEPT ![c] = Pending([plan |-> p, content |-> core[p], key |-> NoKey])]
    /\ session' = [session EXCEPT ![c] = "asked"]
    /\ UNCHANGED <<now, core, proofs, client, decider, answered, executed>>

\* ApprovalAdapter.approve, the y of a trade session: no proof, a nonce of its own. The
\* session asks it for PAPER plans only; the adapter refuses no plan.
CliApprove(c) ==
    /\ session[c] = "asked" /\ Undecided(c)
    /\ conf' = [conf EXCEPT ![c].status = "APPROVED", ![c].channel = "cli"]
    /\ session' = [session EXCEPT ![c] = "yes"]
    /\ UNCHANGED <<now, core, snapshot, proofs, client, decider, answered, executed>>

\* set_confirmation_status: what the row became while the session waited for an answer, or
\* for its quotes and its risk check, is not looked at.
CliOverwrites(c, step, status) ==
    /\ session[c] = step
    /\ conf' = [conf EXCEPT ![c].status = status]
    /\ session' = [session EXCEPT ![c] = "none"]
    /\ UNCHANGED <<now, core, snapshot, proofs, client, decider, answered, executed>>
\* No answer, an N, or a phrase that does not match.
CliCancel(c) == CliOverwrites(c, "asked", "CANCELLED")
\* _post_approval, when the pre-trade risk check does not pass.
CliReject(c) == CliOverwrites(c, "yes", "REJECTED")

\* OrderManager.consume, for a plan that has no intents yet; by executiond, or by the
\* session itself.
BugMayConsume(c) == ~Expired(conf[c].content)
MayConsume(c) ==
    /\ conf[c].plan \in LivePlans => conf[c].channel = "approval-proof"
    /\ ~Expired(conf[c].content)
Consume(c, own) ==
    /\ c \in Stored /\ conf[c].status = "APPROVED"
    /\ own => session[c] = "yes"
    /\ snapshot[conf[c].plan] = conf[c].content /\ MayConsume(c)
    /\ conf[c].plan \notin executed
    /\ conf' = [conf EXCEPT ![c].status = "CONSUMED"]
    /\ executed' = executed \cup {conf[c].plan}
    /\ session' = IF own THEN [session EXCEPT ![c] = "none"] ELSE session
    /\ UNCHANGED <<now, core, snapshot, proofs, client, decider, answered>>

Next ==
    \/ Tick
    \/ \E p \in Plans, content \in Contents : WritePlan(p, content)
    \/ \E q \in Clients :
          \/ \E r \in Request : ReqLookup(q, r)
          \/ \E c \in Confs : ReqInsert(q, c)
          \/ ReqDies(q)
    \/ \E c \in Confs, a \in Actions, p \in Plans, content \in Contents, n \in Nonces :
          Sign([action |-> a, conf |-> c, plan |-> p, content |-> content, nonce |-> n, at |-> now])
    \/ \E d \in Deciders :
          \/ \E proof \in proofs :
                \/ ApproveCheck(d, proof) \/ WechatCheck(d, proof)
                \/ \E channel \in {"wechat", "approval-proof"} : RejectCheck(d, proof, channel)
          \/ Decide(d) \/ DeciderDies(d)
    \/ \E c \in Confs : \/ \E p \in Plans : CliCreate(c, p)
                        \/ CliApprove(c) \/ CliCancel(c) \/ CliReject(c)
                        \/ \E own \in BOOLEAN : Consume(c, own)

Spec == Init /\ [][Next]_vars

-----------------------------------------------------------------------------

\* What a decision on a proof says; a session may have written CANCELLED over it.
Action(c) == {a \in Actions : /\ conf[c].status = "REJECTED" => a = "reject"
                              /\ conf[c].status \in {"APPROVED", "CONSUMED"} => a = "approve"}

\* Whatever proofs are handed in where, when and how often: a decision that was made
\* on a proof says what the owner signed, of that confirmation, that plan and that
\* content (approval_wechat.py:133).
DecidedWasSigned ==
    \A c \in Stored : conf[c].channel \in {"wechat", "approval-proof"} =>
        \E proof \in proofs :
            /\ proof.conf = c /\ proof.action \in Action(c) /\ proof.nonce = conf[c].nonce
            /\ proof.plan = conf[c].plan /\ proof.content = conf[c].content

\* A nonce decides one confirmation, even when two processes check it at the same
\* time (db.py:2281).
OneDecisionPerNonce ==
    \A b, c \in Stored : conf[b].nonce # None /\ conf[b].nonce = conf[c].nonce => b = c

\* Retries and races of a request get one confirmation (service.py:141).
RetryGetsTheSame == \A k \in Keys : Cardinality(answered[k]) <= 1

\* A decision stays as it was made, and no proof, retry or second decider changes it: an
\* approval may be consumed, and only the trade session that asked for the confirmation
\* writes over it, once, with a refusal (tc.py:347, tc.py:512).
DecisionStays ==
    [][\A c \in Stored : conf[c].status # "PENDING" /\ conf'[c] # conf[c] =>
          \/ conf[c].status = "APPROVED" /\ conf'[c] = [conf[c] EXCEPT !.status = "CONSUMED"]
          \/ /\ session[c] \in {"asked", "yes"} /\ session'[c] = "none"
             /\ \E refusal \in {"CANCELLED", "REJECTED"} :
                   conf'[c] = [conf[c] EXCEPT !.status = refusal]]_vars

\* What a LIVE plan sends is what the Core store holds and the owner signed, through
\* two copies, a request and a decision in other processes, and whatever a trade session
\* writes over the confirmation afterwards (service.py:93).
LiveConsumedAsSigned ==
    \A p \in executed \cap LivePlans : \E c \in Stored :
        /\ conf[c].plan = p /\ core[p] = conf[c].content /\ snapshot[p] = conf[c].content
        /\ \E proof \in proofs : proof.conf = c /\ proof.action = "approve"
                                 /\ proof.plan = p /\ proof.content = conf[c].content
=============================================================================
