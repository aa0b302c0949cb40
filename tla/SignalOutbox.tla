------------------------------- MODULE SignalOutbox ------------------------------
(***************************************************************************)
(* Signals and their notifications in the Core store: a signal event is    *)
(* stored together with one outbox entry per channel                       *)
(* (record_signal_with_outbox), and dispatchers send the entries           *)
(* (dispatch_signal_outbox).  Each UPDATE commits on its own; a dispatcher *)
(* may die between any two of them, and its answer may be lost.            *)
(***************************************************************************)
EXTENDS Naturals, FiniteSets

CONSTANTS
    Keys,           \* business keys: account, symbol, version, bar and type
    Payloads,       \* what a signal says
    Channels,
    Dispatchers,
    MaxSends        \* bound: messages sent for an entry

NoEvent == <<"no event", 0>>

ASSUME OutboxAssumption ==
    /\ NoEvent \notin Payloads
    /\ MaxSends \in Nat /\ IsFiniteSet(Dispatchers)

VARIABLES
    event,      \* signal_event: the payload stored under a key
    outbox,     \* notification_outbox: the status of an entry
    delivered,  \* messages of an entry that reached the receiver
    todo,       \* per dispatcher: the entries of its list it has not come to
    sending     \* per dispatcher: the entry it is sending, and how far it is

outboxVars == <<event, outbox, delivered, todo, sending>>

Entries == Keys \X Channels
OutboxStatus == {"no entry", "PENDING", "SENDING", "SENT", "FAILED_RETRYABLE"}
NoEntry == <<>>
Resting == [entry |-> NoEntry, step |-> "list"]

\* Types of the store and of the dispatchers.
OutboxTypeOK ==
    /\ event \in [Keys -> Payloads \cup {NoEvent}]
    /\ outbox \in [Entries -> OutboxStatus]
    /\ delivered \in [Entries -> 0..MaxSends]
    /\ todo \in [Dispatchers -> SUBSET Entries]
    /\ sending \in [Dispatchers -> [entry : Entries \cup {NoEntry},
                                    step : {"list", "send", "sent", "failed"}]]

OutboxInit ==
    /\ event = [k \in Keys |-> NoEvent]
    /\ outbox = [e \in Entries |-> "no entry"]
    /\ delivered = [e \in Entries |-> 0]
    /\ todo = [d \in Dispatchers |-> {}]
    /\ sending = [d \in Dispatchers |-> Resting]

\* One transaction stores the event and its entries, or finds them there; the
\* same key with another payload raises and rolls back.
Mismatch(k, payload) == event[k] \notin {NoEvent, payload}

Record(k, payload) ==
    /\ ~Mismatch(k, payload)
    /\ event' = [event EXCEPT ![k] = payload]
    /\ outbox' = [e \in Entries |-> IF e[1] = k /\ outbox[e] = "no entry" THEN "PENDING"
                                    ELSE outbox[e]]
    /\ UNCHANGED <<delivered, todo, sending>>

\* The list is read once; nothing of it is claimed.
List(d) ==
    /\ sending[d] = Resting /\ todo[d] = {}
    /\ todo' = [todo EXCEPT ![d] =
          {e \in Entries : outbox[e] \in {"PENDING", "FAILED_RETRYABLE"}}]
    /\ todo'[d] # {}
    /\ UNCHANGED <<event, outbox, delivered, sending>>

MarkSending(d, e) ==
    /\ sending[d] = Resting /\ e \in todo[d] /\ delivered[e] < MaxSends
    /\ todo' = [todo EXCEPT ![d] = @ \ {e}]
    /\ sending' = [sending EXCEPT ![d] = [entry |-> e, step |-> "send"]]
    /\ outbox' = [outbox EXCEPT ![e] = "SENDING"]
    /\ UNCHANGED <<event, delivered>>

\* The adapter delivers or not, and says so or not: it may only fail to say that
\* it did.
SendEntry(d, reached, ok) ==
    LET e == sending[d].entry
    IN  /\ sending[d].step = "send" /\ (ok => reached)
        /\ reached => delivered[e] < MaxSends
        /\ delivered' = [delivered EXCEPT ![e] = IF reached THEN @ + 1 ELSE @]
        /\ sending' = [sending EXCEPT ![d].step = IF ok THEN "sent" ELSE "failed"]
        /\ UNCHANGED <<event, outbox, todo>>

BugMarkDone(d) ==
    /\ sending[d].step \in {"sent", "failed"}
    /\ outbox' = [outbox EXCEPT ![sending[d].entry] = "SENT"]
    /\ sending' = [sending EXCEPT ![d] = Resting]
    /\ UNCHANGED <<event, delivered, todo>>
MarkDone(d) ==
    /\ sending[d].step \in {"sent", "failed"}
    /\ outbox' = [outbox EXCEPT ![sending[d].entry] =
          IF sending[d].step = "sent" THEN "SENT" ELSE "FAILED_RETRYABLE"]
    /\ sending' = [sending EXCEPT ![d] = Resting]
    /\ UNCHANGED <<event, delivered, todo>>

DispatcherDies(d) ==
    /\ todo' = [todo EXCEPT ![d] = {}]
    /\ sending' = [sending EXCEPT ![d] = Resting]
    /\ UNCHANGED <<event, outbox, delivered>>

-----------------------------------------------------------------------------

\* A stored signal is an immutable fact: whatever is recorded later under its key,
\* by whichever process, its payload stays (db.py:1256).
EventsAreFacts ==
    [][\A k \in Keys : event[k] # NoEvent => event'[k] = event[k]]_outboxVars

\* A signal exists with an entry for every channel or not at all: nobody can see
\* one whose notification was lost (db.py:1240).
EveryEventIsQueued ==
    \A k \in Keys, c \in Channels : event[k] # NoEvent <=> outbox[<<k, c>>] # "no entry"

\* What is marked SENT was delivered, although dispatchers that do not know of
\* each other overwrite the status and may die in between (notification.py:150).
SentWasDelivered ==
    \A e \in Entries : outbox[e] = "SENT" => delivered[e] > 0

\* An entry that only one dispatcher works on is sent again only when an answer
\* said it was not: recording the signal again does not put it back.
SentStays ==
    [][Cardinality(Dispatchers) = 1 =>
        \A e \in Entries : outbox[e] = "SENT" => outbox'[e] = "SENT"]_outboxVars

\* From notification.py:122, "Worker 崩溃后任务保留": when no dispatcher is at work
\* an entry that was not sent is one the next dispatcher will list.
KeptForTheNext ==
    (\A d \in Dispatchers : sending[d] = Resting) =>
        \A e \in Entries : outbox[e] \in {"no entry", "PENDING", "FAILED_RETRYABLE", "SENT"}
=============================================================================
