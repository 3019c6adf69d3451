------------------------------- MODULE EventBus -------------------------------
(***************************************************************************)
(* event_bus.py: one log of events that consumers claim, acknowledge, hand *)
(* back or fail, with a lease, a bounded number of deliveries and a dead   *)
(* letter state.  Every method is one BEGIN IMMEDIATE transaction.         *)
(*                                                                         *)
(* A consumer is a drain of the queue loop or a client of the event tools: *)
(* it may call with the token of its last claim at any later time, in any  *)
(* order, or never again.  Abstracted: types and projects (one stream, and *)
(* every consumer takes any event) and payloads.                           *)
(***************************************************************************)
EXTENDS Naturals, Sequences

CONSTANTS
    Keys,           \* idempotency keys of the producers
    Consumers,
    MAX_ATTEMPTS,
    MaxSeq,         \* bound on the number of events
    MaxRetries      \* bound on retry calls per event

ASSUME BusAssumption ==
    /\ MAX_ATTEMPTS \in Nat \ {0}
    /\ MaxSeq \in Nat /\ MaxRetries \in Nat

VARIABLES
    log,            \* the idempotency key of every event, in the order of seq
    state,          \* its status
    tries,          \* attempt_count
    token,          \* claim_token: the number of the claim, 0 for NULL
    issued,         \* claims of the event so far
    lapsed,         \* lease_expires_at is in the past
    hand,           \* the event and the token of each consumer's last claim
    retries         \* retry calls that were applied
claimVars == <<tries, token, issued, lapsed, hand, retries>>
busVars == <<log, state, claimVars>>

Seqs == 1..MaxSeq
NoHand == [seq |-> 0, token |-> 0]

BusTypeOK ==
    /\ Len(log) <= MaxSeq
    /\ state \in [Seqs -> {"ABSENT", "PENDING", "CLAIMED", "ACKED", "FAILED"}]
    /\ \A e \in Seqs : state[e] = "ABSENT" <=> e > Len(log)
    /\ tries \in [Seqs -> 0..MAX_ATTEMPTS]
    /\ issued \in [Seqs -> Nat]
    /\ token \in [Seqs -> Nat]
    /\ \A e \in Seqs : token[e] \in {0, issued[e]} /\ (state[e] = "CLAIMED" => token[e] # 0)
    /\ lapsed \in [Seqs -> BOOLEAN]
    /\ hand \in [Consumers -> [seq : 0..MaxSeq, token : Nat]]
    /\ retries \in [Seqs -> 0..MaxRetries]

BusInit ==
    /\ log = <<>>
    /\ state = [e \in Seqs |-> "ABSENT"]
    /\ tries = [e \in Seqs |-> 0]
    /\ token = [e \in Seqs |-> 0]
    /\ issued = [e \in Seqs |-> 0]
    /\ lapsed = [e \in Seqs |-> FALSE]
    /\ hand = [c \in Consumers |-> NoHand]
    /\ retries = [e \in Seqs |-> 0]

-------------------------------------------------------------------------------
\* publish: a key that the log has already creates nothing.
IsPublished(k) == \E e \in 1..Len(log) : log[e] = k

Publish(k) ==
    /\ ~IsPublished(k)
    /\ Len(log) < MaxSeq
    /\ log' = Append(log, k)
    /\ state' = [state EXCEPT ![Len(log) + 1] = "PENDING"]
    /\ UNCHANGED claimVars

\* Neither settled nor in the hands of a consumer with a live lease.
Deliverable == {e \in Seqs : state[e] = "PENDING" \/ (state[e] = "CLAIMED" /\ lapsed[e])}

\* _dead_letter_exhausted_locked
NoneExhausted == {}

Exhausted == {e \in Deliverable : tries[e] >= MAX_ATTEMPTS}

EligibleOnceMore == {e \in Deliverable : tries[e] <= MAX_ATTEMPTS}

Eligible == {e \in Deliverable : tries[e] < MAX_ATTEMPTS}

\* claim_next: the exhausted events are failed, then the oldest of the others
\* is claimed, if there is one.
ClaimNext(c) ==
    LET taken == {e \in Eligible : \A f \in Eligible : e <= f} IN
    /\ Exhausted \cup taken # {}
    /\ state' = [e \in Seqs |-> IF e \in taken THEN "CLAIMED"
                                ELSE IF e \in Exhausted THEN "FAILED" ELSE state[e]]
    /\ tries' = [e \in Seqs |-> IF e \in taken THEN tries[e] + 1 ELSE tries[e]]
    /\ issued' = [e \in Seqs |-> IF e \in taken THEN issued[e] + 1 ELSE issued[e]]
    /\ token' = [e \in Seqs |-> IF e \in taken THEN issued[e] + 1
                                ELSE IF e \in Exhausted THEN 0 ELSE token[e]]
    /\ lapsed' = [e \in Seqs |-> lapsed[e] /\ e \notin taken \cup Exhausted]
    /\ hand' = [hand EXCEPT ![c] = IF taken = {} THEN @
                                   ELSE LET e == CHOOSE e \in taken : TRUE
                                        IN [seq |-> e, token |-> issued[e] + 1]]
    /\ UNCHANGED <<log, retries>>

-------------------------------------------------------------------------------
\* A consumer's token is the one in the row.
TokenFits(c) == hand[c].seq \in Seqs /\ token[hand[c].seq] = hand[c].token

\* ack: the token stays in the row.
Ack(c) ==
    /\ TokenFits(c) /\ state[hand[c].seq] = "CLAIMED"
    /\ state' = [state EXCEPT ![hand[c].seq] = "ACKED"]
    /\ lapsed' = [lapsed EXCEPT ![hand[c].seq] = FALSE]
    /\ UNCHANGED <<log, tries, token, issued, hand, retries>>

\* release and fail look at the token only: they also apply to an event that
\* is settled already.
ReleaseForgets(c) ==
    /\ TokenFits(c)
    /\ state' = [state EXCEPT ![hand[c].seq] = "PENDING"]
    /\ token' = [token EXCEPT ![hand[c].seq] = 0]
    /\ tries' = [tries EXCEPT ![hand[c].seq] = 0]
    /\ lapsed' = [lapsed EXCEPT ![hand[c].seq] = FALSE]
    /\ UNCHANGED <<log, issued, hand, retries>>

Release(c) ==
    /\ TokenFits(c)
    /\ state' = [state EXCEPT ![hand[c].seq] = "PENDING"]
    /\ token' = [token EXCEPT ![hand[c].seq] = 0]
    /\ lapsed' = [lapsed EXCEPT ![hand[c].seq] = FALSE]
    /\ UNCHANGED <<log, tries, issued, hand, retries>>

Fail(c) ==
    /\ TokenFits(c)
    /\ state' = [state EXCEPT ![hand[c].seq] = "FAILED"]
    /\ lapsed' = [lapsed EXCEPT ![hand[c].seq] = FALSE]
    /\ UNCHANGED <<log, tries, token, issued, hand, retries>>

\* retry, by the operator.
Retry(e) ==
    /\ state[e] = "FAILED" /\ retries[e] < MaxRetries
    /\ state' = [state EXCEPT ![e] = "PENDING"]
    /\ tries' = [tries EXCEPT ![e] = 0]
    /\ token' = [token EXCEPT ![e] = 0]
    /\ lapsed' = [lapsed EXCEPT ![e] = FALSE]
    /\ retries' = [retries EXCEPT ![e] = @ + 1]
    /\ UNCHANGED <<log, issued, hand>>

Lapse(e) ==
    /\ state[e] = "CLAIMED" /\ ~lapsed[e]
    /\ lapsed' = [lapsed EXCEPT ![e] = TRUE]
    /\ UNCHANGED <<log, state, tries, token, issued, hand, retries>>

BusNext ==
    \/ \E k \in Keys : Publish(k)
    \/ \E c \in Consumers : ClaimNext(c) \/ Ack(c) \/ Release(c) \/ Fail(c)
    \/ \E e \in Seqs : Retry(e) \/ Lapse(e)

\* The queue loop calls claim_next in every cycle, and time passes: nothing
\* is assumed of the consumers, which may die with an event in hand.
BusSpec ==
    /\ BusInit /\ [][BusNext]_busVars
    /\ WF_busVars(\E c \in Consumers : ClaimNext(c))
    /\ \A e \in Seqs : WF_busVars(Lapse(e))

-------------------------------------------------------------------------------
\* "a poison event cannot loop forever": however often it is released, failed,
\* abandoned or resurrected by a late call, an event is delivered at most
\* MAX_ATTEMPTS times for its publication and for every retry of the operator.
DeliveryBudget == \A e \in Seqs : issued[e] <= MAX_ATTEMPTS * (1 + retries[e])

\* "A poison event has to become visible, not just stop moving" (claim_next): an
\* event that waits or was claimed is acknowledged or dead-lettered in the end,
\* whatever its consumers do.
EverySettles == \A e \in Seqs : state[e] \in {"PENDING", "CLAIMED"} ~> state[e] \in {"ACKED", "FAILED"}
===============================================================================
