------------------------------- MODULE BusProofs -------------------------------
(***************************************************************************)
(* Proofs about EventBus, for any number of consumers, keys and events and *)
(* any attempt budget, and about ProjectCoordinator, which drains it, for  *)
(* any number of drains, events and keys and any batch size.               *)
(***************************************************************************)
EXTENDS ProjectCoordinator, TLAPS

\* What DeliveryBudget needs to be inductive: attempt_count has counted every
\* delivery since the last retry.
Counted == \A e \in Seqs : issued[e] <= MAX_ATTEMPTS * retries[e] + tries[e]

\* A token that fits belongs to an event: nobody holds one that is not in the log.
HandsInLog == \A c \in Consumers : hand[c].seq <= Len(log)

BusInv == BusTypeOK /\ log \in Seq(Keys) /\ HandsInLog /\ Counted

\* One more retry is worth MAX_ATTEMPTS more deliveries.
LEMMA BudgetStep ==
    ASSUME NEW r \in Nat
    PROVE  /\ MAX_ATTEMPTS \in Nat /\ MAX_ATTEMPTS * r \in Nat
           /\ MAX_ATTEMPTS * (r + 1) = MAX_ATTEMPTS * r + MAX_ATTEMPTS
           /\ MAX_ATTEMPTS * (1 + r) = MAX_ATTEMPTS * r + MAX_ATTEMPTS
BY BusAssumption

\* The budget follows from the count.
LEMMA CountedSuffices == BusInv => DeliveryBudget
<1> SUFFICES ASSUME BusInv, NEW e \in Seqs
             PROVE  issued[e] <= MAX_ATTEMPTS * (1 + retries[e])
  BY DEF DeliveryBudget
<1>1. retries[e] \in Nat /\ tries[e] \in 0..MAX_ATTEMPTS /\ issued[e] \in Nat
  BY BusAssumption DEF BusInv, BusTypeOK
<1>2. issued[e] <= MAX_ATTEMPTS * retries[e] + tries[e]
  BY DEF BusInv, Counted
<1>3. PICK used \in Nat : used = MAX_ATTEMPTS * retries[e]
  BY <1>1, BudgetStep
<1>4. MAX_ATTEMPTS * (1 + retries[e]) = used + MAX_ATTEMPTS /\ MAX_ATTEMPTS \in Nat
  BY <1>1, <1>3, BudgetStep
<1>5. issued[e] <= used + tries[e]
  BY <1>2, <1>3
<1>6. issued[e] <= used + MAX_ATTEMPTS
  BY <1>1, <1>4, <1>5
<1> QED BY <1>4, <1>6

\* The initial state: no events.
LEMMA BusInitInv == BusInit => BusInv
<1> SUFFICES ASSUME BusInit PROVE BusInv
  OBVIOUS
<1> USE DEF BusInit
<1>1. MaxSeq \in Nat /\ MaxRetries \in Nat /\ MAX_ATTEMPTS \in Nat /\ Len(log) = 0
  BY BusAssumption
<1>2. /\ tries \in [Seqs -> 0..MAX_ATTEMPTS] /\ retries \in [Seqs -> 0..MaxRetries]
      /\ issued \in [Seqs -> Nat] /\ token \in [Seqs -> Nat]
      /\ state \in [Seqs -> {"ABSENT", "PENDING", "CLAIMED", "ACKED", "FAILED"}]
  BY <1>1
<1>3. lapsed \in [Seqs -> BOOLEAN]
  OBVIOUS
<1>4. hand \in [Consumers -> [seq : 0..MaxSeq, token : Nat]]
  BY <1>1 DEF NoHand
<1>5. \A e \in Seqs : state[e] = "ABSENT" <=> e > Len(log)
  BY <1>1 DEF Seqs
<1>6. \A e \in Seqs : token[e] \in {0, issued[e]} /\ (state[e] = "CLAIMED" => token[e] # 0)
  OBVIOUS
<1>7. Counted
  BY <1>1 DEF Counted
<1>8. HandsInLog
  BY <1>1 DEF HandsInLog, NoHand
<1> QED BY <1>1, <1>2, <1>3, <1>4, <1>5, <1>6, <1>7, <1>8 DEF BusInv, BusTypeOK

\* Steps that leave the counters alone: what is left to show of each of them.
LEMMA SameCounters ==
    ASSUME BusInv, UNCHANGED <<log, tries, issued, hand, retries>>,
           state' \in [Seqs -> {"ABSENT", "PENDING", "CLAIMED", "ACKED", "FAILED"}],
           \A e \in Seqs : state'[e] = "ABSENT" <=> state[e] = "ABSENT",
           token' \in [Seqs -> Nat],
           \A e \in Seqs : token'[e] \in {0, token[e]},
           \A e \in Seqs : state'[e] = "CLAIMED" => state[e] = "CLAIMED" /\ token'[e] = token[e],
           lapsed' \in [Seqs -> BOOLEAN]
    PROVE  BusInv'
<1>1. \A e \in Seqs : token'[e] \in {0, issued[e]} /\ (state'[e] = "CLAIMED" => token'[e] # 0)
  BY DEF BusInv, BusTypeOK
<1>2. BusTypeOK'
  BY <1>1 DEF BusInv, BusTypeOK
<1>3. Counted' /\ HandsInLog'
  BY DEF BusInv, Counted, HandsInLog
<1> QED BY <1>2, <1>3 DEF BusInv

\* The row of one event is settled or handed back, with its token or without.
LEMMA SettledKeepsBus ==
    ASSUME BusInv, NEW d \in Seqs, d <= Len(log), NEW s \in {"PENDING", "ACKED", "FAILED"},
           state' = [state EXCEPT ![d] = s], lapsed' = [lapsed EXCEPT ![d] = FALSE],
           token' = token \/ token' = [token EXCEPT ![d] = 0],
           UNCHANGED <<log, tries, issued, hand, retries>>
    PROVE  BusInv'
<1>1. state[d] # "ABSENT"
  BY DEF BusInv, BusTypeOK, Seqs
<1>2. lapsed' \in [Seqs -> BOOLEAN]
  BY DEF BusInv, BusTypeOK
<1>3. /\ state' \in [Seqs -> {"ABSENT", "PENDING", "CLAIMED", "ACKED", "FAILED"}]
      /\ \A e \in Seqs : state'[e] = "ABSENT" <=> state[e] = "ABSENT"
  BY <1>1 DEF BusInv, BusTypeOK
<1>4. token' \in [Seqs -> Nat] /\ \A e \in Seqs : token'[e] \in {0, token[e]}
  BY DEF BusInv, BusTypeOK
<1>5. \A e \in Seqs : state'[e] = "CLAIMED" => state[e] = "CLAIMED" /\ token'[e] = token[e]
  BY DEF BusInv, BusTypeOK
<1> QED BY <1>2, <1>3, <1>4, <1>5, SameCounters

\* A producer publishes a new key (publish).
LEMMA PublishKeepsBus ==
    ASSUME BusInv, NEW k \in Keys, Publish(k)
    PROVE  BusInv'
<1>1. /\ log' \in Seq(Keys) /\ Len(log') = Len(log) + 1 /\ Len(log') <= MaxSeq
      /\ Len(log) \in Nat /\ Len(log) + 1 \in Seqs
  BY BusAssumption DEF BusInv, Publish, Seqs
<1>2. state' = [state EXCEPT ![Len(log) + 1] = "PENDING"]
  BY DEF Publish
<1>3. state' \in [Seqs -> {"ABSENT", "PENDING", "CLAIMED", "ACKED", "FAILED"}]
  BY <1>1, <1>2 DEF BusInv, BusTypeOK
<1>4. ASSUME NEW e \in Seqs
      PROVE  /\ state'[e] = "ABSENT" <=> e > Len(log')
             /\ state'[e] = "CLAIMED" => state[e] = "CLAIMED"
  <2>1. e \in Nat /\ (state[e] = "ABSENT" <=> e > Len(log))
    BY DEF BusInv, BusTypeOK, Seqs
  <2>2. CASE e = Len(log) + 1
    BY <1>1, <1>2, <2>2 DEF BusInv, BusTypeOK
  <2>3. CASE e # Len(log) + 1
    BY <1>1, <1>2, <2>1, <2>3 DEF BusInv, BusTypeOK
  <2> QED BY <2>2, <2>3
<1>5. UNCHANGED <<tries, token, issued, lapsed, hand, retries>>
  BY DEF Publish, claimVars
<1>6. BusTypeOK'
  BY <1>1, <1>3, <1>4, <1>5 DEF BusInv, BusTypeOK
<1>7. Counted'
  BY <1>5 DEF BusInv, Counted
<1>8. HandsInLog'
  BY <1>1, <1>5 DEF BusInv, HandsInLog, BusTypeOK
<1> QED BY <1>1, <1>6, <1>7, <1>8 DEF BusInv

\* A delivery costs one attempt and an exhausted event costs nothing more
\* (claim_next, _dead_letter_exhausted_locked).
LEMMA ClaimKeepsBus ==
    ASSUME BusInv, NEW c \in Consumers, ClaimNext(c)
    PROVE  BusInv'
<1> DEFINE taken == {e \in Eligible : \A f \in Eligible : e <= f}
<1>1. /\ state' = [e \in Seqs |-> IF e \in taken THEN "CLAIMED"
                                  ELSE IF e \in Exhausted THEN "FAILED" ELSE state[e]]
      /\ tries' = [e \in Seqs |-> IF e \in taken THEN tries[e] + 1 ELSE tries[e]]
      /\ issued' = [e \in Seqs |-> IF e \in taken THEN issued[e] + 1 ELSE issued[e]]
      /\ token' = [e \in Seqs |-> IF e \in taken THEN issued[e] + 1
                                  ELSE IF e \in Exhausted THEN 0 ELSE token[e]]
      /\ lapsed' = [e \in Seqs |-> lapsed[e] /\ e \notin taken \cup Exhausted]
      /\ UNCHANGED <<log, retries>>
  BY DEF ClaimNext
<1>2. hand' = [hand EXCEPT ![c] = IF taken = {} THEN @
                                  ELSE LET e == CHOOSE e \in taken : TRUE
                                       IN [seq |-> e, token |-> issued[e] + 1]]
  BY DEF ClaimNext
<1>3. taken \subseteq Seqs /\ \A e \in taken : state[e] # "ABSENT" /\ tries[e] < MAX_ATTEMPTS
  BY DEF Eligible, Deliverable
<1>4. Exhausted \subseteq Seqs /\ \A e \in Exhausted : state[e] # "ABSENT"
  BY DEF Exhausted, Deliverable
<1>5. MaxSeq \in Nat /\ MAX_ATTEMPTS \in Nat
  BY BusAssumption
<1> HIDE DEF taken
<1>6. /\ state' \in [Seqs -> {"ABSENT", "PENDING", "CLAIMED", "ACKED", "FAILED"}]
      /\ \A e \in Seqs : state'[e] = "ABSENT" <=> state[e] = "ABSENT"
  BY <1>1, <1>3, <1>4 DEF BusInv, BusTypeOK
<1>7. tries' \in [Seqs -> 0..MAX_ATTEMPTS] /\ issued' \in [Seqs -> Nat] /\ token' \in [Seqs -> Nat]
  BY <1>1, <1>3, <1>5 DEF BusInv, BusTypeOK
<1>8. lapsed' \in [Seqs -> BOOLEAN]
  BY <1>1
<1>9. hand' \in [Consumers -> [seq : 0..MaxSeq, token : Nat]]
  <2>1. CASE taken = {}
    BY <1>2, <2>1 DEF BusInv, BusTypeOK
  <2>2. CASE taken # {}
    <3>1. PICK e : e = CHOOSE x \in taken : TRUE
      OBVIOUS
    <3>2. e \in Seqs
      BY <1>3, <2>2, <3>1
    <3>3. e \in 0..MaxSeq /\ issued[e] + 1 \in Nat
      BY <1>5, <3>2 DEF BusInv, BusTypeOK, Seqs
    <3>4. hand' = [hand EXCEPT ![c] = [seq |-> e, token |-> issued[e] + 1]]
      BY <1>2, <2>2, <3>1
    <3> QED BY <3>3, <3>4 DEF BusInv, BusTypeOK
  <2> QED BY <2>1, <2>2
<1>10. \A e \in Seqs : token'[e] \in {0, issued'[e]} /\ (state'[e] = "CLAIMED" => token'[e] # 0)
  BY <1>1, <1>3, <1>4 DEF BusInv, BusTypeOK
<1>11. BusTypeOK'
  BY <1>1, <1>6, <1>7, <1>8, <1>9, <1>10 DEF BusInv, BusTypeOK
<1>12. ASSUME NEW e \in Seqs
       PROVE  issued'[e] <= MAX_ATTEMPTS * retries'[e] + tries'[e]
  <2>1. retries[e] \in Nat /\ tries[e] \in Nat /\ issued[e] \in Nat /\ retries'[e] = retries[e]
    BY <1>1, BusAssumption DEF BusInv, BusTypeOK
  <2>2. PICK used \in Nat : used = MAX_ATTEMPTS * retries[e]
    BY <2>1, BudgetStep
  <2>3. issued[e] <= used + tries[e]
    BY <2>2 DEF BusInv, Counted
  <2>4. issued'[e] <= used + tries'[e]
    BY <1>1, <2>1, <2>3
  <2> QED BY <2>1, <2>2, <2>4
<1>13. HandsInLog'
  <2>1. CASE taken = {}
    BY <1>1, <1>2, <2>1 DEF BusInv, BusTypeOK, HandsInLog
  <2>2. CASE taken # {}
    <3>1. PICK e : e = CHOOSE x \in taken : TRUE
      OBVIOUS
    <3>2. e \in Seqs /\ state[e] # "ABSENT"
      BY <1>3, <2>2, <3>1
    <3>3. e <= Len(log)
      BY <3>2 DEF BusInv, BusTypeOK, Seqs
    <3>4. hand' = [hand EXCEPT ![c] = [seq |-> e, token |-> issued[e] + 1]]
      BY <1>2, <2>2, <3>1
    <3> QED BY <1>1, <3>3, <3>4 DEF BusInv, BusTypeOK, HandsInLog
  <2> QED BY <2>1, <2>2
<1> QED BY <1>1, <1>11, <1>12, <1>13 DEF BusInv, Counted

\* The operator's retry starts a new budget, and is counted itself (retry).
LEMMA RetryKeepsBus ==
    ASSUME BusInv, NEW d \in Seqs, Retry(d)
    PROVE  BusInv'
<1> USE DEF Retry
<1>1. BusTypeOK'
  <2>1. /\ tries' \in [Seqs -> 0..MAX_ATTEMPTS] /\ token' \in [Seqs -> Nat]
        /\ retries' \in [Seqs -> 0..MaxRetries]
    BY BusAssumption DEF BusInv, BusTypeOK
  <2>2. lapsed' \in [Seqs -> BOOLEAN]
    BY DEF BusInv, BusTypeOK
  <2>3. state' \in [Seqs -> {"ABSENT", "PENDING", "CLAIMED", "ACKED", "FAILED"}]
    BY DEF BusInv, BusTypeOK
  <2>4. \A e \in Seqs : state'[e] = "ABSENT" <=> e > Len(log')
    BY DEF BusInv, BusTypeOK
  <2>5. \A e \in Seqs : token'[e] \in {0, issued'[e]} /\ (state'[e] = "CLAIMED" => token'[e] # 0)
    BY DEF BusInv, BusTypeOK
  <2> QED BY <2>1, <2>2, <2>3, <2>4, <2>5 DEF BusInv, BusTypeOK
<1>2. ASSUME NEW e \in Seqs
      PROVE  issued'[e] <= MAX_ATTEMPTS * retries'[e] + tries'[e]
  <2>1. /\ retries[e] \in Nat /\ tries[e] \in 0..MAX_ATTEMPTS /\ issued[e] \in Nat
        /\ MAX_ATTEMPTS \in Nat
    BY BusAssumption DEF BusInv, BusTypeOK
  <2>2. PICK used \in Nat : used = MAX_ATTEMPTS * retries[e]
    BY <2>1, BudgetStep
  <2>3. issued[e] <= used + tries[e]
    BY <2>2 DEF BusInv, Counted
  <2>4. CASE e = d
    <3>1. retries'[e] = retries[e] + 1 /\ tries'[e] = 0
      BY <2>4 DEF BusInv, BusTypeOK
    <3>2. MAX_ATTEMPTS * retries'[e] = used + MAX_ATTEMPTS
      BY <2>1, <2>2, <3>1, BudgetStep
    <3>3. issued[e] <= used + MAX_ATTEMPTS + 0
      BY <2>1, <2>3
    <3> QED BY <3>1, <3>2, <3>3
  <2>5. CASE e # d
    <3>1. retries'[e] = retries[e] /\ tries'[e] = tries[e]
      BY <2>5 DEF BusInv, BusTypeOK
    <3> QED BY <2>2, <2>3, <3>1
  <2> QED BY <2>4, <2>5
<1>3. HandsInLog'
  BY DEF BusInv, HandsInLog
<1> QED BY <1>1, <1>2, <1>3 DEF BusInv, Counted

\* Every step of consumers, producers, operator and time keeps the invariant.
LEMMA BusStep == BusInv /\ [BusNext]_busVars => BusInv'
<1> SUFFICES ASSUME BusInv, [BusNext]_busVars PROVE BusInv'
  OBVIOUS
<1>1. CASE \E k \in Keys : Publish(k)
  BY <1>1, PublishKeepsBus
<1>2. ASSUME NEW c \in Consumers, ClaimNext(c) PROVE BusInv'
  BY <1>2, ClaimKeepsBus
<1>3. ASSUME NEW c \in Consumers, TokenFits(c)
      PROVE  hand[c].seq \in Seqs /\ hand[c].seq <= Len(log)
  BY <1>3 DEF TokenFits, BusInv, HandsInLog
<1>4. ASSUME NEW c \in Consumers, Ack(c) PROVE BusInv'
  <2>1. PICK d \in Seqs : d = hand[c].seq /\ d <= Len(log)
    BY <1>3, <1>4 DEF Ack
  <2> QED BY <1>4, <2>1, SettledKeepsBus DEF Ack
<1>5. ASSUME NEW c \in Consumers, Release(c) PROVE BusInv'
  <2>1. PICK d \in Seqs : d = hand[c].seq /\ d <= Len(log)
    BY <1>3, <1>5 DEF Release
  <2> QED BY <1>5, <2>1, SettledKeepsBus DEF Release
<1>6. ASSUME NEW c \in Consumers, Fail(c) PROVE BusInv'
  <2>1. PICK d \in Seqs : d = hand[c].seq /\ d <= Len(log)
    BY <1>3, <1>6 DEF Fail
  <2> QED BY <1>6, <2>1, SettledKeepsBus DEF Fail
<1>7. ASSUME NEW e \in Seqs, Retry(e) PROVE BusInv'
  BY <1>7, RetryKeepsBus
<1>8. ASSUME NEW e \in Seqs, Lapse(e) PROVE BusInv'
  <2>1. lapsed' \in [Seqs -> BOOLEAN]
    BY <1>8 DEF Lapse, BusInv, BusTypeOK
  <2>2. UNCHANGED <<log, state, tries, token, issued, hand, retries>>
    BY <1>8 DEF Lapse
  <2> QED BY <2>1, <2>2, SameCounters DEF BusInv, BusTypeOK
<1>9. CASE UNCHANGED busVars
  BY <1>9 DEF busVars, claimVars, BusInv, BusTypeOK, Counted, HandsInLog
<1> QED BY <1>1, <1>2, <1>4, <1>5, <1>6, <1>7, <1>8, <1>9 DEF BusNext

-------------------------------------------------------------------------------
\* The bus keeps its types: a claimed event always has a token, the one of its
\* latest claim, and no event is delivered beyond its attempt count.
THEOREM BusTypeCorrect == BusSpec => []BusTypeOK
<1>1. BusInv => BusTypeOK
  BY DEF BusInv
<1> QED BY <1>1, BusInitInv, BusStep, PTL DEF BusSpec

\* Whatever consumers do with old and new tokens, an event is delivered at most
\* MAX_ATTEMPTS times for its publication and for every retry (claim_next).
THEOREM BudgetHolds == BusSpec => []DeliveryBudget
<1> QED BY CountedSuffices, BusInitInv, BusStep, PTL DEF BusSpec

-------------------------------------------------------------------------------
\* ProjectCoordinator.

\* What makes the cursor safe: a drain has a decision for everything up to the
\* last event it looked at, and everything below an event of its batch is in
\* the batch or decided already.
BatchInv ==
    \A d \in Drains :
        /\ \A e \in 1..highest[d] : Covered(e)
        /\ \A e \in batch[d] : \A f \in 1..e : f \in batch[d] \/ Covered(f)

\* What makes its decisions unambiguous: the batch is newer than the snapshot.
SnapshotInv ==
    /\ \A d \in Drains : pc[d] # "deciding" => batch[d] = {}
    /\ \A d \in Drains : \A e \in batch[d] : e > acted[d]
    /\ \A d \in Drains : found[d] => everPaused
    /\ paused => everPaused

CoordInv == CoordTypeOK /\ BatchInv /\ SnapshotInv /\ NothingSkipped /\ HeldOnlyWhenPaused

\* The log only grows, so what is decided stays decided (publish).
LEMMA PublishKeepsLog ==
    ASSUME CoordTypeOK, NEW k \in Keys \cup Decisions, Publish(k)
    PROVE  /\ log' \in Seq(Keys \cup Decisions)
           /\ Len(log') = Len(log) + 1
           /\ \A e \in 1..Len(log) : log'[e] = log[e]
           /\ log'[Len(log) + 1] = k
           /\ BusTypeOK'
<1>1. log \in Seq(Keys \cup Decisions) /\ BusTypeOK
  BY DEF CoordTypeOK
<1>2. log' = Append(log, k) /\ Len(log) < MaxSeq
  BY DEF Publish
<1>3. /\ log' \in Seq(Keys \cup Decisions)
      /\ Len(log') = Len(log) + 1
      /\ \A e \in 1..Len(log) : log'[e] = log[e]
      /\ log'[Len(log) + 1] = k
  BY <1>1, <1>2
<1>4. Len(log) \in Nat /\ MaxSeq \in Nat
  BY <1>1, BusAssumption
<1>5. BusTypeOK'
  <2>1. state' = [state EXCEPT ![Len(log) + 1] = "PENDING"] /\ Len(log) + 1 \in Seqs
    BY <1>2, <1>4 DEF Publish, Seqs
  <2>2. state' \in [Seqs -> {"ABSENT", "PENDING", "CLAIMED", "ACKED", "FAILED"}]
    BY <1>1, <2>1 DEF BusTypeOK
  <2>3. ASSUME NEW e \in Seqs
        PROVE  state'[e] = "ABSENT" <=> e > Len(log')
    <3>1. e \in Nat /\ (state[e] = "ABSENT" <=> e > Len(log))
      BY <1>1 DEF BusTypeOK, Seqs
    <3>2. CASE e = Len(log) + 1
      BY <1>1, <1>3, <1>4, <2>1, <3>2 DEF BusTypeOK
    <3>3. CASE e # Len(log) + 1
      BY <1>1, <1>3, <1>4, <2>1, <3>1, <3>3 DEF BusTypeOK
    <3> QED BY <3>2, <3>3
  <2>4. ASSUME NEW e \in Seqs
        PROVE  token[e] \in {0, issued[e]} /\ (state'[e] = "CLAIMED" => token[e] # 0)
    <3>1. state'[e] = "CLAIMED" => state[e] = "CLAIMED"
      BY <1>1, <2>1 DEF BusTypeOK
    <3> QED BY <1>1, <3>1 DEF BusTypeOK
  <2>5. Len(log') <= MaxSeq
    BY <1>2, <1>3, <1>4
  <2>6. UNCHANGED <<tries, token, issued, lapsed, hand, retries>>
    BY DEF Publish, claimVars
  <2> QED BY <1>1, <2>2, <2>3, <2>4, <2>5, <2>6 DEF BusTypeOK
<1> QED BY <1>3, <1>5

\* A published key stays published, and a covered event stays covered.
LEMMA PublishKeepsCovered ==
    ASSUME CoordTypeOK, NEW k \in Keys \cup Decisions, Publish(k)
    PROVE  /\ \A x : IsPublished(x) => IsPublished(x)'
           /\ \A x : IsPublished(x)' => IsPublished(x) \/ x = k
           /\ IsPublished(k)'
           /\ \A e \in 1..Len(log) : Covered(e) => Covered(e)'
<1>1. /\ Len(log) \in Nat
      /\ Len(log') = Len(log) + 1
      /\ \A e \in 1..Len(log) : log'[e] = log[e]
      /\ log'[Len(log) + 1] = k
  <2>1. log \in Seq(Keys \cup Decisions)
    BY DEF CoordTypeOK
  <2> QED BY <2>1, PublishKeepsLog
<1>2. \A x : IsPublished(x) => IsPublished(x)'
  BY <1>1 DEF IsPublished
<1>3. \A x : IsPublished(x)' => IsPublished(x) \/ x = k
  BY <1>1 DEF IsPublished
<1>4. IsPublished(k)'
  BY <1>1 DEF IsPublished
<1>5. ASSUME NEW e \in 1..Len(log), Covered(e)
      PROVE  Covered(e)'
  BY <1>1, <1>2, <1>5 DEF Covered, Decision
<1> QED BY <1>2, <1>3, <1>4, <1>5

\* The initial state.
LEMMA InitCoordInv == CoordInit => CoordInv
<1> SUFFICES ASSUME CoordInit PROVE CoordInv
  OBVIOUS
<1> USE DEF CoordInit, BusInit
<1>1. BusTypeOK
  <2>1. MaxSeq \in Nat /\ MaxRetries \in Nat /\ MAX_ATTEMPTS \in Nat /\ Len(log) = 0
    BY BusAssumption
  <2>2. /\ tries \in [Seqs -> 0..MAX_ATTEMPTS] /\ retries \in [Seqs -> 0..MaxRetries]
        /\ issued \in [Seqs -> Nat] /\ token \in [Seqs -> Nat]
        /\ state \in [Seqs -> {"ABSENT", "PENDING", "CLAIMED", "ACKED", "FAILED"}]
    BY <2>1
  <2>3. lapsed \in [Seqs -> BOOLEAN]
    OBVIOUS
  <2>4. hand \in [Consumers -> [seq : 0..MaxSeq, token : Nat]]
    BY <2>1 DEF NoHand
  <2>5. \A e \in Seqs : state[e] = "ABSENT" <=> e > Len(log)
    BY <2>1 DEF Seqs
  <2>6. \A e \in Seqs : token[e] \in {0, issued[e]} /\ (state[e] = "CLAIMED" => token[e] # 0)
    OBVIOUS
  <2> QED BY <2>1, <2>2, <2>3, <2>4, <2>5, <2>6 DEF BusTypeOK
<1>2. CoordTypeOK
  <2>1. log \in Seq(Keys \cup Decisions) /\ Len(log) = 0
    OBVIOUS
  <2>2. found \in [Drains -> BOOLEAN] /\ paused \in BOOLEAN /\ everPaused \in BOOLEAN
    OBVIOUS
  <2>3. cursor \in 0..Len(log) /\ pc \in [Drains -> {"idle", "snapshot", "deciding"}]
    BY <2>1
  <2>4. /\ acted \in [Drains -> 0..cursor] /\ highest \in [Drains -> 0..Len(log)]
        /\ batch \in [Drains -> SUBSET (1..Len(log))]
    BY <2>1
  <2> QED BY <1>1, <2>1, <2>2, <2>3, <2>4 DEF CoordTypeOK
<1>3. BatchInv /\ SnapshotInv /\ NothingSkipped
  BY DEF BatchInv, SnapshotInv, NothingSkipped
<1>4. HeldOnlyWhenPaused
  BY DEF HeldOnlyWhenPaused, IsPublished
<1> QED BY <1>2, <1>3, <1>4 DEF CoordInv

\* A producer publishes (publish).
LEMMA PublishKeepsInv ==
    ASSUME CoordInv, NEW k \in Keys, Publish(k),
           UNCHANGED <<cursor, paused, everPaused, drainVars>>
    PROVE  CoordInv'
<1> USE DEF CoordInv
<1>1. CoordTypeOK /\ k \in Keys \cup Decisions
  OBVIOUS
<1>2. Len(log) \in Nat /\ Len(log') = Len(log) + 1 /\ log' \in Seq(Keys \cup Decisions) /\ BusTypeOK'
  BY <1>1, PublishKeepsLog DEF CoordTypeOK
<1>3. CoordTypeOK'
  BY <1>1, <1>2 DEF CoordTypeOK, drainVars
<1>4. \A e \in 1..Len(log) : Covered(e) => Covered(e)'
  BY <1>1, PublishKeepsCovered
<1>5. BatchInv'
  BY <1>1, <1>2, <1>4 DEF BatchInv, CoordTypeOK, drainVars
<1>6. SnapshotInv'
  BY DEF SnapshotInv, drainVars
<1>7. NothingSkipped'
  BY <1>1, <1>2, <1>4 DEF NothingSkipped, CoordTypeOK
<1>8. HeldOnlyWhenPaused'
  <2>1. \A e \in Seqs : Decision(e, "hold") \in Decisions
    BY DEF Decision, Decisions
  <2>2. \A e \in Seqs : Decision(e, "hold") # k
    BY <2>1, CoordinatorAssumption
  <2> QED BY <1>1, <2>2, PublishKeepsCovered DEF HeldOnlyWhenPaused
<1> QED BY <1>3, <1>5, <1>6, <1>7, <1>8

\* Steps that leave the bus alone leave decisions alone.
LEMMA SameBus ==
    ASSUME CoordTypeOK, UNCHANGED busVars
    PROVE  /\ log' = log /\ Len(log) \in Nat /\ BusTypeOK'
           /\ \A x : IsPublished(x)' = IsPublished(x)
           /\ \A e : Covered(e)' = Covered(e)
<1>1. UNCHANGED <<log, state, tries, token, issued, lapsed, hand, retries>>
  BY DEF busVars, claimVars
<1>2. BusTypeOK' /\ Len(log) \in Nat
  BY <1>1 DEF CoordTypeOK, BusTypeOK
<1>3. \A x : IsPublished(x)' = IsPublished(x)
  BY <1>1 DEF IsPublished
<1>4. \A e : Covered(e)' = Covered(e)
  BY <1>1, <1>3 DEF Covered
<1> QED BY <1>1, <1>2, <1>3, <1>4

\* drain reads its cursor.
LEMMA SnapshotKeepsInv ==
    ASSUME CoordInv, NEW d \in Drains, Snapshot(d)
    PROVE  CoordInv'
<1> USE DEF CoordInv, Snapshot
<1>1. /\ log' = log /\ Len(log) \in Nat /\ BusTypeOK'
      /\ \A x : IsPublished(x)' = IsPublished(x)
      /\ \A e : Covered(e)' = Covered(e)
  BY SameBus
<1>2. CoordTypeOK'
  BY <1>1 DEF CoordTypeOK
<1>3. BatchInv'
  BY <1>1 DEF BatchInv
<1>4. SnapshotInv'
  BY <1>1 DEF SnapshotInv, CoordTypeOK
<1>5. NothingSkipped' /\ HeldOnlyWhenPaused'
  BY <1>1 DEF NothingSkipped, HeldOnlyWhenPaused
<1> QED BY <1>2, <1>3, <1>4, <1>5

\* drain reads the batch and the project: what lies between the cursor and an
\* event of the batch is in the batch, what lies behind the cursor is covered.
LEMMA ReadBatchKeepsInv ==
    ASSUME CoordInv, NEW d \in Drains, ReadBatch(d)
    PROVE  CoordInv'
<1> USE DEF CoordInv, ReadBatch
<1>1. /\ log' = log /\ Len(log) \in Nat /\ BusTypeOK'
      /\ \A x : IsPublished(x)' = IsPublished(x)
      /\ \A e : Covered(e)' = Covered(e)
  BY SameBus
<1>2. CoordTypeOK'
  <2>1. batch' \in [Drains -> SUBSET (1..Len(log))]
    BY DEF CoordTypeOK, Unread
  <2>2. found' \in [Drains -> BOOLEAN]
    BY DEF CoordTypeOK
  <2> QED BY <1>1, <2>1, <2>2 DEF CoordTypeOK
<1>3. BatchInv'
  <2>1. ASSUME NEW e \in Unread, NEW f \in 1..e
        PROVE  f \in Unread \/ Covered(f)
    <3>1. cursor \in Nat /\ BatchSize \in Nat
      BY <1>1, CoordinatorAssumption DEF CoordTypeOK
    <3>2. CASE f \in 1..cursor
      BY <3>2 DEF NothingSkipped
    <3>3. CASE f \notin 1..cursor
      BY <1>1, <3>1, <3>3 DEF Unread
    <3> QED BY <3>2, <3>3
  <2> QED BY <1>1, <2>1 DEF BatchInv, CoordTypeOK
<1>4. SnapshotInv'
  <2>1. \A e \in Unread : e > acted[d]
    BY <1>1 DEF Unread, CoordTypeOK
  <2> QED BY <1>1, <2>1 DEF SnapshotInv, CoordTypeOK
<1>5. NothingSkipped' /\ HeldOnlyWhenPaused'
  BY <1>1 DEF NothingSkipped, HeldOnlyWhenPaused
<1> QED BY <1>2, <1>3, <1>4, <1>5

\* A decision covers its event, whether it is published now, was published
\* before or is not needed, and holds only in a project that was paused.
LEMMA DecideCovers ==
    ASSUME CoordInv, NEW d \in Drains, NEW e \in batch[d], Decide(d, e)
    PROVE  /\ log' \in Seq(Keys \cup Decisions) /\ Len(log) \in Nat
           /\ Len(log') \in Nat /\ Len(log') >= Len(log)
           /\ BusTypeOK'
           /\ e \in 1..Len(log)
           /\ \A f \in 1..Len(log) : Covered(f) => Covered(f)'
           /\ Covered(e)'
           /\ \A f \in Seqs : IsPublished(Decision(f, "hold"))' =>
                  IsPublished(Decision(f, "hold")) \/ everPaused
<1> USE DEF CoordInv
<1> PICK action : action = Decided(d, e)
  OBVIOUS
<1> DEFINE k == Decision(e, action)
<1>1. e \in 1..Len(log) /\ Len(log) \in Nat /\ e \in Seqs
  BY BusAssumption DEF CoordTypeOK, BusTypeOK, Seqs
<1>2. action \in {"noop", "hold", "act"}
  BY DEF Decided
<1>3. action = "hold" => everPaused
  BY DEF Decided, SnapshotInv, CoordTypeOK
<1>4. action = "noop" => log[e] \notin Handled
  BY CoordinatorAssumption DEF Decided, SnapshotInv
<1>5. CASE UNCHANGED busVars /\ (action = "noop" \/ IsPublished(k))
  <2>1. Covered(e)
    BY <1>2, <1>4, <1>5 DEF Covered
  <2>2. log' = log /\ BusTypeOK' /\ \A x : IsPublished(x)' = IsPublished(x)
    BY <1>5, SameBus
  <2>3. \A f : Covered(f)' = Covered(f)
    BY <1>5, SameBus
  <2> QED BY <1>1, <2>1, <2>2, <2>3 DEF CoordTypeOK
<1>6. CASE action # "noop" /\ Publish(k)
  <2>1. k \in Keys \cup Decisions
    BY <1>1, <1>2, <1>6 DEF Decision, Decisions
  <2>2. CoordTypeOK /\ Publish(k)
    BY <1>6
  <2>3. /\ log' \in Seq(Keys \cup Decisions) /\ Len(log') = Len(log) + 1
        /\ log'[e] = log[e] /\ BusTypeOK'
    BY <1>1, <2>1, <2>2, PublishKeepsLog
  <2>4. /\ IsPublished(k)'
        /\ \A f \in 1..Len(log) : Covered(f) => Covered(f)'
        /\ \A x : IsPublished(x)' => IsPublished(x) \/ x = k
    <3> HIDE DEF k
    <3> QED BY <2>1, <2>2, PublishKeepsCovered
  <2>5. Covered(e)'
    BY <1>2, <1>6, <2>4 DEF Covered
  <2>6. \A f \in Seqs : Decision(f, "hold") = k => everPaused
    BY <1>3 DEF Decision
  <2> HIDE DEF k
  <2> QED BY <1>1, <2>3, <2>4, <2>5, <2>6
<1> QED BY <1>5, <1>6 DEF Decide

\* One event of the batch is decided: it leaves the batch and is covered, so
\* what was below the rest of the batch still is.
LEMMA DecideNextKeepsInv ==
    ASSUME CoordInv, NEW d \in Drains, DecideNext(d)
    PROVE  CoordInv'
<1> USE DEF CoordInv
<1>1. PICK e \in batch[d] :
        /\ \A f \in batch[d] : e <= f
        /\ Decide(d, e)
        /\ batch' = [batch EXCEPT ![d] = @ \ {e}]
        /\ highest' = [highest EXCEPT ![d] = e]
  BY DEF DecideNext
<1>2. UNCHANGED <<cursor, paused, everPaused, pc, acted, found>> /\ pc[d] = "deciding"
  BY DEF DecideNext
<1>3. /\ log' \in Seq(Keys \cup Decisions) /\ Len(log) \in Nat
      /\ Len(log') \in Nat /\ Len(log') >= Len(log)
      /\ BusTypeOK'
      /\ e \in 1..Len(log)
      /\ \A f \in 1..Len(log) : Covered(f) => Covered(f)'
      /\ Covered(e)'
      /\ \A f \in Seqs : IsPublished(Decision(f, "hold"))' =>
             IsPublished(Decision(f, "hold")) \/ everPaused
  BY <1>1, DecideCovers
<1>4. CoordTypeOK'
  <2>1. batch' \in [Drains -> SUBSET (1..Len(log'))] /\ highest' \in [Drains -> 0..Len(log')]
    BY <1>1, <1>3 DEF CoordTypeOK
  <2> QED BY <1>2, <1>3, <2>1 DEF CoordTypeOK
<1>5. BatchInv'
  <2>1. ASSUME NEW c \in Drains, NEW f \in 1..highest'[c]
        PROVE  Covered(f)'
    <3>1. CASE c = d
      <4>1. f \in 1..e
        BY <1>1, <3>1 DEF CoordTypeOK
      <4>2. f = e \/ Covered(f)
        BY <1>1, <1>3, <4>1 DEF BatchInv, CoordTypeOK
      <4> QED BY <1>3, <4>1, <4>2
    <3>2. CASE c # d
      BY <1>1, <1>3, <3>2 DEF BatchInv, CoordTypeOK
    <3> QED BY <3>1, <3>2
  <2>2. ASSUME NEW c \in Drains, NEW g \in batch'[c], NEW f \in 1..g
        PROVE  f \in batch'[c] \/ Covered(f)'
    <3>1. g \in batch[c] /\ f \in 1..Len(log)
      BY <1>1, <1>3 DEF CoordTypeOK
    <3>2. f \in batch[c] \/ Covered(f)
      BY <3>1 DEF BatchInv
    <3>3. f \in batch'[c] \/ f = e \/ Covered(f)
      BY <1>1, <3>2 DEF CoordTypeOK
    <3> QED BY <1>3, <3>1, <3>3
  <2> QED BY <2>1, <2>2 DEF BatchInv
<1>6. SnapshotInv'
  BY <1>1, <1>2 DEF SnapshotInv, CoordTypeOK
<1>7. NothingSkipped'
  BY <1>2, <1>3 DEF NothingSkipped, CoordTypeOK
<1>8. HeldOnlyWhenPaused'
  BY <1>2, <1>3 DEF HeldOnlyWhenPaused
<1> QED BY <1>4, <1>5, <1>6, <1>7, <1>8

\* A drain that ends, with a cursor that moves over covered events only or not
\* at all, leaves the rest as it was.
LEMMA EndedKeepsInv ==
    ASSUME CoordInv, NEW d \in Drains, Ended(d), UNCHANGED <<busVars, paused, everPaused>>,
           cursor' \in cursor..Len(log), \A e \in 1..cursor' : Covered(e)
    PROVE  CoordInv'
<1> USE DEF CoordInv, Ended
<1>1. /\ log' = log /\ Len(log) \in Nat /\ BusTypeOK'
      /\ \A x : IsPublished(x)' = IsPublished(x)
      /\ \A e : Covered(e)' = Covered(e)
  BY SameBus
<1>2. CoordTypeOK'
  <2>1. /\ batch' \in [Drains -> SUBSET (1..Len(log))] /\ highest' \in [Drains -> 0..Len(log)]
        /\ pc' \in [Drains -> {"idle", "snapshot", "deciding"}]
        /\ acted' \in [Drains -> 0..cursor'] /\ cursor' \in 0..Len(log)
    BY <1>1 DEF CoordTypeOK
  <2>2. found' \in [Drains -> BOOLEAN]
    BY DEF CoordTypeOK
  <2> QED BY <1>1, <2>1, <2>2 DEF CoordTypeOK
<1>3. BatchInv'
  BY <1>1 DEF BatchInv, CoordTypeOK
<1>4. SnapshotInv'
  BY DEF SnapshotInv, CoordTypeOK
<1>5. NothingSkipped' /\ HeldOnlyWhenPaused'
  BY <1>1 DEF NothingSkipped, HeldOnlyWhenPaused
<1> QED BY <1>2, <1>3, <1>4, <1>5

\* Every step of the coordinator, its producers and its operator keeps the
\* invariant.
LEMMA CoordStep == CoordInv /\ [CoordNext]_coordVars => CoordInv'
<1> SUFFICES ASSUME CoordInv, [CoordNext]_coordVars PROVE CoordInv'
  OBVIOUS
<1> USE DEF CoordInv
<1>1. CASE \E k \in Keys : Publish(k) /\ UNCHANGED <<cursor, paused, everPaused, drainVars>>
  BY <1>1, PublishKeepsInv
<1>2. ASSUME NEW d \in Drains, Snapshot(d) PROVE CoordInv'
  BY <1>2, SnapshotKeepsInv
<1>3. ASSUME NEW d \in Drains, ReadBatch(d) PROVE CoordInv'
  BY <1>3, ReadBatchKeepsInv
<1>4. ASSUME NEW d \in Drains, DecideNext(d) PROVE CoordInv'
  BY <1>4, DecideNextKeepsInv
<1>5. ASSUME NEW d \in Drains, Commit(d) PROVE CoordInv'
  <2>1. cursor' \in cursor..Len(log) /\ Ended(d) /\ UNCHANGED <<busVars, paused, everPaused>>
    BY <1>5 DEF Commit, CoordTypeOK
  <2>2. \A e \in 1..cursor' : Covered(e)
    BY <1>5 DEF Commit, NothingSkipped, BatchInv
  <2> QED BY <2>1, <2>2, EndedKeepsInv
<1>6. ASSUME NEW d \in Drains, DrainEnds(d) PROVE CoordInv'
  <2>1. cursor' \in cursor..Len(log) /\ Ended(d) /\ UNCHANGED <<busVars, paused, everPaused>>
    BY <1>6 DEF DrainEnds, CoordTypeOK
  <2>2. \A e \in 1..cursor' : Covered(e)
    BY <1>6 DEF DrainEnds, NothingSkipped
  <2> QED BY <2>1, <2>2, EndedKeepsInv
<1>7. CASE (TogglePause \/ UNCHANGED coordVars) /\ UNCHANGED <<busVars, cursor, drainVars>>
  <2>1. /\ log' = log /\ BusTypeOK'
        /\ \A x : IsPublished(x)' = IsPublished(x)
        /\ \A e : Covered(e)' = Covered(e)
    BY <1>7, SameBus
  <2>2. everPaused => everPaused'
    BY <1>7 DEF TogglePause, coordVars
  <2>3. paused' \in BOOLEAN /\ everPaused' \in BOOLEAN /\ (paused' => everPaused')
    <3>1. CASE TogglePause
      BY <3>1 DEF TogglePause
    <3>2. CASE UNCHANGED coordVars
      BY <3>2 DEF coordVars, CoordTypeOK, SnapshotInv
    <3> QED BY <1>7, <3>1, <3>2
  <2>4. CoordTypeOK'
    BY <1>7, <2>1, <2>3 DEF CoordTypeOK, drainVars
  <2>5. BatchInv' /\ NothingSkipped'
    BY <1>7, <2>1 DEF BatchInv, NothingSkipped, drainVars
  <2>6. SnapshotInv'
    BY <1>7, <2>2, <2>3 DEF SnapshotInv, drainVars
  <2>7. HeldOnlyWhenPaused'
    BY <2>1, <2>2 DEF HeldOnlyWhenPaused
  <2> QED BY <2>4, <2>5, <2>6, <2>7
<1>8. TogglePause \/ UNCHANGED coordVars => UNCHANGED <<busVars, cursor, drainVars>>
  BY DEF TogglePause, coordVars
<1> QED BY <1>1, <1>2, <1>3, <1>4, <1>5, <1>6, <1>7, <1>8 DEF CoordNext, DrainStep

-------------------------------------------------------------------------------
\* The coordinator's state is well typed: the cursor never leaves the log and
\* never falls behind a snapshot that a drain took of it (commit_cursor).
THEOREM CoordTypeCorrect == CoordSpec => []CoordTypeOK
<1>1. CoordInv => CoordTypeOK
  BY DEF CoordInv
<1> QED BY <1>1, InitCoordInv, CoordStep, PTL DEF CoordSpec

\* Whatever drains overlap or die between publishing a decision and committing
\* the cursor, no event behind the cursor was skipped (drain).
THEOREM NothingIsSkipped == CoordSpec => []NothingSkipped
<1>1. CoordInv => NothingSkipped
  BY DEF CoordInv
<1> QED BY <1>1, InitCoordInv, CoordStep, PTL DEF CoordSpec

\* A drain never holds an event on account of its own cursor (drain, decide).
THEOREM HoldsAreExplained == CoordSpec => []HeldOnlyWhenPaused
<1>1. CoordInv => HeldOnlyWhenPaused
  BY DEF CoordInv
<1> QED BY <1>1, InitCoordInv, CoordStep, PTL DEF CoordSpec
===============================================================================
