------------------------ MODULE IntegrationQueueProofs ------------------------
(***************************************************************************)
(* Proofs about IntegrationQueue, for any number of handoffs, batches,     *)
(* calls and faults.                                                       *)
(*                                                                         *)
(* A step changes the rows in one of a few ways (RowStep), moves at most   *)
(* one call (CallStep), and changes the batches in one of two (BatchStep). *)
(* The invariants and the refinement follow from these shapes.             *)
(***************************************************************************)
EXTENDS IntegrationQueue, WellFoundedInduction, TLAPS

\* What a call may be about to do, given the handoffs routed and tested so far.
Fits(phase, j, R, T) ==
    /\ phase \in HandoffPhases => j.handoff \in Handoffs
    /\ phase = "move" => j.to \in HandoffTransitions(j.saw) \ {"CLAIMED"}
    /\ phase = "move" /\ j.to = "REWORK" => j.handoff \in R
    /\ phase = "move" /\ j.to = "INTEGRATED" => j.handoff \in T
    /\ phase \in BatchPhases => j.batch \in Batches
    /\ phase \in {"start", "failing", "passing"} => j.to \in BatchStatus
    /\ phase = "create" => j.pending \subseteq T

\* The verdict in a row was really given, and a batch that does not exist lists nothing.
RowsInv ==
    /\ \A h \in Handoffs : status[h] = "INTEGRATED" => h \in tested
    /\ \A b \in Batches : batch[b] = "ABSENT" => members[b] = {}

CallsInv == \A k \in Calls : Fits(pc[k], job[k], routed, tested)

IntegrationInv == IntegrationTypeOK /\ CallsInv /\ RowsInv /\ ReworkHasOwner /\ BatchedWasTested

-------------------------------------------------------------------------------
\* A set of numbers that is not empty has a least element.
LEMMA LeastExists ==
    ASSUME NEW S, S \subseteq Nat, S # {}
    PROVE  \E x \in S : \A y \in S : x =< y
<1> DEFINE R == OpToRel(<, Nat)
<1>1. PICK x \in S : \A y \in S : ~ (<<y, x>> \in R)
  BY NatLessThanWellFounded, WFMin
<1>2. ASSUME NEW y \in S PROVE x =< y
  <2>1. x \in Nat /\ y \in Nat /\ ~(<<y, x>> \in R)
    BY <1>1
  <2>2. y < x => <<y, x>> \in R
    BY <2>1 DEF OpToRel
  <2>3. ~(y < x)
    BY <2>1, <2>2, Zenon
  <2> HIDE DEF R
  <2> QED BY <2>1, <2>3
<1> QED BY <1>2

\* Min, which picks the oldest row, returns the least element.
LEMMA MinIsLeast ==
    ASSUME NEW S, S \subseteq Nat, S # {}
    PROVE  Min(S) \in S /\ \A y \in S : Min(S) =< y
BY LeastExists DEF Min

\* Max, which picks the newest row, returns the greatest element of a bounded set.
LEMMA MaxIsGreatest ==
    ASSUME NEW n \in Nat, NEW S, S \subseteq 0..n, S # {}
    PROVE  Max(S) \in S /\ \A y \in S : Max(S) >= y
<1> DEFINE T == {n - x : x \in S}
<1>a. \A x \in S : x \in Int /\ n - x \in Nat
  OBVIOUS
<1>1. T \subseteq Nat
  BY <1>a
<1>b. T # {}
  OBVIOUS
<1>2. PICK t \in T : \A u \in T : t =< u
  <2> HIDE DEF T
  <2> QED BY <1>1, <1>b, LeastExists
<1>3. PICK x \in S : t = n - x
  BY <1>2
<1>4. \A y \in S : x >= y
  <2> TAKE y \in S
  <2>1. n - y \in T
    OBVIOUS
  <2>2. n - x =< n - y
    BY <1>2, <1>3, <2>1
  <2> QED BY <2>2
<1> QED BY <1>4 DEF Max

-------------------------------------------------------------------------------
\* The table of _transition_handoff_locked stays within the statuses, nothing
\* leaves INTEGRATED, and only work in progress ends there.
LEMMA HandoffEdges ==
    ASSUME NEW s, NEW to \in HandoffTransitions(s)
    PROVE  /\ s \in HandoffStatus \ {"INTEGRATED"} /\ to \in HandoffStatus
           /\ to \in Working \ {"CLAIMED"} => s \in Working
           /\ to = "INTEGRATED" => s \in Working
BY DEF HandoffTransitions, HandoffStatus, Working

\* The table of _transition_batch_locked stays within the statuses.
LEMMA BatchEdges ==
    ASSUME NEW s, NEW to \in BatchTransitions(s)
    PROVE  to \in BatchStatus
BY DEF BatchTransitions, BatchStatus

\* The phases, and which of them work on what.
LEMMA PhaseNames ==
    /\ Phases = {"review", "merge", "test", "move", "start", "regress", "failing", "passing",
                 "idle", "reconcile", "claim", "create", "pause"}
    /\ HandoffPhases = {"review", "merge", "test", "move"}
    /\ BatchPhases = {"start", "regress", "failing", "passing"}
BY DEF Phases, HandoffPhases, BatchPhases

\* The row that _active_handoff returns is one that is worked on.
LEMMA FirstIsActive ==
    ASSUME NEW st \in [Handoffs -> HandoffStatus \cup {"ABSENT"}],
           {h \in Handoffs : st[h] \in Working} # {}
    PROVE  LET of(s) == {h \in Handoffs : st[h] = s} IN
           Min(IF of("CLAIMED") # {} THEN of("CLAIMED")
               ELSE IF of("MERGING") # {} THEN of("MERGING") ELSE of("TARGETED_TEST")) \in Handoffs
<1> DEFINE of(s) == {h \in Handoffs : st[h] = s}
           S == IF of("CLAIMED") # {} THEN of("CLAIMED")
                ELSE IF of("MERGING") # {} THEN of("MERGING") ELSE of("TARGETED_TEST")
<1>1. S # {} /\ S \subseteq Handoffs
  BY DEF Working
<1>2. S \subseteq Nat
  BY <1>1, IntegrationAssumption DEF Handoffs
<1>3. Min(S) \in S
  <2> HIDE DEF S
  <2> QED BY <1>1, <1>2, MinIsLeast
<1>4. Min(S) \in Handoffs
  <2> HIDE DEF S
  <2> QED BY <1>1, <1>3
<1> QED BY <1>4

\* The steps of a call on the store's batches: what the types need of them.
LEMMA OpenBatchExists ==
    ASSUME OpenBatches # {}
    PROVE  OpenBatch \in Batches /\ batch[OpenBatch] \in {"PENDING", "RUNNING"}
<1>1. OpenBatches \subseteq 0..MaxBatches /\ MaxBatches \in Nat
  BY IntegrationAssumption DEF OpenBatches, Batches
<1>2. OpenBatch \in OpenBatches
  BY <1>1, MaxIsGreatest DEF OpenBatch
<1> QED BY <1>2 DEF OpenBatches

\* The handoff that claim_next_handoff takes is a READY one.
LEMMA OldestReady ==
    ASSUME Ready # {}
    PROVE  Min(Ready) \in Handoffs /\ status[Min(Ready)] = "READY"
<1>1. Ready \subseteq Nat
  BY IntegrationAssumption DEF Ready, Handoffs
<1>2. Min(Ready) \in Ready
  BY <1>1, MinIsLeast
<1> QED BY <1>2 DEF Ready

-------------------------------------------------------------------------------
\* The jobs that a call is given.
LEMMA JobRecords ==
    /\ NoJob \in Jobs
    /\ \A h \in Handoffs :
         [NoJob EXCEPT !.handoff = h] \in Jobs /\ [NoJob EXCEPT !.handoff = h].handoff = h
    /\ \A b \in Batches :
         [NoJob EXCEPT !.batch = b] \in Jobs /\ [NoJob EXCEPT !.batch = b].batch = b
    /\ \A p \in SUBSET Handoffs :
         [NoJob EXCEPT !.pending = p] \in Jobs /\ [NoJob EXCEPT !.pending = p].pending = p
<1>0. MaxHandoffs \in Nat /\ MaxBatches \in Nat
  BY IntegrationAssumption
<1>1. Handoffs \subseteq 0..MaxHandoffs /\ Batches \subseteq 0..MaxBatches
  BY <1>0 DEF Handoffs, Batches
<1>2. 0 \in 0..MaxHandoffs /\ 0 \in 0..MaxBatches
  BY <1>0
<1>3. NoJob \in Jobs
  BY <1>2 DEF NoJob, Jobs
<1>4. \A h \in Handoffs :
         [NoJob EXCEPT !.handoff = h] \in Jobs /\ [NoJob EXCEPT !.handoff = h].handoff = h
  BY <1>1, <1>2 DEF NoJob, Jobs
<1>6. \A b \in Batches :
         [NoJob EXCEPT !.batch = b] \in Jobs /\ [NoJob EXCEPT !.batch = b].batch = b
  BY <1>1, <1>2 DEF NoJob, Jobs
<1>9. \A p \in SUBSET Handoffs :
         [NoJob EXCEPT !.pending = p] \in Jobs /\ [NoJob EXCEPT !.pending = p].pending = p
  BY <1>2 DEF NoJob, Jobs
<1> QED BY <1>3, <1>4, <1>6, <1>9

\* The rows a job may name.
LEMMA JobNames ==
    /\ \A h \in Handoffs : h \in 0..MaxHandoffs
    /\ \A b \in Batches : b \in 0..MaxBatches
    /\ 0 \in 0..MaxHandoffs /\ 0 \in 0..MaxBatches
BY IntegrationAssumption DEF Handoffs, Batches

\* The job of a batch's transition that has read its row.
LEMMA NextBatchJob ==
    ASSUME NEW i \in Jobs, NEW to \in BatchStatus, NEW j, j = [i EXCEPT !.to = to]
    PROVE  j \in Jobs /\ j.batch = i.batch /\ j.to = to
BY DEF Jobs

-------------------------------------------------------------------------------
Published(h) == status[h] = "ABSENT" /\ status' = [status EXCEPT ![h] = "READY"] /\ UNCHANGED lease

Claimed(h) ==
    /\ ActiveHandoffs = {} /\ status[h] = "READY"
    /\ status' = [status EXCEPT ![h] = "CLAIMED"]
    /\ lease' = [lease EXCEPT ![h] = "live"]

Written(k) == pc[k] = "move" /\ Moved(job[k].handoff, job[k].to)

GivenBack(k) == pc[k] = "reconcile" /\ Reconciled(job[k].pending)

RanOut(h) ==
    /\ status[h] \in Working /\ lease' = [lease EXCEPT ![h] = "lapsed"]
    /\ UNCHANGED status

\* What a step may do to the rows of the handoffs, ...
RowStep ==
    \/ UNCHANGED <<status, lease>>
    \/ \E h \in Handoffs : Published(h) \/ Claimed(h) \/ RanOut(h)
    \/ \E k \in Calls : Written(k) \/ GivenBack(k)

\* ... to a call, ...
GoesTo(k, phase, j) == GoWith(k, phase, j) /\ Fits(phase, j, routed', tested')

CallStep ==
    \/ UNCHANGED <<pc, job>>
    \/ \E k \in Calls, phase \in Phases, j \in Jobs : GoesTo(k, phase, j)

\* ... and to the batches.
BatchWritten ==
    /\ \E b \in Batches, s \in BatchStatus : batch' = [batch EXCEPT ![b] = s]
    /\ UNCHANGED <<members, batchOf>>

BatchMade(b, p) ==
    /\ batch[b] = "ABSENT" /\ p \subseteq tested
    /\ batch' = [batch EXCEPT ![b] = "PENDING"]
    /\ members' = [members EXCEPT ![b] = p]
    /\ batchOf' = [h \in Handoffs |-> IF h \in p THEN b ELSE batchOf[h]]

BatchStep ==
    \/ UNCHANGED <<batch, members, batchOf>>
    \/ BatchWritten
    \/ \E b \in Batches, p \in SUBSET Handoffs : BatchMade(b, p)

\* The histories only grow.
OtherStep ==
    /\ routed \subseteq routed' /\ routed' \subseteq Handoffs
    /\ tested \subseteq tested' /\ tested' \subseteq Handoffs
    /\ paused' \in BOOLEAN /\ faults' \in 0..MaxFaults

Shape == RowStep /\ CallStep /\ BatchStep /\ OtherStep

\* The rows a step leaves alone keep their histories.
SameStore == UNCHANGED <<storeVars, tested>> /\ faults' \in 0..MaxFaults

\* A call that moves and leaves the store alone is a step of that shape.
LEMMA SameStoreShape ==
    ASSUME IntegrationInv, SameStore, CallStep
    PROVE  Shape
BY DEF IntegrationInv, IntegrationTypeOK, SameStore, Shape, RowStep, BatchStep, OtherStep, storeVars

\* A call that returns has nothing to do.
LEMMA ReturnFits ==
    ASSUME NEW k \in Calls, Return(k)
    PROVE  CallStep
<1>1. "idle" \in Phases /\ NoJob \in Jobs
  BY PhaseNames, JobRecords
<1>2. Fits("idle", NoJob, routed', tested')
  BY PhaseNames DEF Fits
<1> QED BY <1>1, <1>2 DEF CallStep, GoesTo, Return

\* The read of a transition leaves a call that will write what the table allows.
LEMMA ReadFits ==
    ASSUME IntegrationInv, NEW k \in Calls, pc[k] \in HandoffPhases,
           NEW to \in {"BLOCKED", "MERGING", "TARGETED_TEST", "INTEGRATED", "REWORK"},
           TransitionReads(k, to),
           to = "REWORK" => job[k].handoff \in routed',
           to = "INTEGRATED" => job[k].handoff \in tested'
    PROVE  CallStep
<1> DEFINE h == job[k].handoff
           j == [NoJob EXCEPT !.handoff = h, !.saw = status[h], !.to = to]
<1>1. h \in Handoffs
  BY DEF IntegrationInv, CallsInv, Fits
<1>2. CASE ~CanMove(h, to)
  BY <1>2, ReturnFits DEF TransitionReads
<1>3. CASE CanMove(h, to)
  <2>1. GoWith(k, "move", j)
    BY <1>3 DEF TransitionReads
  <2>2. to \in HandoffTransitions(status[h])
    BY <1>3 DEF CanMove
  <2>3. status[h] \in HandoffStatus /\ to \in HandoffStatus
    BY <2>2, HandoffEdges
  <2>4. j \in Jobs /\ j.handoff = h /\ j.saw = status[h] /\ j.to = to
    <3> HIDE DEF h
    <3> QED BY <1>1, <2>3, JobNames DEF NoJob, Jobs
  <2>5. Fits("move", j, routed', tested')
    <3> HIDE DEF j
    <3> QED BY <1>1, <2>2, <2>4, PhaseNames DEF Fits
  <2> HIDE DEF j
  <2> QED BY <2>1, <2>4, <2>5, PhaseNames DEF CallStep, GoesTo
<1> QED BY <1>2, <1>3

\* The same for transition_handoff as a whole step.
LEMMA TransitionShape ==
    ASSUME IntegrationInv, NEW k \in Calls, pc[k] \in HandoffPhases,
           NEW to \in {"BLOCKED", "MERGING", "TARGETED_TEST"},
           Transition(k, to), UNCHANGED tested
    PROVE  Shape
<1>1. CallStep
  BY ReadFits DEF Transition
<1>2. SameStore
  BY DEF Transition, SameStore, IntegrationInv, IntegrationTypeOK
<1> QED BY <1>1, <1>2, SameStoreShape

\* The same for _route_rework, whose task is in the queue before the read.
LEMMA RouteShape ==
    ASSUME IntegrationInv, NEW k \in Calls, pc[k] \in HandoffPhases, RouteRework(k)
    PROVE  Shape
<1>1. job[k].handoff \in Handoffs
  BY DEF IntegrationInv, CallsInv, Fits
<1>2. CallStep
  BY ReadFits DEF RouteRework
<1>3. OtherStep
  BY <1>1 DEF RouteRework, OtherStep, IntegrationInv, IntegrationTypeOK
<1>4. RowStep /\ BatchStep
  BY DEF RouteRework, RowStep, BatchStep
<1> QED BY <1>2, <1>3, <1>4 DEF Shape

\* The same for transition_batch.
LEMMA BatchTransitionShape ==
    ASSUME IntegrationInv, NEW k \in Calls, pc[k] = "regress",
           NEW to \in {"FAILED", "MERGE_READY"}, NEW phase \in {"failing", "passing"},
           BatchTransition(k, to, phase)
    PROVE  Shape
<1> DEFINE j == [job[k] EXCEPT !.to = to]
<1>1. job[k].batch \in Batches /\ job[k] \in Jobs
  BY PhaseNames DEF IntegrationInv, IntegrationTypeOK, CallsInv, Fits
<1>2. SameStore
  BY DEF BatchTransition, SameStore, IntegrationInv, IntegrationTypeOK
<1>3. CASE Return(k)
  BY <1>2, <1>3, ReturnFits, SameStoreShape
<1>4. CASE GoWith(k, phase, j)
  <2>1. to \in BatchStatus
    BY DEF BatchStatus
  <2>2. j \in Jobs /\ j.batch = job[k].batch /\ j.to = to
    BY <1>1, <2>1, NextBatchJob
  <2>3. Fits(phase, j, routed', tested')
    <3> HIDE DEF j
    <3> QED BY <1>1, <2>1, <2>2, PhaseNames DEF Fits
  <2>4. CallStep
    <3> HIDE DEF j
    <3> QED BY <1>4, <2>2, <2>3, PhaseNames DEF CallStep, GoesTo
  <2> QED BY <1>2, <2>4, SameStoreShape
<1> QED BY <1>3, <1>4 DEF BatchTransition

-------------------------------------------------------------------------------
\* A tick that looks at the rows goes on with one that exists.
LEMMA TickShape ==
    ASSUME IntegrationInv, NEW k \in Calls, Tick(k)
    PROVE  Shape
<1>1. SameStore
  BY DEF Tick, SameStore, IntegrationInv, IntegrationTypeOK
<1>2. CASE Return(k)
  BY <1>1, <1>2, ReturnFits, SameStoreShape
<1>3. CASE GoWith(k, "claim", NoJob)
  <2>1. "claim" \in Phases /\ NoJob \in Jobs
    BY PhaseNames, JobRecords
  <2>2. Fits("claim", NoJob, routed', tested')
    BY PhaseNames DEF Fits
  <2>3. CallStep
    BY <1>3, <2>1, <2>2 DEF CallStep, GoesTo
  <2> QED BY <1>1, <2>3, SameStoreShape
<1>4. CASE ActiveHandoffs # {} /\ \E phase \in {"review", "test"} :
             GoWith(k, phase, [NoJob EXCEPT !.handoff = FirstActive])
  <2>1. PICK phase \in {"review", "test"} : GoWith(k, phase, [NoJob EXCEPT !.handoff = FirstActive])
    BY <1>4
  <2>2. FirstActive \in Handoffs
    BY <1>4, FirstIsActive DEF IntegrationInv, IntegrationTypeOK, ActiveHandoffs, FirstActive
  <2>3. PICK j : j = [NoJob EXCEPT !.handoff = FirstActive]
    OBVIOUS
  <2>4. j \in Jobs /\ j.handoff \in Handoffs
    BY <2>2, <2>3, JobRecords
  <2>5. Fits(phase, j, routed', tested')
    BY <2>4, PhaseNames DEF Fits
  <2>6. CallStep
    BY <2>1, <2>3, <2>4, <2>5, PhaseNames DEF CallStep, GoesTo
  <2> QED BY <1>1, <2>6, SameStoreShape
<1> QED BY <1>2, <1>3, <1>4 DEF Tick, Looks

\* So is the read of what reconcile_stale_handoff_claims will give back.
LEMMA ReconcileReadsShape ==
    ASSUME IntegrationInv, NEW k \in Calls, ReconcileReads(k)
    PROVE  Shape
<1>1. SameStore
  BY DEF ReconcileReads, SameStore, IntegrationInv, IntegrationTypeOK
<1>2. PICK j : j = [NoJob EXCEPT !.pending = Stale]
  OBVIOUS
<1>3. Stale \in SUBSET Handoffs
  BY DEF Stale, ActiveHandoffs
<1>4. j \in Jobs
  BY <1>2, <1>3, JobRecords
<1>5. Fits("reconcile", j, routed', tested')
  BY PhaseNames DEF Fits
<1>6. CallStep
  BY <1>2, <1>4, <1>5, PhaseNames DEF ReconcileReads, CallStep, GoesTo
<1> QED BY <1>1, <1>6, SameStoreShape

\* The write of a transition, and what the call does after it.
LEMMA MoveShape ==
    ASSUME IntegrationInv, NEW k \in Calls, Move(k)
    PROVE  Shape
<1>1. PICK h, to : h = job[k].handoff /\ to = job[k].to
  OBVIOUS
<1>2. h \in Handoffs /\ Written(k)
  BY <1>1, PhaseNames DEF Move, Written, IntegrationInv, CallsInv, Fits
<1>3. RowStep
  BY <1>2 DEF RowStep
<1>4. BatchStep /\ OtherStep
  BY DEF Move, BatchStep, OtherStep, IntegrationInv, IntegrationTypeOK
<1>5. CASE Return(k)
  BY <1>3, <1>4, <1>5, ReturnFits DEF Shape
<1>6. CASE GoWith(k, "merge", [NoJob EXCEPT !.handoff = h])
  <2>1. PICK j : j = [NoJob EXCEPT !.handoff = h]
    OBVIOUS
  <2>2. j \in Jobs /\ j.handoff \in Handoffs
    BY <1>2, <2>1, JobRecords
  <2>3. Fits("merge", j, routed', tested')
    BY <2>2, PhaseNames DEF Fits
  <2>4. CallStep
    BY <1>6, <2>1, <2>2, <2>3, PhaseNames DEF CallStep, GoesTo
  <2> QED BY <1>3, <1>4, <2>4 DEF Shape
<1> QED BY <1>1, <1>5, <1>6 DEF Move

\* The reads of _tick_batch and force_regression.
LEMMA BatchReadsShape ==
    ASSUME IntegrationInv, NEW k \in Calls,
           BatchStarts(k) \/ BatchGoesOn(k) \/ ForceRegression(k) \/ NoMoreBatches(k)
    PROVE  Shape
<1>1. SameStore
  BY DEF BatchStarts, BatchGoesOn, ForceRegression, NoMoreBatches, SameStore,
         IntegrationInv, IntegrationTypeOK
<1>2. CASE Return(k)
  BY <1>1, <1>2, ReturnFits, SameStoreShape
<1>3. CASE OpenBatches # {} /\ GoWith(k, "start", [NoJob EXCEPT !.batch = OpenBatch, !.to = "RUNNING"])
  <2>1. PICK j : j = [NoJob EXCEPT !.batch = OpenBatch, !.to = "RUNNING"]
    OBVIOUS
  <2>2. OpenBatch \in Batches /\ "RUNNING" \in BatchStatus
    BY <1>3, OpenBatchExists DEF BatchStatus
  <2>3. j \in Jobs /\ j.batch \in Batches /\ j.to \in BatchStatus
    BY <2>1, <2>2, JobNames DEF NoJob, Jobs
  <2>4. Fits("start", j, routed', tested')
    BY <2>3, PhaseNames DEF Fits
  <2>5. CallStep
    BY <1>3, <2>1, <2>3, <2>4, PhaseNames DEF CallStep, GoesTo
  <2> QED BY <1>1, <2>5, SameStoreShape
<1>4. CASE OpenBatches # {} /\ GoWith(k, "regress", [NoJob EXCEPT !.batch = OpenBatch])
  <2>1. PICK j : j = [NoJob EXCEPT !.batch = OpenBatch]
    OBVIOUS
  <2>2. j \in Jobs /\ j.batch \in Batches
    BY <1>4, <2>1, OpenBatchExists, JobRecords
  <2>3. Fits("regress", j, routed', tested')
    BY <2>2, PhaseNames DEF Fits
  <2>4. CallStep
    BY <1>4, <2>1, <2>2, <2>3, PhaseNames DEF CallStep, GoesTo
  <2> QED BY <1>1, <2>4, SameStoreShape
<1>5. CASE GoWith(k, "create", [NoJob EXCEPT !.pending = PendingHandoffs])
  <2>1. PICK j : j = [NoJob EXCEPT !.pending = PendingHandoffs]
    OBVIOUS
  <2>2. PendingHandoffs \in SUBSET Handoffs /\ PendingHandoffs \subseteq tested
    BY DEF PendingHandoffs, IntegrationInv, RowsInv
  <2>3. j \in Jobs /\ j.pending = PendingHandoffs
    BY <2>1, <2>2, JobRecords
  <2>4. tested' = tested
    BY <1>1 DEF SameStore
  <2>5. Fits("create", j, routed', tested')
    BY <2>2, <2>3, <2>4, PhaseNames DEF Fits
  <2>6. CallStep
    BY <1>5, <2>1, <2>3, <2>5, PhaseNames DEF CallStep, GoesTo
  <2> QED BY <1>1, <2>6, SameStoreShape
<1> QED BY <1>2, <1>3, <1>4, <1>5 DEF BatchStarts, BatchGoesOn, ForceRegression, NoMoreBatches

\* create_batch and the write of transition_batch.
LEMMA BatchWritesShape ==
    ASSUME IntegrationInv, NEW k \in Calls, CreateBatch(k) \/ BatchMove(k) \/ PauseAfterFailure(k)
    PROVE  Shape
<1>1. CASE CreateBatch(k)
  <2>1. PICK p : p = job[k].pending
    OBVIOUS
  <2>2. p \in SUBSET Handoffs
    BY <2>1 DEF IntegrationInv, IntegrationTypeOK, Jobs
  <2>3. p \subseteq tested
    BY <1>1, <2>1 DEF CreateBatch, IntegrationInv, CallsInv, Fits
  <2>4. \E b \in Batches : BatchMade(b, p)
    BY <1>1, <2>1, <2>3 DEF CreateBatch, BatchMade
  <2>5. BatchStep
    BY <2>2, <2>4 DEF BatchStep
  <2>6. RowStep /\ OtherStep
    BY <1>1 DEF CreateBatch, RowStep, OtherStep, IntegrationInv, IntegrationTypeOK
  <2>7. CallStep
    BY <1>1, ReturnFits DEF CreateBatch
  <2> QED BY <2>5, <2>6, <2>7 DEF Shape
<1>2. CASE BatchMove(k)
  <2>1. PICK b, s : b = job[k].batch /\ s = job[k].to
    OBVIOUS
  <2>2. b \in Batches /\ s \in BatchStatus
    BY <1>2, <2>1, PhaseNames DEF BatchMove, IntegrationInv, CallsInv, Fits
  <2>3. BatchStep
    BY <1>2, <2>1, <2>2 DEF BatchMove, BatchStep, BatchWritten
  <2>4. RowStep /\ OtherStep
    BY <1>2 DEF BatchMove, RowStep, OtherStep, IntegrationInv, IntegrationTypeOK
  <2>5. Fits("pause", NoJob, routed', tested') /\ "pause" \in Phases /\ NoJob \in Jobs
    BY PhaseNames, JobRecords DEF Fits
  <2>6. CallStep
    BY <1>2, <2>5, ReturnFits DEF BatchMove, CallStep, GoesTo
  <2> QED BY <2>3, <2>4, <2>6 DEF Shape
<1>3. CASE PauseAfterFailure(k)
  <2>1. RowStep /\ BatchStep /\ OtherStep
    BY <1>3 DEF PauseAfterFailure, RowStep, BatchStep, OtherStep, IntegrationInv, IntegrationTypeOK
  <2> QED BY <1>3, <2>1, ReturnFits DEF PauseAfterFailure, Shape
<1> QED BY <1>1, <1>2, <1>3

\* The operator's calls, the clock and the crashes.
LEMMA OutsideShape ==
    ASSUME IntegrationInv,
           \/ \E h \in Handoffs : Publish(h) \/ Lapse(h) \/ \E k \in Tools : RetryHandoff(k, h)
           \/ PausePipeline \/ ResumePipeline \/ \E k \in Calls : CallDies(k)
    PROVE  Shape
<1> USE DEF IntegrationInv, IntegrationTypeOK
<1>0. MaxFaults \in Nat
  BY IntegrationAssumption
<1>1. CASE \E h \in Handoffs : Publish(h)
  BY <1>1 DEF Publish, Shape, RowStep, Published, CallStep, BatchStep, OtherStep
<1>2. CASE \E h \in Handoffs : Lapse(h)
  <2>1. faults' \in 0..MaxFaults
    BY <1>0, <1>2 DEF Lapse
  <2> QED BY <1>2, <2>1 DEF Lapse, Shape, RowStep, RanOut, CallStep, BatchStep, OtherStep
<1>3. CASE \E h \in Handoffs, k \in Tools : RetryHandoff(k, h)
  <2>1. PICK h \in Handoffs, k \in Tools : RetryHandoff(k, h)
    BY <1>3
  <2>2. k \in Calls
    BY DEF Calls
  <2>3. PICK j : j = [NoJob EXCEPT !.handoff = h, !.saw = status[h], !.to = "READY"]
    OBVIOUS
  <2>4. status[h] \in HandoffStatus /\ "READY" \in HandoffStatus
        /\ "READY" \in HandoffTransitions(status[h])
    BY <2>1 DEF RetryHandoff, HandoffStatus, HandoffTransitions
  <2>5. j \in Jobs /\ j.handoff = h /\ j.saw = status[h] /\ j.to = "READY"
    BY <2>3, <2>4, JobNames DEF NoJob, Jobs
  <2>6. Fits("move", j, routed', tested')
    BY <2>4, <2>5, PhaseNames DEF Fits
  <2>7. CallStep
    BY <2>1, <2>2, <2>3, <2>5, <2>6, PhaseNames DEF RetryHandoff, CallStep, GoesTo
  <2>8. faults' \in 0..MaxFaults
    <3>1. faults < MaxFaults /\ faults' = faults + 1 /\ faults \in 0..MaxFaults
      BY <2>1, Zenon DEF RetryHandoff
    <3> QED BY <1>0, <3>1
  <2>9. SameStore
    BY <2>1, <2>8 DEF RetryHandoff, SameStore
  <2> QED BY <2>7, <2>9, SameStoreShape
<1>4. CASE PausePipeline
  <2>1. faults' \in 0..MaxFaults
    BY <1>0, <1>4 DEF PausePipeline
  <2> QED BY <1>4, <2>1 DEF PausePipeline, Shape, RowStep, CallStep, BatchStep, OtherStep
<1>5. CASE ResumePipeline
  BY <1>5 DEF ResumePipeline, Shape, RowStep, CallStep, BatchStep, OtherStep
<1>6. CASE \E k \in Calls : CallDies(k)
  <2>1. PICK k \in Calls : CallDies(k)
    BY <1>6
  <2>2. SameStore
    BY <1>0, <2>1 DEF CallDies, SameStore
  <2> QED BY <2>1, <2>2, ReturnFits, SameStoreShape DEF CallDies
<1> QED BY <1>1, <1>2, <1>3, <1>4, <1>5, <1>6

\* claim_next_handoff, reconcile_stale_handoff_claims and the verdict of a test.
LEMMA RowWritesShape ==
    ASSUME IntegrationInv, NEW k \in Calls, Claim(k) \/ Reconcile(k) \/ TestPasses(k)
    PROVE  Shape
<1>1. CASE Claim(k)
  <2>1. Min(Ready) \in Handoffs /\ status[Min(Ready)] = "READY"
    BY <1>1, OldestReady DEF Claim, MayClaim
  <2>2. Claimed(Min(Ready))
    BY <1>1, <2>1 DEF Claim, MayClaim, Claimed
  <2>3. RowStep
    BY <2>1, <2>2 DEF RowStep
  <2>4. BatchStep /\ OtherStep
    BY <1>1 DEF Claim, BatchStep, OtherStep, IntegrationInv, IntegrationTypeOK
  <2> QED BY <1>1, <2>3, <2>4, ReturnFits DEF Claim, Shape
<1>2. CASE Reconcile(k)
  <2>1. RowStep
    BY <1>2 DEF Reconcile, RowStep, GivenBack
  <2>2. BatchStep /\ OtherStep
    BY <1>2 DEF Reconcile, BatchStep, OtherStep, IntegrationInv, IntegrationTypeOK
  <2> QED BY <1>2, <2>1, <2>2, ReturnFits DEF Reconcile, Shape
<1>3. CASE TestPasses(k)
  <2>1. pc[k] \in HandoffPhases
    BY <1>3, PhaseNames DEF TestPasses
  <2>2. job[k].handoff \in Handoffs
    BY <2>1 DEF IntegrationInv, CallsInv, Fits
  <2>3. job[k].handoff \in tested'
    BY <1>3 DEF TestPasses
  <2>4. CallStep
    BY <1>3, <2>1, <2>3, ReadFits DEF TestPasses, Transition
  <2>5. RowStep /\ BatchStep
    BY <1>3 DEF TestPasses, Transition, storeVars, RowStep, BatchStep
  <2>6. OtherStep
    BY <1>3, <2>2 DEF TestPasses, Transition, storeVars, OtherStep, IntegrationInv, IntegrationTypeOK
  <2> QED BY <2>4, <2>5, <2>6 DEF Shape
<1> QED BY <1>1, <1>2, <1>3

\* Every step has the shape.
LEMMA NextShape ==
    ASSUME IntegrationInv, IntegrationNext
    PROVE  Shape
<1>1. ASSUME NEW k \in Calls, CallGoesOn(k) PROVE Shape
  <2>1. CASE Move(k)
    BY <2>1, MoveShape
  <2>2. CASE Claim(k) \/ Reconcile(k) \/ TestPasses(k)
    BY <2>2, RowWritesShape
  <2>3. CASE ReviewBlocks(k) \/ ReviewPasses(k) \/ Merged(k) \/ MergeFails(k) \/ TestNotRun(k)
    BY <2>3, PhaseNames, TransitionShape DEF ReviewBlocks, ReviewPasses, Merged, MergeFails, TestNotRun
  <2>4. CASE ReviewNeedsRework(k) \/ MergeConflict(k) \/ TestFails(k)
    BY <2>4, PhaseNames, RouteShape DEF ReviewNeedsRework, MergeConflict, TestFails
  <2>5. CASE BatchStarts(k) \/ BatchGoesOn(k) \/ NoMoreBatches(k)
    BY <2>5, BatchReadsShape
  <2>6. CASE CreateBatch(k) \/ BatchMove(k) \/ PauseAfterFailure(k)
    BY <2>6, BatchWritesShape
  <2>7. CASE RegressionFails(k)
    BY <2>7, BatchTransitionShape DEF RegressionFails
  <2>8. CASE RegressionPasses(k)
    BY <2>8, BatchTransitionShape DEF RegressionPasses
  <2> QED BY <1>1, <2>1, <2>2, <2>3, <2>4, <2>5, <2>6, <2>7, <2>8 DEF CallGoesOn
<1>2. ASSUME NEW k \in Calls, TickBegins(k) PROVE Shape
  BY <1>2, TickShape, ReconcileReadsShape DEF TickBegins
<1>3. ASSUME NEW k \in Calls, ForceRegression(k) PROVE Shape
  BY <1>3, BatchReadsShape
<1> QED BY <1>1, <1>2, <1>3, OutsideShape DEF IntegrationNext

-------------------------------------------------------------------------------
\* The rows stay typed, with no lease on a handoff nobody took, and say only
\* what was routed and tested.
LEMMA RowsKept ==
    ASSUME IntegrationInv, Shape
    PROVE  /\ status' \in [Handoffs -> HandoffStatus \cup {"ABSENT"}]
           /\ lease' \in [Handoffs -> {"none", "live", "lapsed"}]
           /\ \A h \in Handoffs : status'[h] \in {"ABSENT", "READY"} => lease'[h] = "none"
           /\ \A h \in Handoffs : status'[h] = "INTEGRATED" => h \in tested'
           /\ \A h \in Handoffs : status'[h] = "REWORK" => h \in routed'
<1> USE DEF IntegrationInv, IntegrationTypeOK, RowsInv, ReworkHasOwner
<1>0. routed \subseteq routed' /\ tested \subseteq tested'
  BY DEF Shape, OtherStep
<1>1. CASE UNCHANGED <<status, lease>>
  BY <1>0, <1>1
<1>2. CASE \E h \in Handoffs : Published(h)
  BY <1>0, <1>2 DEF Published, HandoffStatus
<1>3. CASE \E h \in Handoffs : Claimed(h)
  BY <1>0, <1>3 DEF Claimed, HandoffStatus, Working
<1>4. CASE \E h \in Handoffs : RanOut(h)
  BY <1>0, <1>4 DEF RanOut, Working
<1>5. CASE \E k \in Calls : Written(k)
  <2>1. PICK k \in Calls : Written(k)
    BY <1>5
  <2>2. PICK h, to : h = job[k].handoff /\ to = job[k].to
    OBVIOUS
  <2>3. h \in Handoffs /\ to \in HandoffStatus /\ (to = "REWORK" => h \in routed)
        /\ (to = "INTEGRATED" => h \in tested)
    BY <2>1, <2>2, PhaseNames, HandoffEdges DEF Written, CallsInv, Fits
  <2>4. status' = [status EXCEPT ![h] = to]
        /\ lease' = [lease EXCEPT ![h] = IF to = "READY" THEN "none" ELSE @]
    BY <2>1, <2>2 DEF Written, Moved
  <2>5. to # "ABSENT"
    BY <2>3 DEF HandoffStatus, Working
  <2> QED BY <1>0, <2>3, <2>4, <2>5
<1>6. CASE \E k \in Calls : GivenBack(k)
  BY <1>0, <1>6 DEF GivenBack, Reconciled, HandoffStatus
<1> QED BY <1>1, <1>2, <1>3, <1>4, <1>5, <1>6 DEF Shape, RowStep

\* A call keeps fitting when the histories grow.
LEMMA CallsKept ==
    ASSUME IntegrationInv, Shape
    PROVE  CallsInv' /\ pc' \in [Calls -> Phases] /\ job' \in [Calls -> Jobs]
<1> USE DEF IntegrationInv, IntegrationTypeOK
<1>0. routed \subseteq routed' /\ tested \subseteq tested'
  BY DEF Shape, OtherStep
<1>1. \A c \in Calls : Fits(pc[c], job[c], routed', tested')
  BY <1>0 DEF CallsInv, Fits
<1>2. CASE UNCHANGED <<pc, job>>
  BY <1>1, <1>2 DEF CallsInv
<1>3. CASE \E k \in Calls, phase \in Phases, j \in Jobs : GoesTo(k, phase, j)
  <2>1. PICK k \in Calls, phase \in Phases, j \in Jobs : GoesTo(k, phase, j)
    BY <1>3
  <2>2. pc' = [pc EXCEPT ![k] = phase] /\ job' = [job EXCEPT ![k] = j]
        /\ Fits(phase, j, routed', tested')
    BY <2>1 DEF GoesTo, GoWith
  <2>3. pc' \in [Calls -> Phases] /\ job' \in [Calls -> Jobs]
    BY <2>2
  <2>4. ASSUME NEW c \in Calls PROVE Fits(pc'[c], job'[c], routed', tested')
    <3>1. CASE c = k
      <4>1. pc'[c] = phase /\ job'[c] = j
        BY <2>2, <3>1
      <4> QED BY <2>2, <4>1
    <3>2. CASE c # k
      <4>1. pc'[c] = pc[c] /\ job'[c] = job[c]
        BY <2>2, <3>2
      <4> QED BY <1>1, <4>1
    <3> QED BY <3>1, <3>2
  <2> QED BY <2>3, <2>4 DEF CallsInv
<1> QED BY <1>2, <1>3 DEF Shape, CallStep

\* A batch gets its members once, from handoffs that were tested.
LEMMA BatchesKept ==
    ASSUME IntegrationInv, Shape
    PROVE  /\ batch' \in [Batches -> BatchStatus \cup {"ABSENT"}]
           /\ members' \in [Batches -> SUBSET Handoffs]
           /\ batchOf' \in [Handoffs -> 0..MaxBatches]
           /\ \A b \in Batches : batch'[b] = "ABSENT" => members'[b] = {}
           /\ \A b \in Batches : members'[b] \subseteq tested'
           /\ \A h \in Handoffs : batchOf'[h] # 0 => h \in members'[batchOf'[h]]
<1> USE DEF IntegrationInv, IntegrationTypeOK, RowsInv, BatchedWasTested
<1>0. tested \subseteq tested'
  BY DEF Shape, OtherStep
<1>1. CASE UNCHANGED <<batch, members, batchOf>>
  BY <1>0, <1>1
<1>2. CASE BatchWritten
  BY <1>0, <1>2 DEF BatchWritten, BatchStatus
<1>3. CASE \E b \in Batches, p \in SUBSET Handoffs : BatchMade(b, p)
  <2>1. PICK b \in Batches, p \in SUBSET Handoffs : BatchMade(b, p)
    BY <1>3
  <2>2. batch' \in [Batches -> BatchStatus \cup {"ABSENT"}] /\ members' \in [Batches -> SUBSET Handoffs]
    BY <2>1 DEF BatchMade, BatchStatus
  <2>3. b \in 0..MaxBatches
    BY JobNames
  <2>4. batchOf' \in [Handoffs -> 0..MaxBatches]
    BY <2>1, <2>3 DEF BatchMade
  <2>5. \A c \in Batches : members'[c] = IF c = b THEN p ELSE members[c]
    BY <2>1 DEF BatchMade
  <2>6. \A c \in Batches : batch'[c] = "ABSENT" => c # b /\ batch[c] = "ABSENT"
    BY <2>1 DEF BatchMade
  <2>7. \A c \in Batches : members'[c] \subseteq tested'
    BY <1>0, <2>1, <2>5 DEF BatchMade
  <2>8. ASSUME NEW h \in Handoffs, batchOf'[h] # 0 PROVE h \in members'[batchOf'[h]]
    <3>1. CASE h \in p
      BY <2>1, <2>5, <3>1 DEF BatchMade
    <3>2. CASE h \notin p
      <4>1. batchOf'[h] = batchOf[h] /\ h \in members[batchOf[h]]
        BY <2>1, <2>8, <3>2 DEF BatchMade
      <4>2. members[b] = {}
        BY <2>1 DEF BatchMade
      <4>3. batchOf[h] \in Batches
        <5>1. batchOf[h] \in 0..MaxBatches /\ batchOf[h] # 0
          BY <2>8, <4>1
        <5> QED BY <5>1, IntegrationAssumption DEF Batches
      <4> QED BY <2>5, <4>1, <4>2, <4>3
    <3> QED BY <3>1, <3>2
  <2> QED BY <2>2, <2>4, <2>5, <2>6, <2>7, <2>8
<1> QED BY <1>1, <1>2, <1>3 DEF Shape, BatchStep

\* The invariant holds at the start.
LEMMA InitInv == IntegrationInit => IntegrationInv
<1> SUFFICES ASSUME IntegrationInit PROVE IntegrationInv
  OBVIOUS
<1>1. IntegrationTypeOK
  <2>1. 0 \in 0..MaxFaults
    BY IntegrationAssumption
  <2>2. pc \in [Calls -> Phases] /\ job \in [Calls -> Jobs]
    BY JobRecords, PhaseNames DEF IntegrationInit
  <2>3. batchOf \in [Handoffs -> 0..MaxBatches]
    BY JobNames DEF IntegrationInit
  <2> QED BY <2>1, <2>2, <2>3 DEF IntegrationInit, IntegrationTypeOK
<1>2. CallsInv
  BY PhaseNames DEF IntegrationInit, CallsInv, Fits
<1>3. RowsInv /\ ReworkHasOwner /\ BatchedWasTested
  BY DEF IntegrationInit, RowsInv, ReworkHasOwner, BatchedWasTested
<1> QED BY <1>1, <1>2, <1>3 DEF IntegrationInv

\* A step of the shape keeps it.
LEMMA ShapeKeeps ==
    ASSUME IntegrationInv, Shape
    PROVE  IntegrationInv'
<1>1. routed' \subseteq Handoffs /\ tested' \subseteq Handoffs /\ paused' \in BOOLEAN /\ faults' \in 0..MaxFaults
  BY DEF Shape, OtherStep
<1>2. IntegrationTypeOK'
  BY <1>1, RowsKept, CallsKept, BatchesKept DEF IntegrationTypeOK
<1>3. RowsInv' /\ ReworkHasOwner' /\ BatchedWasTested'
  BY RowsKept, BatchesKept DEF RowsInv, ReworkHasOwner, BatchedWasTested
<1> QED BY <1>2, <1>3, CallsKept DEF IntegrationInv

\* So does every step.
LEMMA NextInv == IntegrationInv /\ [IntegrationNext]_vars => IntegrationInv'
<1>1. ASSUME IntegrationInv, UNCHANGED vars PROVE IntegrationInv'
  BY <1>1 DEF vars, storeVars, IntegrationInv, IntegrationTypeOK, CallsInv, RowsInv, ReworkHasOwner,
              BatchedWasTested
<1>2. ASSUME IntegrationInv, IntegrationNext PROVE IntegrationInv'
  BY <1>2, NextShape, ShapeKeeps
<1> QED BY <1>1, <1>2

\* The invariant, of which the theorems are parts.
LEMMA InvHolds == IntegrationSpec => []IntegrationInv
<1> QED BY InitInv, NextInv, PTL DEF IntegrationSpec

\* Every state of the store and of the calls is typed, and no lease is left on
\* a handoff that is back in the pool (_transition_handoff_locked,
\* reconcile_stale_handoff_claims).
THEOREM IntegrationTypeCorrect == IntegrationSpec => []IntegrationTypeOK
<1>1. IntegrationInv => IntegrationTypeOK
  BY DEF IntegrationInv
<1> QED BY <1>1, InvHolds, PTL

\* A handoff in REWORK_REQUIRED has a rework task in a queue, for any number of
\* overlapping, dying and overtaken calls (_route_rework).
THEOREM ReworkIsOwned == IntegrationSpec => []ReworkHasOwner
<1>1. IntegrationInv => ReworkHasOwner
  BY DEF IntegrationInv
<1> QED BY <1>1, InvHolds, PTL

\* A batch is made of handoffs that passed their targeted test, whatever was
\* written over them since (create_batch, pending_batch_handoffs).
THEOREM BatchesWereTested == IntegrationSpec => []BatchedWasTested
<1>1. IntegrationInv => BatchedWasTested
  BY DEF IntegrationInv
<1> QED BY <1>1, InvHolds, PTL

-------------------------------------------------------------------------------
Finished == {h \in Handoffs : status[h] = "INTEGRATED"}

\* The abstract step of one handoff, in the terms of the store.
Handled(h) ==
    \/ (h \in ActiveHandoffs <=> h \in ActiveHandoffs') /\ (h \in Finished <=> h \in Finished')
    \/ ActiveHandoffs = {} /\ ActiveHandoffs' = {h} /\ h \notin Finished /\ h \notin Finished'
    \/ h \in ActiveHandoffs /\ h \notin ActiveHandoffs' /\ h \notin Finished /\ h \notin Finished'
    \/ h \in ActiveHandoffs /\ h \notin ActiveHandoffs' /\ h \notin Finished /\ h \in Finished'
    \/ h \in Overtaken

\* A step on the rows is an abstract step of every handoff.
LEMMA RowStepHandled ==
    ASSUME IntegrationInv, RowStep, NEW h \in Handoffs
    PROVE  Handled(h)
<1> USE DEF IntegrationInv, IntegrationTypeOK
<1>w. /\ h \in ActiveHandoffs <=> status[h] \in Working
      /\ h \in ActiveHandoffs' <=> status'[h] \in Working
      /\ h \in Finished <=> status[h] = "INTEGRATED"
      /\ h \in Finished' <=> status'[h] = "INTEGRATED"
      /\ "INTEGRATED" \notin Working
  BY DEF ActiveHandoffs, Finished, Working
<1>s. status'[h] = status[h] => Handled(h)
  BY <1>w DEF Handled
<1>1. CASE UNCHANGED <<status, lease>> \/ \E g \in Handoffs : RanOut(g)
  BY <1>1, <1>s DEF RanOut
<1>2. CASE \E g \in Handoffs : Published(g)
  <2>1. PICK g \in Handoffs : Published(g)
    BY <1>2
  <2>2. CASE g = h
    <3>1. status[h] = "ABSENT" /\ status'[h] = "READY"
      BY <2>1, <2>2 DEF Published
    <3> QED BY <1>w, <3>1 DEF Handled, Working
  <2>3. CASE g # h
    BY <1>s, <2>1, <2>3 DEF Published
  <2> QED BY <2>2, <2>3
<1>3. CASE \E g \in Handoffs : Claimed(g)
  <2>1. PICK g \in Handoffs : Claimed(g)
    BY <1>3
  <2>2. CASE g = h
    <3>1. ActiveHandoffs = {} /\ status[h] = "READY" /\ status' = [status EXCEPT ![h] = "CLAIMED"]
      BY <2>1, <2>2 DEF Claimed
    <3>2. \A f \in Handoffs : status[f] \notin Working
      BY <3>1 DEF ActiveHandoffs
    <3>3. \A f \in Handoffs : status'[f] \in Working <=> f = h
      BY <3>1, <3>2 DEF Working
    <3>4. ActiveHandoffs' = {h}
      BY <3>3 DEF ActiveHandoffs
    <3>5. status'[h] = "CLAIMED"
      BY <3>1
    <3> QED BY <1>w, <3>1, <3>4, <3>5 DEF Handled
  <2>3. CASE g # h
    BY <1>s, <2>1, <2>3 DEF Claimed
  <2> QED BY <2>2, <2>3
<1>4. CASE \E k \in Calls : Written(k)
  <2>1. PICK k \in Calls : Written(k)
    BY <1>4
  <2>2. CASE job[k].handoff # h
    BY <1>s, <2>1, <2>2 DEF Written, Moved
  <2>3. CASE job[k].handoff = h /\ job[k].saw # status[h]
    <3>1. h \in Overtaken
      BY <2>1, <2>3 DEF Written, Overtaken
    <3> QED BY <3>1 DEF Handled
  <2>4. CASE job[k].handoff = h /\ job[k].saw = status[h]
    <3>1. PICK to : to = job[k].to
      OBVIOUS
    <3>2. to \in HandoffTransitions(status[h]) \ {"CLAIMED"}
      BY <2>1, <2>4, <3>1 DEF Written, CallsInv, Fits
    <3>3. status'[h] = to
      BY <2>1, <2>4, <3>1 DEF Written, Moved
    <3>4. /\ status[h] # "INTEGRATED"
          /\ to \in Working => status[h] \in Working
          /\ to = "INTEGRATED" => status[h] \in Working
      BY <3>2, HandoffEdges
    <3> QED BY <1>w, <3>3, <3>4 DEF Handled
  <2> QED BY <2>2, <2>3, <2>4
<1>5. CASE \E k \in Calls : GivenBack(k)
  <2>1. PICK k \in Calls : GivenBack(k)
    BY <1>5
  <2>2. CASE h \notin job[k].pending
    BY <1>s, <2>1, <2>2 DEF GivenBack, Reconciled
  <2>3. CASE h \in job[k].pending /\ status[h] \notin Working
    <3>1. h \in Overtaken
      BY <2>1, <2>3 DEF GivenBack, Overtaken
    <3> QED BY <3>1 DEF Handled
  <2>4. CASE h \in job[k].pending /\ status[h] \in Working
    <3>1. status'[h] = "READY"
      BY <2>1, <2>4 DEF GivenBack, Reconciled
    <3>2. "READY" \notin Working
      BY DEF Working
    <3> QED BY <1>w, <2>4, <3>1, <3>2 DEF Handled
  <2> QED BY <2>2, <2>3, <2>4
<1> QED BY <1>1, <1>2, <1>3, <1>4, <1>5 DEF RowStep

\* The store implements OneAtATime: only a call whose read was overtaken puts a
\* second handoff to work or takes a finished one back, for any number of
\* handoffs, calls and faults (claim_next_handoff, transition_handoff,
\* reconcile_stale_handoff_claims).
THEOREM ImplementsOneAtATime == IntegrationSpec => OnlyTheOvertakenInterfere
<1> DEFINE worked == ActiveHandoffs
           finished == {h \in Handoffs : status[h] = "INTEGRATED"}
<1>1. IntegrationInit => OneAtATime!Init
  BY DEF IntegrationInit, OneAtATime!Init, ActiveHandoffs, Overtaken, Working
<1>2. IntegrationInv /\ [IntegrationNext]_vars => [OneAtATime!Next]_<<worked, finished, Overtaken>>
  <2> SUFFICES ASSUME IntegrationInv, [IntegrationNext]_vars
               PROVE  [OneAtATime!Next]_<<worked, finished, Overtaken>>
    OBVIOUS
  <2>1. CASE UNCHANGED vars
    BY <2>1 DEF vars, storeVars, ActiveHandoffs, Overtaken
  <2>2. CASE IntegrationNext
    <3>1. \A h \in Handoffs : Handled(h)
      BY <2>2, NextShape, RowStepHandled DEF Shape
    <3>2. OneAtATime!Next
      BY <3>1, Zenon DEF Handled, Finished, OneAtATime!Next, OneAtATime!Keeps, OneAtATime!Taken,
                         OneAtATime!Dropped, OneAtATime!Finished
    <3> QED BY <3>2
  <2> QED BY <2>1, <2>2
<1> QED BY <1>1, <1>2, InvHolds, PTL DEF IntegrationSpec, OnlyTheOvertakenInterfere, OneAtATime!Spec
===============================================================================
