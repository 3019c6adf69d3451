--------------------------- MODULE IntegrationQueue ---------------------------
(***************************************************************************)
(* integration_store.py, integration_engine.py and integration_service.py  *)
(* for one project: finished work is published as handoffs, each is        *)
(* reviewed, merged into the integration branch and tested; what passed is *)
(* batched, and the batch goes through the full regression.                *)
(*                                                                         *)
(* The background loop (integration_loop.py) and the tools call tick from  *)
(* threads of their own: Calls are the calls that may be in progress.      *)
(* A call is split where it runs git or a test command, between its        *)
(* transactions, and inside them: transition_handoff, transition_batch,    *)
(* promote_batch and reconcile_stale_handoff_claims check a plain SELECT,  *)
(* which opens no transaction, and then write the row by its id.  Only     *)
(* claim_next_handoff says BEGIN IMMEDIATE.  The lock of the worktree      *)
(* keeps nobody apart: every caller acquires it as the same owner.         *)
(*                                                                         *)
(* Of git and of the test commands the model keeps their outcomes: a merge *)
(* succeeds, conflicts or fails, a revert succeeds or fails.  What the     *)
(* branch then carries, and what promote_to_main takes from it, is left    *)
(* out.                                                                    *)
(***************************************************************************)
EXTENDS Naturals, FiniteSetsExt

CONSTANTS
    MaxHandoffs,    \* bound on publish_handoff calls
    MaxBatches,     \* bound on create_batch calls
    MaxFaults,      \* bound on crashes, leases that lapse too early, retries and pauses
    Loop, Tools     \* the background loop, and calls of the tools

ASSUME IntegrationAssumption ==
    /\ {MaxHandoffs, MaxBatches, MaxFaults} \subseteq Nat
    /\ Loop \notin Tools

Calls == {Loop} \cup Tools

Handoffs == 1..MaxHandoffs      \* in the order of created_at
Batches == 1..MaxBatches

HandoffTransitions(s) ==
    CASE s = "READY" -> {"CLAIMED", "BLOCKED"}
      [] s = "CLAIMED" -> {"MERGING", "REWORK", "READY", "BLOCKED"}
      [] s = "MERGING" -> {"TARGETED_TEST", "REWORK", "BLOCKED", "READY"}
      [] s = "TARGETED_TEST" -> {"INTEGRATED", "REWORK", "BLOCKED", "READY"}
      [] s \in {"REWORK", "BLOCKED"} -> {"READY"}
      [] OTHER -> {}

BatchTransitions(s) ==
    CASE s = "PENDING" -> {"RUNNING"}
      [] s = "RUNNING" -> {"MERGE_READY", "FAILED"}
      [] s = "FAILED" -> {"PENDING"}
      [] OTHER -> {}

Working == {"CLAIMED", "MERGING", "TARGETED_TEST"}
HandoffStatus == Working \cup {"READY", "INTEGRATED", "REWORK", "BLOCKED"}
BatchStatus == {"PENDING", "RUNNING", "MERGE_READY", "FAILED"}

VARIABLES
    status,     \* of each handoff, "ABSENT" before it is published
    lease,      \* lease_expires_at: "none" for NULL, "live", or "lapsed"
    routed,     \* the handoffs for which a rework task was appended
    batch,      \* status of each batch, "ABSENT" before it is created
    members,    \* handoff_ids of each batch
    batchOf,    \* regression_batch_id of each handoff, 0 for NULL
    paused      \* of the pipeline
storeVars == <<status, lease, routed, batch, members, batchOf, paused>>

VARIABLES
    pc,         \* what each call does next
    job,        \* the rows it works on, as it read them
    tested,     \* history: the handoffs a targeted test passed
    faults
vars == <<storeVars, pc, job, tested, faults>>

\* saw and to: the status a transition checked and the one it will write.
NoJob == [handoff |-> 0, batch |-> 0, pending |-> {}, saw |-> "ABSENT", to |-> "ABSENT"]
Jobs == [handoff : 0..MaxHandoffs, batch : 0..MaxBatches, pending : SUBSET Handoffs,
         saw : HandoffStatus \cup {"ABSENT"}, to : HandoffStatus \cup BatchStatus \cup {"ABSENT"}]
HandoffPhases == {"review", "merge", "test", "move"}
BatchPhases == {"start", "regress", "failing", "passing"}
Phases == HandoffPhases \cup BatchPhases
            \cup {"idle", "reconcile", "claim", "create", "pause"}

IntegrationTypeOK ==
    /\ status \in [Handoffs -> HandoffStatus \cup {"ABSENT"}]
    /\ lease \in [Handoffs -> {"none", "live", "lapsed"}]
    /\ \A h \in Handoffs : status[h] \in {"ABSENT", "READY"} => lease[h] = "none"
    /\ routed \subseteq Handoffs
    /\ batch \in [Batches -> BatchStatus \cup {"ABSENT"}]
    /\ members \in [Batches -> SUBSET Handoffs]
    /\ batchOf \in [Handoffs -> 0..MaxBatches]
    /\ paused \in BOOLEAN
    /\ pc \in [Calls -> Phases]
    /\ job \in [Calls -> Jobs]
    /\ tested \subseteq Handoffs
    /\ faults \in 0..MaxFaults

IntegrationInit ==
    /\ status = [h \in Handoffs |-> "ABSENT"]
    /\ lease = [h \in Handoffs |-> "none"]
    /\ routed = {}
    /\ batch = [b \in Batches |-> "ABSENT"]
    /\ members = [b \in Batches |-> {}]
    /\ batchOf = [h \in Handoffs |-> 0]
    /\ paused = FALSE
    /\ pc = [k \in Calls |-> "idle"]
    /\ job = [k \in Calls |-> NoJob]
    /\ tested = {} /\ faults = 0

-------------------------------------------------------------------------------
ActiveHandoffs == {h \in Handoffs : status[h] \in Working}
Ready == {h \in Handoffs : status[h] = "READY"}

\* _active_handoff: by status first, then by age.
FirstActive ==
    LET of(s) == {h \in Handoffs : status[h] = s} IN
    Min(IF of("CLAIMED") # {} THEN of("CLAIMED")
        ELSE IF of("MERGING") # {} THEN of("MERGING") ELSE of("TARGETED_TEST"))

PendingUntested == {h \in Handoffs : status[h] \in {"TARGETED_TEST", "INTEGRATED"} /\ batchOf[h] = 0}

PendingHandoffs == {h \in Handoffs : status[h] = "INTEGRATED" /\ batchOf[h] = 0}

\* get_open_batch: the newest one.
OpenBatches == {b \in Batches : batch[b] \in {"PENDING", "RUNNING"}}
OpenBatch == Max(OpenBatches)

GoWith(k, phase, j) == pc' = [pc EXCEPT ![k] = phase] /\ job' = [job EXCEPT ![k] = j]
Return(k) == GoWith(k, "idle", NoJob)

\* transition_handoff reads the row, and raises if the table has no such move.
\* The exception ends the call.
CanMove(h, to) == to \in HandoffTransitions(status[h])

TransitionReads(k, to) ==
    LET h == job[k].handoff IN
    \/ /\ CanMove(h, to)
       /\ GoWith(k, "move", [NoJob EXCEPT !.handoff = h, !.saw = status[h], !.to = to])
    \/ ~CanMove(h, to) /\ Return(k)

Transition(k, to) == TransitionReads(k, to) /\ UNCHANGED <<storeVars, faults>>

\* Its UPDATE ... WHERE id = ?, whatever the row says by now.  A handoff that
\* becomes READY loses its lease; MERGING is followed by the merge.
MovedKeepsLease(h, to) ==
    /\ status' = [status EXCEPT ![h] = to]
    /\ UNCHANGED lease

Moved(h, to) ==
    /\ status' = [status EXCEPT ![h] = to]
    /\ lease' = [lease EXCEPT ![h] = IF to = "READY" THEN "none" ELSE @]

Move(k) ==
    /\ pc[k] = "move"
    /\ LET h == job[k].handoff  to == job[k].to IN
       /\ Moved(h, to)
       /\ \/ to = "MERGING" /\ GoWith(k, "merge", [NoJob EXCEPT !.handoff = h])
          \/ to # "MERGING" /\ Return(k)
    /\ UNCHANGED <<routed, batch, members, batchOf, paused, tested, faults>>

-------------------------------------------------------------------------------
\* publish_handoff, called for a completed task (publish_handoff_for_completed_task).
Publish(h) ==
    /\ status[h] = "ABSENT" /\ \A older \in 1..(h - 1) : status[older] # "ABSENT"
    /\ status' = [status EXCEPT ![h] = "READY"]
    /\ UNCHANGED <<lease, routed, batch, members, batchOf, paused,
                   pc, job, faults, tested>>

\* reconcile_stale_handoff_claims, which every tick begins with: the plain read ...
Stale == {h \in ActiveHandoffs : lease[h] = "lapsed"}

ReconcileReads(k) ==
    /\ pc[k] = "idle" /\ Stale # {}
    /\ GoWith(k, "reconcile", [NoJob EXCEPT !.pending = Stale])
    /\ UNCHANGED <<storeVars, tested, faults>>


Reconciled(S) ==
    /\ status' = [h \in Handoffs |-> IF h \in S THEN "READY" ELSE status[h]]
    /\ lease' = [h \in Handoffs |-> IF h \in S THEN "none" ELSE lease[h]]

Reconcile(k) ==
    /\ pc[k] = "reconcile"
    /\ Reconciled(job[k].pending)
    /\ Return(k)
    /\ UNCHANGED <<routed, batch, members, batchOf, paused, tested, faults>>

\* The active handoff decides what the tick does.  MERGING is left to whoever merges.
Looks(k) ==
    \/ ~paused /\ ActiveHandoffs = {} /\ GoWith(k, "claim", NoJob)
    \/ /\ ~paused /\ ActiveHandoffs # {} /\ status[FirstActive] = "CLAIMED"
       /\ GoWith(k, "review", [NoJob EXCEPT !.handoff = FirstActive])
    \/ /\ ~paused /\ ActiveHandoffs # {} /\ status[FirstActive] = "TARGETED_TEST"
       /\ GoWith(k, "test", [NoJob EXCEPT !.handoff = FirstActive])
    \/ paused /\ Return(k)
    \/ ActiveHandoffs # {} /\ status[FirstActive] = "MERGING" /\ Return(k)

\* tick, when there is nothing to reconcile: its reads are one step.
Tick(k) ==
    /\ pc[k] = "idle" /\ Stale = {}
    /\ Looks(k)
    /\ UNCHANGED <<storeVars, tested, faults>>

\* claim_next_handoff
MayClaimUnlocked == ~paused /\ Ready # {}

MayClaim == ~paused /\ ActiveHandoffs = {} /\ Ready # {}

Claim(k) ==
    /\ pc[k] = "claim" /\ MayClaim
    /\ status' = [status EXCEPT ![Min(Ready)] = "CLAIMED"]
    /\ lease' = [lease EXCEPT ![Min(Ready)] = "live"]
    /\ Return(k)
    /\ UNCHANGED <<routed, batch, members, batchOf, paused,
                   tested, faults>>

-------------------------------------------------------------------------------
\* _review_then_merge: the reviewer's answer.
ReviewBlocks(k) == pc[k] = "review" /\ Transition(k, "BLOCKED") /\ UNCHANGED tested

\* _route_rework appends a task to the owner's queue, and the handoff is moved
\* after it, in another database: the call may die before it is.
RouteReworkLost(k) == Transition(k, "REWORK") /\ UNCHANGED tested

RouteRework(k) ==
    /\ routed' = routed \cup {job[k].handoff}
    /\ TransitionReads(k, "REWORK")
    /\ UNCHANGED <<status, lease, batch, members, batchOf, paused, tested, faults>>

ReviewNeedsRework(k) == pc[k] = "review" /\ RouteRework(k)

ReviewPasses(k) == pc[k] = "review" /\ Transition(k, "MERGING") /\ UNCHANGED tested

\* _merge: git merge --no-ff, at once or with whitespace ignored, and the
\* transition that stores its commit; a conflict; no worktree, or git fails.
Merged(k) == pc[k] = "merge" /\ Transition(k, "TARGETED_TEST") /\ UNCHANGED tested
MergeConflict(k) == pc[k] = "merge" /\ RouteRework(k)
MergeFails(k) == pc[k] = "merge" /\ Transition(k, "BLOCKED") /\ UNCHANGED tested

-------------------------------------------------------------------------------
\* _run_targeted_test.  The test could not be run, or it failed and so did the
\* revert of the merge.
TestNotRun(k) == pc[k] = "test" /\ Transition(k, "BLOCKED") /\ UNCHANGED tested

TestPasses(k) ==
    /\ pc[k] = "test" /\ Transition(k, "INTEGRATED")
    /\ tested' = tested \cup {job[k].handoff}

\* The test failed and _revert_merge took the merge off the branch.
TestFails(k) == pc[k] = "test" /\ RouteRework(k)

-------------------------------------------------------------------------------
\* _tick_batch, when nothing could be claimed.  Whether there are enough handoffs, or old enough ones, is open.
BatchStarts(k) ==
    /\ pc[k] = "claim" /\ ~MayClaim /\ OpenBatches # {} /\ batch[OpenBatch] = "PENDING"
    /\ GoWith(k, "start", [NoJob EXCEPT !.batch = OpenBatch, !.to = "RUNNING"])
    /\ UNCHANGED <<storeVars, tested, faults>>

BatchGoesOn(k) ==
    /\ pc[k] = "claim" /\ ~MayClaim
    /\ \/ /\ OpenBatches # {} /\ batch[OpenBatch] = "RUNNING"
          /\ GoWith(k, "regress", [NoJob EXCEPT !.batch = OpenBatch])
       \/ /\ OpenBatches = {} /\ PendingHandoffs # {}
          /\ GoWith(k, "create", [NoJob EXCEPT !.pending = PendingHandoffs])
       \/ OpenBatches = {} /\ Return(k)
    /\ UNCHANGED <<storeVars, tested, faults>>

\* force_regression
ForceRegression(k) ==
    /\ k \in Tools /\ pc[k] = "idle" /\ PendingHandoffs # {}
    /\ GoWith(k, "create", [NoJob EXCEPT !.pending = PendingHandoffs])
    /\ UNCHANGED <<storeVars, tested, faults>>

\* create_batch, with the handoffs that were pending a moment ago.
CreateBatch(k) ==
    /\ pc[k] = "create"
    /\ \E b \in Batches :
         /\ batch[b] = "ABSENT" /\ \A older \in 1..(b - 1) : batch[older] # "ABSENT"
         /\ batch' = [batch EXCEPT ![b] = "PENDING"]
         /\ members' = [members EXCEPT ![b] = job[k].pending]
         /\ batchOf' = [h \in Handoffs |-> IF h \in job[k].pending THEN b ELSE batchOf[h]]
    /\ Return(k)
    /\ UNCHANGED <<status, lease, routed, paused, tested, faults>>

NoMoreBatches(k) ==
    /\ pc[k] = "create" /\ \A b \in Batches : batch[b] # "ABSENT"
    /\ Return(k)
    /\ UNCHANGED <<storeVars, tested, faults>>

\* transition_batch, which reads and checks, ...
BatchTransition(k, to, phase) ==
    /\ \/ to \in BatchTransitions(batch[job[k].batch]) /\ GoWith(k, phase, [job[k] EXCEPT !.to = to])
       \/ to \notin BatchTransitions(batch[job[k].batch]) /\ Return(k)
    /\ UNCHANGED <<storeVars, tested, faults>>

\* ... and then writes.  A regression that failed or could not run pauses the
\* pipeline in a transaction of its own.
BatchMove(k) ==
    /\ pc[k] \in {"start", "failing", "passing"}
    /\ batch' = [batch EXCEPT ![job[k].batch] = job[k].to]
    /\ Return(k) \/ (pc[k] = "failing" /\ GoWith(k, "pause", NoJob))
    /\ UNCHANGED <<status, lease, routed, members, batchOf, paused, tested, faults>>

\* _run_full_regression.  A missing worktree fails the batch without a pause.
RegressionFails(k) == pc[k] = "regress" /\ BatchTransition(k, "FAILED", "failing")
RegressionPasses(k) == pc[k] = "regress" /\ BatchTransition(k, "MERGE_READY", "passing")

PauseAfterFailure(k) ==
    /\ pc[k] = "pause"
    /\ paused' = TRUE /\ Return(k)
    /\ UNCHANGED <<status, lease, routed, batch, members, batchOf,
                   tested, faults>>

-------------------------------------------------------------------------------
\* retry_handoff: a transition of its own.
RetryHandoff(k, h) ==
    /\ k \in Tools /\ pc[k] = "idle" /\ faults < MaxFaults
    /\ status[h] \in {"REWORK", "BLOCKED"}
    /\ GoWith(k, "move", [NoJob EXCEPT !.handoff = h, !.saw = status[h], !.to = "READY"])
    /\ faults' = faults + 1
    /\ UNCHANGED <<storeVars, tested>>

\* pause_pipeline, resume_pipeline
PausePipeline ==
    /\ ~paused /\ faults < MaxFaults
    /\ paused' = TRUE /\ faults' = faults + 1
    /\ UNCHANGED <<status, lease, routed, batch, members, batchOf, pc, job, tested>>

ResumePipeline ==
    /\ paused /\ paused' = FALSE
    /\ UNCHANGED <<status, lease, routed, batch, members, batchOf, pc, job, tested, faults>>

\* A lease runs out.  While a call is still at work on the handoff, or about to
\* be, that is a fault: the test may take longer than the lease.
Abandoned(h) == status[h] = "MERGING" /\ \A k \in Calls : job[k].handoff # h

Lapse(h) ==
    /\ status[h] \in Working /\ lease[h] = "live"
    /\ lease' = [lease EXCEPT ![h] = "lapsed"]
    /\ IF Abandoned(h) THEN UNCHANGED faults
       ELSE faults < MaxFaults /\ faults' = faults + 1
    /\ UNCHANGED <<status, routed, batch, members, batchOf, paused,
                   pc, job, tested>>

\* The process dies, or git checkout raises what nobody catches.
CallDies(k) ==
    /\ pc[k] # "idle" /\ faults < MaxFaults
    /\ faults' = faults + 1
    /\ Return(k)
    /\ UNCHANGED <<storeVars, tested>>

-------------------------------------------------------------------------------
CallGoesOn(k) ==
    \/ Move(k) \/ Reconcile(k)
    \/ Claim(k)
    \/ ReviewBlocks(k) \/ ReviewNeedsRework(k) \/ ReviewPasses(k)
    \/ Merged(k) \/ MergeConflict(k) \/ MergeFails(k)
    \/ TestNotRun(k) \/ TestPasses(k) \/ TestFails(k)
    \/ BatchStarts(k) \/ BatchGoesOn(k) \/ CreateBatch(k) \/ NoMoreBatches(k)
    \/ RegressionFails(k) \/ RegressionPasses(k) \/ BatchMove(k) \/ PauseAfterFailure(k)

TickBegins(k) == ReconcileReads(k) \/ Tick(k)

IntegrationNext ==
    \/ \E h \in Handoffs : Publish(h) \/ Lapse(h) \/ \E k \in Tools : RetryHandoff(k, h)
    \/ PausePipeline \/ ResumePipeline
    \/ \E k \in Calls :
         \/ TickBegins(k) \/ CallGoesOn(k) \/ CallDies(k)
         \/ ForceRegression(k)

IntegrationSpec == IntegrationInit /\ [][IntegrationNext]_vars

\* The loop ticks a pipeline that is not paused again and again; a call ends, since git and the tests have
\* timeouts; an abandoned lease runs out.
IntegrationFairness ==
    /\ WF_vars(~paused /\ TickBegins(Loop))
    /\ \A k \in Calls : WF_vars(CallGoesOn(k))
    /\ \A h \in Handoffs : WF_vars(Abandoned(h) /\ Lapse(h))

FairSpec == IntegrationSpec /\ IntegrationFairness

-------------------------------------------------------------------------------
\* The handoffs of which some call holds a read that is no longer true.
Overtaken ==
    {h \in Handoffs : \E k \in Calls :
        \/ pc[k] = "move" /\ job[k].handoff = h /\ job[k].saw # status[h]
        \/ pc[k] = "reconcile" /\ h \in job[k].pending /\ status[h] \notin Working}

OneAtATime ==
    INSTANCE OneAtATime WITH
        Handoffs <- Handoffs,
        worked <- ActiveHandoffs,
        finished <- {h \in Handoffs : status[h] = "INTEGRATED"},
        overtaken <- Overtaken

\* What is left of "A project's Integration Agent processes ONE handoff at a
\* time" and of INTEGRATED being for good, with ticks that overlap, die, and
\* outlive their leases: only a call whose read another one has overtaken puts
\* a second handoff to work or takes a finished one back (claim_next_handoff,
\* transition_handoff, reconcile_stale_handoff_claims).
OnlyTheOvertakenInterfere == OneAtATime!Spec

\* Work that is sent back has somebody to do it: the rework task is in a queue
\* before the handoff says REWORK_REQUIRED (_route_rework), also when the call
\* that routed it died and another one found the handoff again.
ReworkHasOwner == \A h \in Handoffs : status[h] = "REWORK" => h \in routed

\* A batch holds only handoffs whose targeted test was run and passed, although
\* it is made of what was pending a transaction earlier and verdicts of
\* overlapping tests overwrite each other, and every batched handoff names a
\* batch that lists it (create_batch, pending_batch_handoffs).
BatchedWasTested ==
    /\ \A b \in Batches : members[b] \subseteq tested
    /\ \A h \in Handoffs : batchOf[h] # 0 => h \in members[batchOf[h]]

\* Again and again every handoff that was published is integrated, sent to rework
\* or blocked, or the pipeline is paused: a merge that died does not keep the
\* project for ever (reconcile_stale_handoff_claims, IntegrationLoop).
Settled == {"INTEGRATED", "REWORK", "BLOCKED"}
===============================================================================
