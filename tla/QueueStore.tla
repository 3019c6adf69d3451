------------------------------ MODULE QueueStore ------------------------------
(***************************************************************************)
(* queue_store.py: the durable task queue.  A task sits in the lane of one *)
(* terminal session; the store claims it for a worker, records what the    *)
(* coordinator and the engine decide about it, and sweeps up after workers *)
(* that died.  One action per method with the store's own guards: the      *)
(* callers (QueueEngine, the tools) are free.                              *)
(*                                                                         *)
(* This is the serial behaviour of the store: a method reads and writes in *)
(* one step.  That is what BEGIN IMMEDIATE makes of the methods that say   *)
(* it; a method that does not (transition_task first of all) can be        *)
(* overtaken between its SELECT and its UPDATE, which StoreTransactions    *)
(* models and this module does not.                                        *)
(*                                                                         *)
(* A method that raises rolls its transaction back, so the action is       *)
(* disabled.  Abstracted: times (a lease or a grace period may be over at  *)
(* any moment, so renew_task_lease, which only delays that, is no action), *)
(* positions and priorities (the claim takes any eligible task of the      *)
(* lane), claim tokens (a call with another token changes nothing), texts  *)
(* and the event log.  Counters that only delay the sweeps                 *)
(* (coordinator_attempts, backoff) are left out, and paused_from_status is *)
(* kept only while the task is PAUSED: nothing reads it before the next    *)
(* pause overwrites it.                                                    *)
(***************************************************************************)
EXTENDS TaskStates, Naturals, FiniteSets

CONSTANTS
    Tasks, Lanes,
    NoLane,         \* execution_session IS NULL; no row yet
    DependsOn,      \* depends_on of every task
    MaxAttempts,    \* bound on attempt_count
    AutoAttempts    \* AI_MAX_AUTOMATIC_ATTEMPTS

ASSUME QueueAssumption ==
    /\ Lanes # {}
    /\ NoLane \notin Lanes
    /\ DependsOn \in [Tasks -> SUBSET Tasks]
    /\ MaxAttempts \in Nat
    /\ AutoAttempts \in Nat

VARIABLES
    status,
    session,        \* the lane the task is in
    claimed,        \* claim_token IS NOT NULL
    pausedFrom,     \* paused_from_status of a PAUSED task
    evidence,       \* execution_evidence and started_at, which are set together
    attempts,       \* attempt_count
    refused,        \* delivery_verdict.kind = "REFUSED"
    bound,          \* execution_session of a BOUND or SPAWNED task
    lane            \* per lane: no row, "open", or who paused it ("user" stands for
                    \* every origin that is not the coordinator)
taskVars == <<status, session, claimed, pausedFrom, evidence, attempts, refused, bound>>
vars == <<taskVars, lane>>

TypeOK ==
    /\ status \in [Tasks -> Status \cup {"ABSENT"}]
    /\ session \in [Tasks -> Lanes \cup {NoLane}]
    /\ \A t \in Tasks : session[t] = NoLane <=> status[t] = "ABSENT"
    /\ claimed \in [Tasks -> BOOLEAN]
    /\ pausedFrom \in [Tasks -> (Pausable \ {"WAITING_SESSION"}) \cup {"QUEUED", "NULL"}]
    /\ evidence \in [Tasks -> BOOLEAN]
    /\ attempts \in [Tasks -> 0..MaxAttempts]
    /\ refused \in [Tasks -> BOOLEAN]
    /\ bound \in [Tasks -> Lanes \cup {NoLane}]
    /\ lane \in [Lanes -> {"absent", "open", "user", "coordinator"}]

Init ==
    /\ status = [t \in Tasks |-> "ABSENT"]
    /\ session = [t \in Tasks |-> NoLane]
    /\ claimed = [t \in Tasks |-> FALSE]
    /\ pausedFrom = [t \in Tasks |-> "NULL"]
    /\ evidence = [t \in Tasks |-> FALSE]
    /\ attempts = [t \in Tasks |-> 0]
    /\ refused = [t \in Tasks |-> FALSE]
    /\ bound = [t \in Tasks |-> NoLane]
    /\ lane = [l \in Lanes |-> "absent"]

-------------------------------------------------------------------------------
In(l) == {t \in Tasks : session[t] = l}
With(S) == {t \in Tasks : status[t] \in S}

\* _ensure_lane: INSERT OR IGNORE
Ensured(l) == [lane EXCEPT ![l] = IF @ = "absent" THEN "open" ELSE @]

\* The checks of _transition_locked.
AllowedTerminalToo(t, to) == to \in {"RUNNING", "VERIFYING"} => evidence[t]

Allowed(t, to) ==
    /\ to \in ValidTransitions(status[t])
    /\ to \in {"RUNNING", "VERIFYING"} => evidence[t]

\* _transition_locked for every task whose status new changes: DISPATCHING
\* counts an attempt, a terminal status ends the claim.  The caller clears the
\* claim of the tasks in drop, and saves from[t] for a task it pauses.
Transitioned(new, drop, from) ==
    /\ \A t \in Tasks : new[t] = status[t] \/ Allowed(t, new[t])
    /\ \A t \in Tasks : new[t] = "DISPATCHING" /\ status[t] # new[t] => attempts[t] < MaxAttempts
    /\ status' = new
    /\ attempts' = [t \in Tasks |->
                      IF new[t] = "DISPATCHING" /\ status[t] # new[t] THEN attempts[t] + 1
                      ELSE attempts[t]]
    /\ claimed' = [t \in Tasks |->
                     claimed[t] /\ ~(new[t] # status[t] /\ (new[t] \in Terminal \/ t \in drop))]
    /\ pausedFrom' = [t \in Tasks |->
                        IF new[t] # "PAUSED" THEN "NULL"
                        ELSE IF status[t] = "PAUSED" THEN pausedFrom[t]
                        ELSE from[t]]

One(t, to) == [status EXCEPT ![t] = to]
All(T, to) == [t \in Tasks |-> IF t \in T THEN to ELSE status[t]]

\* transition_task, for a call that no other write overtakes between its SELECT
\* and its UPDATE (StoreTransactions!Write has the others): the row is read,
\* checked and written; no status has an edge to itself.  keep leaves the claim.
Transition(t, to, keep) ==
    /\ Allowed(t, to)
    /\ Transitioned(One(t, to), IF keep THEN {} ELSE {t}, status)
    /\ UNCHANGED <<session, evidence, refused, bound, lane>>

-------------------------------------------------------------------------------
\* set_tasks and append_tasks, for one new task; replace_pending cancels what
\* is still QUEUED in the lane.
SetTasks(l, t, replace) ==
    /\ status[t] = "ABSENT"
    /\ LET stale == IF replace THEN In(l) \cap With({"QUEUED"}) ELSE {} IN
       /\ status' = [All(stale, "CANCELLED") EXCEPT ![t] = "QUEUED"]
       /\ claimed' = [u \in Tasks |-> claimed[u] /\ u \notin stale]
    /\ session' = [session EXCEPT ![t] = l]
    /\ lane' = Ensured(l)
    /\ UNCHANGED <<pausedFrom, evidence, attempts, refused, bound>>

\* A dependency may be in any lane; one that does not exist is not satisfied.
DependenciesSatisfied(t) == \A d \in DependsOn[t] : status[d] = "COMPLETED"

\* _next_dispatchable_locked: a task of an open lane that no task occupies.
NextDispatchable(t) ==
    /\ status[t] = "QUEUED"
    /\ lane[session[t]] = "open"
    /\ In(session[t]) \cap With(Active) = {}
    /\ DependenciesSatisfied(t)

\* claim_next_task, under BEGIN IMMEDIATE.
ClaimNextTask(t) ==
    /\ NextDispatchable(t)
    /\ status' = One(t, "PRECHECK")
    /\ claimed' = [claimed EXCEPT ![t] = TRUE]
    /\ UNCHANGED <<session, pausedFrom, evidence, attempts, refused, bound, lane>>

\* _pause_lane_locked's sweep of what is in flight in l, after the status
\* changes in base.
PauseSweep(l, base) ==
    [t \in Tasks |-> IF session[t] = l /\ base[t] \in Pausable THEN "PAUSED" ELSE base[t]]

PauseLane(l, origin) ==
    /\ Transitioned(PauseSweep(l, status), {}, status)
    /\ lane' = [lane EXCEPT ![l] = origin]
    /\ UNCHANGED <<session, evidence, refused, bound>>

\* resume_lane: every PAUSED task of the lane goes back to where it was.
ResumeLane(l) ==
    LET paused == In(l) \cap With({"PAUSED"}) IN
    /\ Transitioned([t \in Tasks |-> IF t \in paused THEN pausedFrom[t] ELSE status[t]], {}, status)
    /\ lane' = [lane EXCEPT ![l] = "open"]
    /\ UNCHANGED <<session, evidence, refused, bound>>

\* record_coordinator_decision.  The claim survives READY only.
Decide(t, to) ==
    /\ to \in {"READY", "BLOCKED", "QUEUED"}
    /\ Transition(t, to, to = "READY")

\* NEEDS_HUMAN pauses the task and then its lane, in one transaction.
DecideNeedsHuman(t) ==
    /\ status[t] # "PAUSED"
    /\ Transitioned(PauseSweep(session[t], One(t, "PAUSED")), {t}, One(t, "QUEUED"))
    /\ lane' = [lane EXCEPT ![session[t]] = "coordinator"]
    /\ UNCHANGED <<session, evidence, refused, bound>>

\* mark_running_with_evidence: the evidence arrives with the status.
MarkRunningUnproven(t) ==
    /\ "RUNNING" \in ValidTransitions(status[t])
    /\ status' = One(t, "RUNNING")
    /\ pausedFrom' = [pausedFrom EXCEPT ![t] = "NULL"]
    /\ UNCHANGED <<session, claimed, evidence, attempts, refused, bound, lane>>

MarkRunning(t) ==
    /\ "RUNNING" \in ValidTransitions(status[t])
    /\ status' = One(t, "RUNNING")
    /\ pausedFrom' = [pausedFrom EXCEPT ![t] = "NULL"]
    /\ evidence' = [evidence EXCEPT ![t] = TRUE]
    /\ UNCHANGED <<session, claimed, attempts, refused, bound, lane>>

\* record_delivery_verdict.
RecordVerdict(t, bad) ==
    /\ t \notin With({"ABSENT"})
    /\ refused' = [refused EXCEPT ![t] = bad]
    /\ UNCHANGED <<status, session, claimed, pausedFrom, evidence, attempts, bound, lane>>

\* mark_completed_with_evidence, once the contract allows it.
Complete(t) == Transition(t, "COMPLETED", TRUE)

\* invalidate_false_completion: the one way out of COMPLETED.
Invalidate(t) ==
    /\ status[t] = "COMPLETED"
    /\ status' = One(t, "CANCELLED")
    /\ claimed' = [claimed EXCEPT ![t] = FALSE]
    /\ UNCHANGED <<session, pausedFrom, evidence, attempts, refused, bound, lane>>

\* recover_stale_active_task, on a snapshot that is still current.
RecoverStale(t, to) ==
    /\ status[t] \in {"RUNNING", "VERIFYING", "DISPATCH_UNCERTAIN"}
    /\ to \in {"WAITING_SESSION", "BLOCKED", "CANCELLED"}
    /\ Transition(t, to, FALSE)

\* retry_task is refused to a task in flight; skip_task; cancel_task.
Retry(t) == status[t] \notin InFlight /\ Transition(t, "QUEUED", TRUE)
Skip(t) == Transition(t, "SKIPPED", TRUE)
Cancel(t) == Transition(t, "CANCELLED", TRUE)

\* clear_tasks
ClearTasks(l, S) ==
    LET T == In(l) \cap With(S) IN
    /\ T # {}
    /\ Transitioned(All(T, "CANCELLED"), {}, status)
    /\ UNCHANGED <<session, evidence, refused, bound, lane>>

-------------------------------------------------------------------------------
\* release_task_claim and handoff_task, by the holder of the claim.
ReleaseClaim(t) ==
    /\ status[t] \in Leased /\ claimed[t]
    /\ Transition(t, "QUEUED", FALSE)

HandoffTask(t, l) ==
    /\ status[t] \in Leased /\ claimed[t]
    /\ claimed' = [claimed EXCEPT ![t] = TRUE]
    /\ session' = [session EXCEPT ![t] = l]
    /\ UNCHANGED <<status, pausedFrom, evidence, attempts, refused, bound, lane>>

-------------------------------------------------------------------------------
\* The sweeps, over the lanes in L.
Swept(L, S) == {t \in With(S) : session[t] \in L}

\* reconcile_stale_claims: those whose lease is over.
ReconcileStaleClaims(L) ==
    /\ \E T \in SUBSET {t \in Swept(L, {"PRECHECK", "DISPATCHING"}) : claimed[t]} \ {{}} :
         Transitioned([t \in Tasks |-> IF t \notin T THEN status[t]
                                       ELSE IF status[t] = "PRECHECK" THEN "QUEUED"
                                       ELSE "DISPATCH_UNCERTAIN"], T, status)
    /\ UNCHANGED <<session, evidence, refused, bound, lane>>

\* reconcile_uncertain_and_waiting: those whose grace period is over.
ReconcileWaiting(L) ==
    /\ \E T \in SUBSET Swept(L, {"WAITING_SESSION"}) \ {{}} : Transitioned(All(T, "QUEUED"), T, status)
    /\ UNCHANGED <<session, evidence, refused, bound, lane>>

\* reconcile_persisted_refusals
ReconcileRefusals(L) ==
    LET T == {t \in Swept(L, {"QUEUED", "READY", "DISPATCHING"}) : refused[t]} IN
    /\ T # {}
    /\ Transitioned(All(T, "BLOCKED"), T, status)
    /\ UNCHANGED <<session, evidence, refused, bound, lane>>

\* reevaluate_ai_owned_blocked: those no human owns, out of their backoff.
ReevaluateBlocked(L) ==
    /\ \E T \in SUBSET {t \in Swept(L, {"BLOCKED"}) : ~refused[t] /\ attempts[t] < AutoAttempts} \ {{}} :
         Transitioned(All(T, "QUEUED"), T, status)
    /\ UNCHANGED <<session, evidence, refused, bound, lane>>

\* reconcile_stale_lane_pause: a coordinator pause that guards no task.
Guardless(l) == lane[l] = "coordinator" /\ In(l) \cap With({"PAUSED"}) = {}

ReconcileLanePause(L) ==
    /\ \E l \in L : Guardless(l)
    /\ lane' = [l \in Lanes |-> IF l \in L /\ Guardless(l) THEN "open" ELSE lane[l]]
    /\ UNCHANGED taskVars

\* resume_resolved_preflight: the only PAUSED task of a lane the coordinator
\* paused, never started.
ResumePreflight(t) ==
    LET l == session[t] IN
    /\ status[t] = "PAUSED" /\ lane[l] = "coordinator"
    /\ In(l) \cap With({"PAUSED"}) = {t}
    /\ ~evidence[t] /\ attempts[t] = 0
    /\ Transitioned(One(t, "QUEUED"), {t}, status)
    /\ lane' = [lane EXCEPT ![l] = "open"]
    /\ UNCHANGED <<session, evidence, refused, bound>>

-------------------------------------------------------------------------------
\* move_task_to_session: the status, the claim and paused_from_status travel.
MoveTask(t, l) ==
    /\ status[t] \in Movable /\ session[t] # l
    /\ session' = [session EXCEPT ![t] = l]
    /\ lane' = Ensured(l)
    /\ UNCHANGED <<status, claimed, pausedFrom, evidence, attempts, refused, bound>>

\* bind_task_to_session: nobody else's live task is bound to l.
BindTaskShared(t, l) ==
    /\ status[t] \in Movable /\ bound[t] = NoLane
    /\ status' = One(t, IF status[t] = "WAITING_SESSION" THEN "QUEUED" ELSE status[t])
    /\ session' = [session EXCEPT ![t] = l]
    /\ bound' = [bound EXCEPT ![t] = l]
    /\ lane' = IF session[t] = l THEN lane ELSE Ensured(l)
    /\ UNCHANGED <<claimed, pausedFrom, evidence, attempts, refused>>

BindTask(t, l) ==
    /\ status[t] \in Movable /\ bound[t] = NoLane
    /\ \A u \in Tasks \ {t} : bound[u] = l => status[u] \in Terminal
    /\ status' = One(t, IF status[t] = "WAITING_SESSION" THEN "QUEUED" ELSE status[t])
    /\ session' = [session EXCEPT ![t] = l]
    /\ bound' = [bound EXCEPT ![t] = l]
    /\ lane' = IF session[t] = l THEN lane ELSE Ensured(l)
    /\ UNCHANGED <<claimed, pausedFrom, evidence, attempts, refused>>

\* release_execution_binding
ReleaseBinding(t) ==
    /\ bound[t] # NoLane
    /\ bound' = [bound EXCEPT ![t] = NoLane]
    /\ UNCHANGED <<status, session, claimed, pausedFrom, evidence, attempts, refused, lane>>

\* reassign_task: back to QUEUED in another lane, without a claim.
Reassign(t, l) ==
    /\ status[t] \in Migratable
    /\ status' = One(t, "QUEUED")
    /\ claimed' = [claimed EXCEPT ![t] = FALSE]
    /\ session' = [session EXCEPT ![t] = l]
    /\ lane' = Ensured(l)
    /\ UNCHANGED <<pausedFrom, evidence, attempts, refused, bound>>

\* rename_session: the lane's row and its tasks get the new name.
RenameSession(old, new) ==
    /\ lane[new] = "absent" /\ old # new
    /\ lane' = [lane EXCEPT ![new] = lane[old], ![old] = "absent"]
    /\ session' = [t \in Tasks |-> IF session[t] = old THEN new ELSE session[t]]
    /\ UNCHANGED <<status, claimed, pausedFrom, evidence, attempts, refused, bound>>

-------------------------------------------------------------------------------
\* What the engine writes through transition_task.
EngineStep(t) ==
    \/ \E to \in {"DISPATCHING", "DISPATCH_UNCERTAIN", "WAITING_SESSION", "VERIFYING",
                  "RUNNING", "FAILED"} : Transition(t, to, TRUE)
    \/ Transition(t, "BLOCKED", FALSE)
    \/ Transition(t, "QUEUED", TRUE)

TaskStep(t) ==
    \/ ClaimNextTask(t)
    \/ \E to \in {"READY", "BLOCKED", "QUEUED"} : Decide(t, to)
    \/ DecideNeedsHuman(t)
    \/ MarkRunning(t) \/ \E bad \in BOOLEAN : RecordVerdict(t, bad)
    \/ Complete(t) \/ Invalidate(t)
    \/ \E to \in {"WAITING_SESSION", "BLOCKED", "CANCELLED"} : RecoverStale(t, to)
    \/ Retry(t) \/ Skip(t) \/ Cancel(t)
    \/ ReleaseClaim(t)
    \/ ResumePreflight(t) \/ ReleaseBinding(t)
    \/ EngineStep(t)

PlacementStep(t, l) ==
    \/ \E replace \in BOOLEAN : SetTasks(l, t, replace)
    \/ HandoffTask(t, l) \/ MoveTask(t, l) \/ BindTask(t, l) \/ Reassign(t, l)

LaneStep(l) ==
    \/ PauseLane(l, "user")
    \/ ResumeLane(l)
    \/ \E S \in {{"QUEUED"}, {"QUEUED", "BLOCKED", "FAILED"}} : ClearTasks(l, S)
    \/ \E new \in Lanes : RenameSession(l, new)

Sweep(L) ==
    \/ ReconcileStaleClaims(L) \/ ReconcileWaiting(L) \/ ReconcileRefusals(L)
    \/ ReevaluateBlocked(L) \/ ReconcileLanePause(L)

Next ==
    \/ \E t \in Tasks : TaskStep(t)
    \/ \E t \in Tasks, l \in Lanes : PlacementStep(t, l)
    \/ \E l \in Lanes : LaneStep(l)
    \/ \E L \in {Lanes} \cup {{l} : l \in Lanes} : Sweep(L)

Spec == Init /\ [][Next]_vars

-------------------------------------------------------------------------------
\* A paused lane can always be resumed: resume_lane moves all its PAUSED tasks
\* in one transaction, so one task that cannot go back to its
\* paused_from_status (no such edge, or RUNNING without execution evidence)
\* would keep the whole lane closed.
ResumeNeverRefused == \A t \in With({"PAUSED"}) : Allowed(t, pausedFrom[t])

\* A session executes for one live task: bind_task_to_session checks it when it
\* binds, under BEGIN IMMEDIATE, and it stays so because no serial call leaves a
\* terminal status and nothing else sets execution_session.
OneTaskPerExecutionSession ==
    \A t, u \in Tasks :
        t # u /\ bound[t] = bound[u] /\ bound[t] # NoLane
        => status[t] \in Terminal \/ status[u] \in Terminal

===============================================================================
