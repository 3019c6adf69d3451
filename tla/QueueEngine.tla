------------------------------ MODULE QueueEngine ------------------------------
(***************************************************************************)
(* queue_engine.py: tick(session) drives one lane one step forward.  The   *)
(* poll loop, the event drain, the task follower, the router and the tools *)
(* all call it, from several threads and without a common lock, so Engines *)
(* are ticks in progress at the same time.                                 *)
(*                                                                         *)
(* A tick reads the store, talks to the terminal (seconds to minutes) and  *)
(* writes the store again: it is split at every external call.  The store  *)
(* is QueueStore's; the operators of the lane act between any two steps.   *)
(* A read and the get_task that follows it at once are one step.           *)
(***************************************************************************)
EXTENDS QueueStore

CONSTANTS
    Engines,
    NoJob,
    MaxRetries,     \* bound on retry_task calls per task
    MaxReclaims     \* bound on the reclaims of a task's unanswered keys

VARIABLES
    key,            \* dispatch_idempotency_key: the attempt it names, 0 for NULL
    pc,             \* what each tick is waiting for
    job,            \* the task row and the lane a tick works on, as it read them
    grants,         \* claim_idempotency_key calls that returned True
    answered,       \* keys with a stored result
    typed,          \* the prompts the panes have received
    done,           \* those whose agent has printed the completion marker
    retries         \* retry_task calls that were applied, per task
engineVars == <<key, pc, job, grants, answered, typed, done, retries>>
allVars == <<vars, engineVars>>

\* A task row and its lane, with the idempotency key that _dispatch would use
\* and, once the send has claimed it, which claim of the key that was.
Row == [task : Tasks, lane : Lanes, status : Status, attempt : 0..MaxAttempts,
        key : 1..(MaxAttempts + 1), claim : 0..MaxReclaims]

ASSUME EngineAssumption == MaxRetries \in Nat /\ MaxReclaims \in Nat /\ NoJob \notin Row

\* claim 0 is the INSERT of the key's row, the others are reclaims.
Grant == [task : Tasks, key : 1..MaxAttempts, claim : 0..MaxReclaims]
Prompt == [task : Tasks, lane : Lanes, key : 1..MaxAttempts, attempt : 1..MaxAttempts,
           claim : 0..MaxReclaims]

Phases == {"recover", "review", "dispatch", "send", "typing", "storing", "sent", "refused", "settle",
           "check", "stale", "uncertain", "proven", "verified", "waiting"}

EngineTypeOK ==
    /\ TypeOK
    /\ key \in [Tasks -> 0..MaxAttempts]
    /\ pc \in [Engines -> Phases \cup {"idle"}]
    /\ job \in [Engines -> Row \cup {NoJob}]
    /\ \A e \in Engines : job[e] = NoJob <=> pc[e] = "idle"
    /\ grants \subseteq Grant
    /\ answered \subseteq [task : Tasks, key : 1..MaxAttempts]
    /\ typed \subseteq Prompt
    /\ done \subseteq typed
    /\ retries \in [Tasks -> 0..MaxRetries]

EngineInit ==
    /\ Init
    /\ key = [t \in Tasks |-> 0]
    /\ pc = [e \in Engines |-> "idle"]
    /\ job = [e \in Engines |-> NoJob]
    /\ grants = {} /\ answered = {} /\ typed = {} /\ done = {}
    /\ retries = [t \in Tasks |-> 0]

-------------------------------------------------------------------------------
\* What a tick (or the stale-active sweep) goes on to do with a task it found
\* in this status.
NextPhase(s) ==
    CASE s = "PRECHECK" -> "review"
      [] s = "READY" -> "dispatch"
      [] s \in {"RUNNING", "VERIFYING"} -> "check"
      [] s = "DISPATCH_UNCERTAIN" -> "uncertain"
      [] s = "WAITING_SESSION" -> "waiting"
      [] OTHER -> "none"

\* The key that _dispatch would use: the sticky one, else a new one.
NextKey(t) == IF key[t] = 0 THEN attempts[t] + 1 ELSE key[t]

Read(t) ==
    [task |-> t, lane |-> session[t], status |-> status[t], attempt |-> attempts[t],
     key |-> NextKey(t), claim |-> 0]

Start(e, t, phase) ==
    /\ pc[e] = "idle"
    /\ pc' = [pc EXCEPT ![e] = phase]
    /\ job' = [job EXCEPT ![e] = Read(t)]
    /\ UNCHANGED <<vars, key, grants, answered, typed, done, retries>>

FinishKeepsJob(e) ==
    /\ pc' = [pc EXCEPT ![e] = "idle"]
    /\ UNCHANGED job

Finish(e) ==
    /\ pc' = [pc EXCEPT ![e] = "idle"]
    /\ job' = [job EXCEPT ![e] = NoJob]

Go(e, phase) == pc' = [pc EXCEPT ![e] = phase] /\ UNCHANGED job

\* tick, in an open lane, with the lane's active task.
Tick(e, t) ==
    /\ NextPhase(status[t]) # "none"
    /\ lane[session[t]] = "open"
    /\ Start(e, t, NextPhase(status[t]))

\* tick's first loop, whether the lane is paused or not: a marker may show
\* that a task of an earlier dispatch is done.
TickRecover(e, t) ==
    /\ status[t] \in {"QUEUED", "DISPATCHING"} /\ attempts[t] > 0
    /\ Start(e, t, "recover")

\* reconcile_stale_active_tasks
TickStale(e, t) ==
    /\ status[t] \in {"RUNNING", "VERIFYING", "DISPATCH_UNCERTAIN"}
    /\ Start(e, t, "stale")

\* tick, with nothing active.
TickClaim(e, t) ==
    /\ pc[e] = "idle"
    /\ ClaimNextTask(t)
    /\ UNCHANGED engineVars

\* The tick ends without a write: nothing to do yet, an answer that settles
\* nothing, an exception (a transition that is no longer valid), a crash.
TickEnds(e) ==
    /\ pc[e] # "idle"
    /\ Finish(e)
    /\ UNCHANGED <<vars, key, grants, answered, typed, done, retries>>

-------------------------------------------------------------------------------
\* verify_completion_marker on what the worker printed after the prompt.
VerifiedEcho(e) ==
    \E p \in typed : p.task = job[e].task /\ p.attempt = job[e].attempt /\ p.lane = job[e].lane

Verified(e) ==
    \E p \in done : p.task = job[e].task /\ p.attempt = job[e].attempt /\ p.lane = job[e].lane

Recover(e) ==
    /\ pc[e] = "recover" /\ Verified(e)
    /\ Complete(job[e].task)
    /\ Finish(e) /\ UNCHANGED <<key, grants, answered, typed, done, retries>>

\* _review, after the status calls and the coordinator's answer.
Review(e) ==
    /\ pc[e] = "review"
    /\ LET t == job[e].task IN
       \/ Transition(t, "WAITING_SESSION", TRUE)
       \/ \E to \in {"READY", "BLOCKED", "QUEUED"} : Decide(t, to)
       \/ DecideNeedsHuman(t)
    /\ Finish(e) /\ UNCHANGED <<key, grants, answered, typed, done, retries>>

\* _dispatch before the send: it gives up, or DISPATCHING and the key are
\* written together.
DispatchRefused(e) ==
    /\ pc[e] = "dispatch"
    /\ \/ Transition(job[e].task, "WAITING_SESSION", TRUE)
       \/ Transition(job[e].task, "BLOCKED", FALSE)
    /\ Finish(e) /\ UNCHANGED <<key, grants, answered, typed, done, retries>>

DispatchFreshKey(e) ==
    /\ pc[e] = "dispatch"
    /\ Transition(job[e].task, "DISPATCHING", TRUE)
    /\ key' = [key EXCEPT ![job[e].task] = 0]
    /\ Go(e, "send") /\ UNCHANGED <<grants, answered, typed, done, retries>>

Dispatch(e) ==
    /\ pc[e] = "dispatch"
    /\ Transition(job[e].task, "DISPATCHING", TRUE)
    /\ key' = [key EXCEPT ![job[e].task] = job[e].key]
    /\ Go(e, "send") /\ UNCHANGED <<grants, answered, typed, done, retries>>

\* claim_idempotency_key: the first call with the key wins, and so does one that
\* finds the key without a result for stale_after_seconds, be the tick that
\* claimed it dead or only slow.
KeyOf(e) == [task |-> job[e].task, key |-> job[e].key]
GrantOf(e, n) == [task |-> job[e].task, key |-> job[e].key, claim |-> n]
Claimed(e) == \E g \in grants : g.task = job[e].task /\ g.key = job[e].key

CanClaim(e, n) ==
    \/ n = 0 /\ ~Claimed(e)
    \/ /\ n > 0 /\ \A g \in grants : g.task = job[e].task => g.claim # n
       /\ Claimed(e) /\ KeyOf(e) \notin answered

SendClaims(e) ==
    /\ pc[e] = "send"
    /\ \E n \in 0..MaxReclaims :
         /\ CanClaim(e, n)
         /\ grants' = grants \cup {GrantOf(e, n)}
         /\ job' = [job EXCEPT ![e] = [@ EXCEPT !.claim = n]]
    /\ pc' = [pc EXCEPT ![e] = "typing"]
    /\ UNCHANGED <<vars, key, answered, typed, done, retries>>

\* The key is another call's (its result, or DUPLICATE_IN_PROGRESS, is returned),
\* or the call was refused before it claimed anything.
SendRefused(e) ==
    /\ pc[e] = "send"
    /\ Go(e, "sent") /\ UNCHANGED <<vars, key, grants, answered, typed, done, retries>>

\* The prompt reaches the pane.  Its text carries the attempt of the row read
\* before the status calls, plus one.
SendTypes(e) ==
    /\ pc[e] = "typing"
    /\ typed' = typed \cup {[task |-> job[e].task, lane |-> job[e].lane, key |-> job[e].key,
                             attempt |-> job[e].attempt + 1, claim |-> job[e].claim]}
    /\ Go(e, "storing") /\ UNCHANGED <<vars, key, grants, answered, done, retries>>

\* PANE_BUSY, or a pane that must not be typed into.
SendTypesNothing(e) ==
    /\ pc[e] = "typing"
    /\ Go(e, "storing") /\ UNCHANGED <<vars, key, grants, answered, typed, done, retries>>

\* store_idempotent_result, after the send returned: a tick that dies before
\* leaves its key typed and unanswered.
SendStores(e) ==
    /\ pc[e] = "storing"
    /\ answered' = answered \cup {KeyOf(e)}
    /\ Go(e, "sent") /\ UNCHANGED <<vars, key, grants, typed, done, retries>>

\* What the pane shows of the send: some prompt with the key is there.
Delivered(e) == \E p \in typed : p.task = job[e].task /\ p.key = job[e].key

\* The verdict is recorded in a transaction of its own, before the status.
Sent(e) ==
    /\ pc[e] = "sent"
    /\ \E bad \in BOOLEAN : RecordVerdict(job[e].task, bad) /\ Go(e, IF bad THEN "refused" ELSE "settle")
    /\ UNCHANGED <<key, grants, answered, typed, done, retries>>

Settle(e) ==
    /\ LET t == job[e].task IN
       \/ pc[e] \in {"refused", "settle"} /\ Transition(t, "BLOCKED", FALSE)
       \/ pc[e] = "settle" /\ Transition(t, "DISPATCH_UNCERTAIN", TRUE)
       \/ pc[e] = "settle" /\ Delivered(e) /\ MarkRunning(t)
    /\ Finish(e) /\ UNCHANGED <<key, grants, answered, typed, done, retries>>

-------------------------------------------------------------------------------
\* recover_stale_active_task writes only over the row that was read.
Current(e) ==
    /\ status[job[e].task] = job[e].status
    /\ attempts[job[e].task] = job[e].attempt

\* _check_completion
Check(e) ==
    /\ pc[e] = "check"
    /\ LET t == job[e].task IN
       \/ Transition(t, "FAILED", TRUE)
       \/ job[e].status = "RUNNING" /\ Transition(t, "VERIFYING", TRUE)
       \/ job[e].status = "VERIFYING" /\ Verified(e) /\ Complete(t)
       \/ job[e].status = "VERIFYING" /\ Verified(e) /\ Current(e) /\ RecoverStale(t, "BLOCKED")
       \/ job[e].status = "VERIFYING" /\ ~Verified(e) /\ Transition(t, "RUNNING", TRUE)
    /\ Finish(e) /\ UNCHANGED <<key, grants, answered, typed, done, retries>>

\* The end of reconcile_stale_active_tasks for one task: unreachable, or
\* inactive for the whole timeout without a marker.
StaleTargets(s) ==
    CASE s = "RUNNING" -> {"WAITING_SESSION", "BLOCKED"}
      [] s = "VERIFYING" -> {"WAITING_SESSION", "BLOCKED", "CANCELLED"}
      [] OTHER -> {"CANCELLED"}

Stale(e) ==
    /\ pc[e] = "stale" /\ Current(e)
    /\ \E to \in StaleTargets(job[e].status) :
         /\ to = "WAITING_SESSION" \/ job[e].status = "DISPATCH_UNCERTAIN" \/ ~Verified(e)
         /\ RecoverStale(job[e].task, to)
    /\ Finish(e) /\ UNCHANGED <<key, grants, answered, typed, done, retries>>

\* _recheck_uncertain: a marker takes the task through RUNNING and VERIFYING
\* to COMPLETED, in three transactions; activity in the pane makes it RUNNING.
UncertainProven(e) ==
    /\ pc[e] = "uncertain" /\ Verified(e)
    /\ MarkRunning(job[e].task)
    /\ Go(e, "proven") /\ UNCHANGED <<key, grants, answered, typed, done, retries>>

UncertainVerifying(e) ==
    /\ pc[e] = "proven"
    /\ Transition(job[e].task, "VERIFYING", TRUE)
    /\ Go(e, "verified") /\ UNCHANGED <<key, grants, answered, typed, done, retries>>

UncertainCompleted(e) ==
    /\ pc[e] = "verified"
    /\ \/ Complete(job[e].task)
       \/ RecoverStale(job[e].task, "BLOCKED")
    /\ Finish(e) /\ UNCHANGED <<key, grants, answered, typed, done, retries>>

UncertainRunning(e) ==
    /\ pc[e] = "uncertain" /\ ~Verified(e)
    /\ MarkRunning(job[e].task)
    /\ Finish(e) /\ UNCHANGED <<key, grants, answered, typed, done, retries>>

\* _recheck_waiting_session
WaitingOver(e) ==
    /\ pc[e] = "waiting"
    /\ Transition(job[e].task, "QUEUED", TRUE)
    /\ Finish(e) /\ UNCHANGED <<key, grants, answered, typed, done, retries>>

-------------------------------------------------------------------------------
\* The agent in the pane finishes what a prompt asked for.
AgentDone(p) ==
    /\ p \in typed \ done
    /\ done' = done \cup {p}
    /\ UNCHANGED <<vars, key, pc, job, grants, answered, typed, retries>>

\* retry_task clears the key: the next dispatch is a new attempt.
RetryTask(t) ==
    /\ retries[t] < MaxRetries
    /\ Retry(t)
    /\ key' = [key EXCEPT ![t] = 0]
    /\ retries' = [retries EXCEPT ![t] = @ + 1]
    /\ UNCHANGED <<pc, job, grants, answered, typed, done>>

Operator ==
    \/ \E t \in Tasks : RetryTask(t)
    \/ /\ \/ \E l \in Lanes : PauseLane(l, "user") \/ ResumeLane(l)
          \/ \E t \in Tasks : Skip(t) \/ Cancel(t)
          \/ \E l \in Lanes, t \in Tasks : SetTasks(l, t, FALSE) \/ MoveTask(t, l)
       /\ UNCHANGED engineVars

\* queue_loop and every tick sweep the lane.
SweepStep(l) == Sweep({l}) /\ UNCHANGED engineVars

TickStep(e) ==
    \/ \E t \in Tasks : Tick(e, t) \/ TickClaim(e, t) \/ TickRecover(e, t) \/ TickStale(e, t)
    \/ TickEnds(e)
    \/ Recover(e) \/ Review(e)
    \/ DispatchRefused(e) \/ Dispatch(e) \/ SendClaims(e) \/ SendRefused(e)
    \/ SendTypes(e) \/ SendTypesNothing(e) \/ SendStores(e)
    \/ Sent(e) \/ Settle(e)
    \/ Check(e) \/ Stale(e)
    \/ UncertainProven(e) \/ UncertainVerifying(e) \/ UncertainCompleted(e) \/ UncertainRunning(e)
    \/ WaitingOver(e)

EngineNext ==
    \/ \E e \in Engines : TickStep(e)
    \/ \E l \in Lanes : SweepStep(l)
    \/ \E p \in typed : AgentDone(p)
    \/ Operator

EngineSpec == EngineInit /\ [][EngineNext]_allVars

-------------------------------------------------------------------------------
\* The reclaims of a task's keys.
Reclaims(t) == {g \in grants : g.task = t /\ g.claim > 0}

\* A task's prompt is typed once, plus once for every explicit retry and once for
\* every time its key was reclaimed without an answer, whatever ticks overlap,
\* crash or are paused in between: _dispatch persists the sticky key with
\* DISPATCHING, so that a second dispatch cannot type under a new one.
PromptsAccountedFor ==
    \A t \in Tasks : Cardinality({p \in typed : p.task = t}) <= 1 + retries[t] + Cardinality(Reclaims(t))

\* Nothing is completed by the engine before its agent has printed the marker
\* of a prompt that was really typed ("a real, verifiable completion signal",
\* build_dispatch_text).
CompletedOnlyWhenDone ==
    \A t \in Tasks : status[t] = "COMPLETED" => \E p \in done : p.task = t
===============================================================================
