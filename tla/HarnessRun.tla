------------------------------ MODULE HarnessRun ------------------------------
(***************************************************************************)
(* harness_engine.py, harness_runner.py and harness_store.py for one run:  *)
(* an execution contract is written and frozen, a builder works on it, the *)
(* result is evaluated, and a failed iteration is revised until one passes *)
(* or the run is handed to a human.                                        *)
(*                                                                         *)
(* Nothing drives the engine by itself: callers of harness_start and       *)
(* harness_resume step it, and the operator cancels or approves beside     *)
(* them.  A call is split where it waits for an agent, a check or a pane,  *)
(* and between its transactions.  advance reads the row on a plain         *)
(* connection before it writes it, so that it is two steps.  Nothing keeps *)
(* two callers from stepping one run at the same time: the lease of the    *)
(* run is left out, since nobody acquires it, and no live lease refuses.   *)
(*                                                                         *)
(* An agent's work is a dispatch row per role, iteration and attempt; a    *)
(* runner for it is configured.                                            *)
(* Abstracted: sessions, prompts, budgets, checkpoints, the decisions that *)
(* are opened beside a move, and the projection on the queue's task.       *)
(***************************************************************************)
EXTENDS Naturals, FiniteSets, FiniteSetsExt

CONSTANTS
    Modes,                  \* the policy modes that runs may have
    MaxCalls,               \* bound on the calls that step the run at the same time
    MaxIterations,          \* max_iterations of the run
    InfraThreshold,         \* INFRA_FAILURE_ESCALATION_THRESHOLD
    MaxAttempts,            \* bound on the attempts of a dispatch
    MaxFaults               \* bound on calls that die, and on calls that begin beside another

PolicyModes == {"template", "planned", "critical"}

ASSUME HarnessAssumption ==
    /\ Modes \subseteq PolicyModes
    /\ {MaxCalls, MaxIterations, InfraThreshold} \subseteq Nat \ {0}
    /\ {MaxAttempts, MaxFaults} \subseteq Nat

Steppers == 1..MaxCalls     \* a call is told apart by its place alone
Operator == 0               \* who cancels and approves, and steps nothing
Callers == Steppers \cup {Operator}
Iterations == 1..MaxIterations
Attempts == 1..MaxAttempts

Stages == {"INIT", "PLANNING", "PLAN_READY", "BUILDING", "EVALUATING", "REVISING", "MERGE_READY",
           "MERGED", "BLOCKED", "NEEDS_REDEFINE", "FAILED_INFRA", "CANCELLED"}

\* DONE, RECOVERY_REQUIRED and CONTEXT_ROLLOVER are in the table, but no code
\* moves a run there.
ValidTransitions(from) ==
    CASE from = "INIT" -> {"PLANNING", "PLAN_READY", "BLOCKED", "CANCELLED", "FAILED_INFRA"}
      [] from = "PLANNING" -> {"PLAN_READY", "NEEDS_REDEFINE", "BLOCKED", "CANCELLED", "FAILED_INFRA"}
      [] from \in {"PLAN_READY", "REVISING"} ->
         {"BUILDING", "NEEDS_REDEFINE", "BLOCKED", "CANCELLED", "FAILED_INFRA"}
      [] from = "BUILDING" -> {"EVALUATING", "FAILED_INFRA", "BLOCKED", "NEEDS_REDEFINE", "CANCELLED"}
      [] from = "EVALUATING" ->
         {"MERGE_READY", "REVISING", "NEEDS_REDEFINE", "BLOCKED", "FAILED_INFRA", "CANCELLED"}
      [] from = "MERGE_READY" -> {"MERGED", "BLOCKED", "CANCELLED", "REVISING"}
      [] from = "MERGED" -> {"BLOCKED"}
      [] from \in {"FAILED_INFRA", "BLOCKED"} ->
         {"PLANNING", "PLAN_READY", "BUILDING", "EVALUATING", "REVISING", "MERGE_READY", "CANCELLED"}
         \cup (IF from = "BLOCKED" THEN {"NEEDS_REDEFINE"} ELSE {"BLOCKED"})
      [] from = "NEEDS_REDEFINE" -> {"PLANNING", "BLOCKED", "CANCELLED"}
      [] OTHER -> {}

Resumable == {"PLANNING", "PLAN_READY", "BUILDING", "EVALUATING", "REVISING", "MERGE_READY"}

\* A job is what an agent is asked to do; the planner has no iteration.
Jobs == {<<"planner", 0>>} \cup ({"builder", "evaluator"} \X Iterations)
NoJob == <<"none", 0>>
Dispatches == Jobs \X Attempts
Verdicts == {"pass", "fail", "blocked", "needs_redefine"}

\* What the artifact of a job may say.
Answers(job) ==
    CASE job[1] = "planner" -> {"contract", "insufficient"}
      [] job[1] = "builder" -> {"built"}
      [] job[1] = "evaluator" -> Verdicts \cup {"malformed"}
AllAnswers == UNION {Answers(job) : job \in Jobs}

\* accepted is dispatching, and stalled is failed: the engine treats them alike.
Open == {"awaiting_session", "dispatching"}
DispatchStates == Open \cup {"completed", "failed"}

VARIABLES
    mode,       \* what the policy asks for: "template" needs no planner, "planned" needs one
                \* (a STANDARD task that lacks something), "critical" an evaluator besides
    stage, resumeStage,
    iteration,  \* current_iteration
    infraCount, \* infra_failure_count
    contract,   \* "none", "saved" or "frozen"
    verdict,    \* the latest evaluation of each iteration
    dispatch    \* the state of each dispatch row, "none" when there is no row
runVars == <<mode, stage, resumeStage, iteration, infraCount, contract, verdict, dispatch>>

VARIABLES
    delivered,  \* the builder dispatches whose prompt a pane has; nobody takes it back
    artifact    \* what their agents wrote, when it was read
agentVars == <<delivered, artifact>>

VARIABLES       \* histories
    givenUp,    \* the dispatches that were failed at some time
    passed,     \* the iterations of which an evaluation passed: its row is kept
    overlapped  \* two steps of the run were in progress at the same time
history == <<givenUp, passed, overlapped>>

VARIABLES
    pc,         \* what each call does next
    call,       \* what it read, and what it is going to do with it
    faults
vars == <<runVars, agentVars, history, pc, call, faults>>

NoCall == [job |-> NoJob, attempt |-> 0, iteration |-> 0, to |-> "INIT", answer |-> "none"]
CallRecords == [job : Jobs \cup {NoJob}, attempt : 0..MaxAttempts, iteration : 0..MaxIterations,
                to : Stages, answer : AllAnswers \cup {"none"}]
Phases == {"idle", "save", "freeze", "advance", "write", "run", "open", "opened", "ready", "poll",
           "send", "sent", "enter", "check", "settle", "infra"}

HarnessTypeOK ==
    /\ mode \in Modes
    /\ stage \in Stages /\ resumeStage \in Resumable \cup {"INIT"}
    /\ iteration \in 0..MaxIterations
    /\ infraCount \in Nat
    /\ contract \in {"none", "saved", "frozen"}
    /\ verdict \in [Iterations -> Verdicts \cup {"none"}]
    /\ dispatch \in [Dispatches -> DispatchStates \cup {"none"}]
    /\ delivered \subseteq {d \in Dispatches : d[1][1] = "builder" /\ dispatch[d] # "none"}
    /\ artifact \in [Dispatches -> AllAnswers \cup {"none"}]
    /\ givenUp \subseteq Dispatches /\ passed \subseteq Iterations /\ overlapped \in BOOLEAN
    /\ pc \in [Callers -> Phases]
    /\ call \in [Callers -> CallRecords]
    /\ faults \in 0..MaxFaults

HarnessInit ==
    /\ mode \in Modes
    /\ stage = "INIT" /\ resumeStage = "INIT"
    /\ iteration = 0 /\ infraCount = 0
    /\ contract = "none"
    /\ verdict = [i \in Iterations |-> "none"]
    /\ dispatch = [d \in Dispatches |-> "none"]
    /\ delivered = {} /\ artifact = [d \in Dispatches |-> "none"]
    /\ givenUp = {} /\ passed = {} /\ overlapped = FALSE
    /\ pc = [c \in Callers |-> "idle"]
    /\ call = [c \in Callers |-> NoCall]
    /\ faults = 0

-------------------------------------------------------------------------------
Go(c, phase) == pc' = [pc EXCEPT ![c] = phase] /\ UNCHANGED call
GoWith(c, phase, k) == pc' = [pc EXCEPT ![c] = phase] /\ call' = [call EXCEPT ![c] = k]
Return(c) == GoWith(c, "idle", NoCall)
Fails(c) == GoWith(c, "infra", NoCall)
AdvanceTo(c, to) == GoWith(c, "advance", [NoCall EXCEPT !.to = to])

\* advance: the transition is looked up for the stage that is read here ...
AdvanceReads(c) ==
    /\ pc[c] = "advance"
    /\ IF call[c].to \in ValidTransitions(stage) THEN Go(c, "write") ELSE Return(c)
    /\ UNCHANGED <<runVars, agentVars, history, faults>>

\* ... and written whatever the stage is by then.  A planner's call goes on.
AdvanceWrites(c) ==
    /\ pc[c] = "write"
    /\ stage' = call[c].to
    /\ resumeStage' = IF call[c].to \in Resumable THEN call[c].to ELSE resumeStage
    /\ IF call[c].to = "PLANNING" /\ call[c].job # NoJob THEN Go(c, "run") ELSE Return(c)
    /\ UNCHANGED <<mode, iteration, infraCount, contract, verdict, dispatch, agentVars, history, faults>>

-------------------------------------------------------------------------------
\* resume: back to the stage the run was in.
ResumeTargetAhead == "EVALUATING"

ResumeTarget == IF resumeStage \in Resumable THEN resumeStage ELSE "PLAN_READY"

\* A call begins, in the first free place.  Nothing prevents it from beginning
\* beside another one: it is only counted.
OthersAtWork(c, others) == \E o \in others \ {c} : pc[o] # "idle"

Begins(c) ==
    /\ pc[c] = "idle" /\ \A s \in 1..(c - 1) : pc[s] # "idle"
    /\ IF OthersAtWork(c, Callers) THEN faults < MaxFaults /\ faults' = faults + 1
                                   ELSE UNCHANGED faults
    /\ overlapped' = (overlapped \/ (c \in Steppers /\ OthersAtWork(c, Steppers)))

\* step: one stage of the run as it is read now.
StepBegins(c) ==
    LET agent(role, i) == [NoCall EXCEPT !.job = <<role, i>>]
        current == IF iteration = 0 THEN 1 ELSE iteration IN
    /\ c \in Steppers /\ Begins(c)
    /\ \/ /\ stage \in {"INIT", "PLANNING"} /\ contract = "frozen"
          /\ AdvanceTo(c, "PLAN_READY")
       \/ /\ stage \in {"INIT", "PLANNING"} /\ contract # "frozen" /\ mode = "template"
          /\ GoWith(c, "save", NoCall)
       \/ /\ stage = "INIT" /\ contract # "frozen" /\ mode # "template"
          /\ GoWith(c, "advance", [agent("planner", 0) EXCEPT !.to = "PLANNING"])
       \/ /\ stage = "PLANNING" /\ contract # "frozen" /\ mode # "template"
          /\ GoWith(c, "run", agent("planner", 0))
       \/ stage \in {"PLAN_READY", "REVISING"} /\ contract # "none"
          /\ GoWith(c, "enter", [NoCall EXCEPT !.iteration = iteration])
       \/ stage = "BUILDING" /\ contract # "none" /\ GoWith(c, "run", agent("builder", current))
       \/ stage = "EVALUATING" /\ contract # "none" /\ GoWith(c, "check", agent("evaluator", current))
       \/ stage = "FAILED_INFRA" /\ AdvanceTo(c, ResumeTarget)
    /\ UNCHANGED <<runVars, agentVars, givenUp, passed>>

\* _plan: save_contract refuses a version that exists, frozen or not.
SaveContract(c) ==
    /\ pc[c] = "save"
    /\ IF contract = "none" THEN contract' = "saved" /\ Go(c, "freeze")
       ELSE UNCHANGED contract /\ Return(c)
    /\ UNCHANGED <<mode, stage, resumeStage, iteration, infraCount, verdict, dispatch, agentVars, history, faults>>

FreezeContract(c) ==
    /\ pc[c] = "freeze"
    /\ contract' = "frozen"
    /\ AdvanceTo(c, "PLAN_READY")
    /\ UNCHANGED <<mode, stage, resumeStage, iteration, infraCount, verdict, dispatch, agentVars, history, faults>>

EnterBuildOnceMore(c) ==
    LET next == call[c].iteration + 1 IN
    /\ pc[c] = "enter"
    /\ IF next > MaxIterations + 1
       THEN UNCHANGED iteration /\ AdvanceTo(c, "BLOCKED")
       ELSE iteration' = (IF next > iteration THEN next ELSE iteration) /\ AdvanceTo(c, "BUILDING")
    /\ UNCHANGED <<mode, stage, resumeStage, infraCount, contract, verdict, dispatch, agentVars, history, faults>>

\* _enter_build: start_iteration is exactly once per number, and the last one
\* that was started is the run's.
EnterBuild(c) ==
    LET next == call[c].iteration + 1 IN
    /\ pc[c] = "enter"
    /\ IF next > MaxIterations
       THEN UNCHANGED iteration /\ AdvanceTo(c, "BLOCKED")
       ELSE iteration' = (IF next > iteration THEN next ELSE iteration) /\ AdvanceTo(c, "BUILDING")
    /\ UNCHANGED <<mode, stage, resumeStage, infraCount, contract, verdict, dispatch, agentVars, history, faults>>

-------------------------------------------------------------------------------
\* AgentRunner.run
Latest(job) == Max({0} \cup {a \in Attempts : dispatch[<<job, a>>] # "none"})
LatestState(job) == IF Latest(job) = 0 THEN "none" ELSE dispatch[<<job, Latest(job)>>]
Mine(c) == <<call[c].job, call[c].attempt>>

\* What the engine does with the answer of an agent.
Use(c, answer) ==
    CASE answer = "contract" -> GoWith(c, "save", NoCall)
      [] answer = "insufficient" -> AdvanceTo(c, "NEEDS_REDEFINE")
      [] answer = "built" -> AdvanceTo(c, "EVALUATING")
      [] answer = "malformed" -> Fails(c)
      [] answer \in Verdicts -> GoWith(c, "settle", [call[c] EXCEPT !.answer = answer, !.attempt = 0])

MayOpenAgain(job) == LatestState(job) \in {"none", "failed", "dispatching"}

MayOpen(job) == LatestState(job) \in {"none", "failed"}

\* What is dispatched already is resolved and not sent again.
RunnerLooks(c) ==
    LET job == call[c].job
        mine(a) == [call[c] EXCEPT !.attempt = a] IN
    /\ pc[c] = "run"
    /\ \/ /\ MayOpen(job) /\ Latest(job) < MaxAttempts
          /\ GoWith(c, "open", mine(Latest(job) + 1))
       \/ LatestState(job) = "awaiting_session" /\ GoWith(c, "ready", mine(Latest(job)))
       \/ LatestState(job) = "dispatching" /\ GoWith(c, "poll", mine(Latest(job)))
       \/ LatestState(job) = "completed" /\ Use(c, artifact[<<job, Latest(job)>>])
    /\ UNCHANGED <<runVars, agentVars, history, faults>>

\* An infrastructure failure that leaves the row alone: another node has the run
\* or the session, the artifact cannot be read any more, pick finds no session,
\* or an agent at work waits for a human.
RunnerFails(c) ==
    /\ pc[c] \in {"run", "open", "ready", "poll"} /\ Fails(c)
    /\ UNCHANGED <<runVars, agentVars, history, faults>>

\* open_dispatch: the row is made exactly once; whoever comes second polls it.
OpenDispatch(c) ==
    /\ pc[c] = "open"
    /\ IF dispatch[Mine(c)] # "none"
       THEN UNCHANGED dispatch /\ Go(c, "poll")
       ELSE dispatch' = [dispatch EXCEPT ![Mine(c)] = "dispatching"] /\ Go(c, "opened")
    /\ UNCHANGED <<mode, stage, resumeStage, iteration, infraCount, contract, verdict, agentVars, history, faults>>

\* update_dispatch, whatever the row says by now.  That a dispatch is given up
\* stops no agent that has its prompt.
Resolve(c, s) ==
    /\ dispatch' = [dispatch EXCEPT ![Mine(c)] = s]
    /\ givenUp' = IF s = "failed" THEN givenUp \cup {Mine(c)} ELSE givenUp
    /\ UNCHANGED <<mode, stage, resumeStage, iteration, infraCount, contract, verdict, agentVars,
                   passed, overlapped, faults>>

\* There is no directory for the artifact, or the session was spawned for it and
\* is not listening yet.
NoDirectory(c) == pc[c] = "opened" /\ Resolve(c, "failed") /\ Fails(c)
AwaitSession(c) == pc[c] = "opened" /\ Resolve(c, "awaiting_session") /\ Return(c)

\* _send_when_ready
SessionNotReady(c) == pc[c] = "ready" /\ Return(c) /\ UNCHANGED <<runVars, agentVars, history, faults>>
SessionReady(c) == pc[c] = "ready" /\ Go(c, "send") /\ UNCHANGED <<runVars, agentVars, history, faults>>
SessionDead(c) == pc[c] = "ready" /\ Resolve(c, "failed") /\ Fails(c)
SessionAsksHuman(c) == pc[c] = "ready" /\ Resolve(c, "failed") /\ AdvanceTo(c, "BLOCKED")

\* _send: the pane takes the prompt or not.  A key that it had is not typed again.
\* Whether a planner or an evaluator has its prompt makes no difference.
Send(c) ==
    /\ pc[c] \in {"opened", "send"}
    /\ \/ call[c].job[1] = "builder" /\ delivered' = delivered \cup {Mine(c)}
       \/ UNCHANGED delivered
    /\ Go(c, "sent")
    /\ UNCHANGED <<runVars, artifact, history, faults>>

SendHeldOpen(c) == pc[c] = "sent" /\ Resolve(c, "dispatching") /\ Return(c)
\* The send raised or returned an error, or the pane refused the text.
SendFails(c) == pc[c] = "sent" /\ Resolve(c, "failed") /\ Fails(c)

\* poll
PollPending(c) ==
    /\ pc[c] = "poll" /\ Return(c)
    /\ UNCHANGED <<runVars, agentVars, history, faults>>
\* The session is gone or silent for too long, or says done and wrote nothing.
PollFails(c) == pc[c] = "poll" /\ Resolve(c, "failed") /\ Fails(c)
\* The agent has answered, a builder at some time since it got the prompt.  What
\* it wrote stays what it was.
PollCompleted(c) ==
    /\ pc[c] = "poll" /\ (call[c].job[1] = "builder" => Mine(c) \in delivered)
    /\ \E answer \in Answers(call[c].job) :
         /\ artifact[Mine(c)] \in {"none", answer}
         /\ artifact' = [artifact EXCEPT ![Mine(c)] = answer]
         /\ Use(c, answer)
    /\ dispatch' = [dispatch EXCEPT ![Mine(c)] = "completed"]
    /\ UNCHANGED <<mode, stage, resumeStage, iteration, infraCount, contract, verdict, delivered, history, faults>>

-------------------------------------------------------------------------------
\* _evaluate: a failed check is a verdict, and so are green ones that decide
\* every criterion.
ChecksDecide(c) ==
    /\ pc[c] = "check"
    /\ \E answer \in {"fail"} \cup (IF mode = "critical" THEN {} ELSE {"pass"}) :
         GoWith(c, "settle", [call[c] EXCEPT !.answer = answer])
    /\ UNCHANGED <<runVars, agentVars, history, faults>>

ChecksNeedEvaluator(c) == pc[c] = "check" /\ Go(c, "run") /\ UNCHANGED <<runVars, agentVars, history, faults>>

\* record_evaluation: the latest one counts.
RecordedOnce(i, v) == IF verdict[i] = "none" THEN [verdict EXCEPT ![i] = v] ELSE verdict

Recorded(i, v) == [verdict EXCEPT ![i] = v]

\* _settle.  Whether a second failure repeats the first is open.
Settle(c) ==
    LET i == call[c].job[2]
        v == call[c].answer IN
    /\ pc[c] = "settle"
    /\ verdict' = Recorded(i, v)
    /\ passed' = passed \cup {j \in Iterations : verdict'[j] = "pass"}
    /\ \/ v = "pass" /\ AdvanceTo(c, "MERGE_READY")
       \/ v = "needs_redefine" /\ AdvanceTo(c, "NEEDS_REDEFINE")
       \/ v = "blocked" /\ AdvanceTo(c, "BLOCKED")
       \/ v = "fail" /\ i < MaxIterations /\ AdvanceTo(c, "REVISING")
       \/ /\ v = "fail" /\ (i >= MaxIterations \/ (i > 1 /\ verdict[i - 1] = "fail"))
          /\ AdvanceTo(c, "BLOCKED")
    /\ UNCHANGED <<mode, stage, resumeStage, iteration, infraCount, contract, dispatch, agentVars,
                   givenUp, overlapped, faults>>

InfraFailureUncounted(c) ==
    /\ pc[c] = "infra"
    /\ AdvanceTo(c, IF infraCount + 1 >= InfraThreshold THEN "BLOCKED" ELSE "FAILED_INFRA")
    /\ UNCHANGED <<runVars, agentVars, history, faults>>

\* record_infra_failure
InfraFailure(c) ==
    /\ pc[c] = "infra"
    /\ infraCount' = infraCount + 1
    /\ AdvanceTo(c, IF infraCount' >= InfraThreshold THEN "BLOCKED" ELSE "FAILED_INFRA")
    /\ UNCHANGED <<mode, stage, resumeStage, iteration, contract, verdict, dispatch, agentVars, history, faults>>

-------------------------------------------------------------------------------
\* HarnessService.cancel and review(approve_merge).  Their own look at the stage
\* and the one of advance are taken together: a change in between only refuses.
Operates(to) ==
    /\ Begins(Operator) /\ to \in ValidTransitions(stage)
    /\ GoWith(Operator, "write", [NoCall EXCEPT !.to = to])
    /\ UNCHANGED <<runVars, agentVars, givenUp, passed>>

Cancel == Operates("CANCELLED")
ApproveMerge == Operates("MERGED")

\* The process dies, or something raises what nobody catches.
CallDies(c) ==
    /\ c \in Steppers /\ pc[c] # "idle" /\ faults < MaxFaults
    /\ faults' = faults + 1
    /\ Return(c)
    /\ UNCHANGED <<runVars, agentVars, history>>

CallGoesOn(c) ==
    \/ AdvanceReads(c) \/ AdvanceWrites(c)
    \/ SaveContract(c) \/ FreezeContract(c) \/ EnterBuild(c)
    \/ RunnerLooks(c) \/ RunnerFails(c) \/ OpenDispatch(c)
    \/ NoDirectory(c) \/ AwaitSession(c) \/ SessionNotReady(c) \/ SessionReady(c) \/ SessionDead(c) \/ SessionAsksHuman(c)
    \/ Send(c) \/ SendHeldOpen(c) \/ SendFails(c)
    \/ PollPending(c) \/ PollFails(c) \/ PollCompleted(c)
    \/ ChecksDecide(c) \/ ChecksNeedEvaluator(c) \/ Settle(c) \/ InfraFailure(c)

HarnessNext ==
    \/ \E c \in Callers : StepBegins(c) \/ CallGoesOn(c) \/ CallDies(c)
    \/ Cancel \/ ApproveMerge

HarnessSpec == HarnessInit /\ [][HarnessNext]_vars

\* The run is stepped again and again and calls end.  Of sessions that are asked
\* again and again some is ready, dead, silent or has answered at some time.
HarnessFairness ==
    /\ WF_vars(\E c \in Callers : StepBegins(c) \/ CallGoesOn(c))
    /\ SF_vars(\E c \in Steppers : \/ SessionReady(c) \/ SessionDead(c) \/ SessionAsksHuman(c)
                                   \/ PollFails(c) \/ PollCompleted(c))

FairSpec == HarnessSpec /\ HarnessFairness

-------------------------------------------------------------------------------
\* The builders that have a prompt and have not been seen to answer it.
Building == {d \in delivered : d[1][1] = "builder" /\ artifact[d] = "none"}

\* "Whoever is driving ticks may step the same stage any number of times, and
\* only the first one may send" (TerminalAgentRunner.run): two builders have the
\* prompt of one iteration only when a dispatch of one of them was failed, which
\* does not stop it, and those of two iterations only if so or if steps of the
\* run overlapped, whatever calls die, sessions are lost, sends stay uncertain
\* and failures are resumed.
BuildersAccountedFor ==
    \A d, e \in Building : d # e =>
        \/ {d, e} \cap givenUp # {}
        \/ d[1] # e[1] /\ overlapped

\* What is judged is what was built: an iteration has a verdict only when the
\* answer of its own builder was read, also after a resume, a restart of the
\* process or a write to a run that was cancelled; if steps overlapped, at least
\* that of an earlier iteration's builder (_build, resume, _settle).
EvaluatedIsBuilt ==
    \A i \in Iterations : verdict[i] # "none" =>
        \E j \in 1..i, a \in Attempts :
            /\ artifact[<<<<"builder", j>>, a>>] = "built"
            /\ j = i \/ overlapped

\* A run is ready to merge, and is merged, only when an evaluation that passed
\* is on record, although the verdict and the stage are written in different
\* transactions and an evaluation may run twice; and only on the strength of the
\* latest verdict about its current iteration, unless steps of it overlapped
\* (_settle, approve_merge).
MergeNeedsPass ==
    stage \in {"MERGE_READY", "MERGED"} =>
        /\ passed # {}
        /\ overlapped \/ (iteration > 0 /\ verdict[iteration] = "pass")

\* A run that is stepped does not go round for ever: it comes to a stage where
\* it waits for a human or is over, unless the process died between
\* save_contract and freeze_contract, after which every step raises (_plan,
\* record_infra_failure, _block_max_iterations).
Settled == {"MERGE_READY", "MERGED", "BLOCKED", "NEEDS_REDEFINE", "CANCELLED"}
RunSettles == []<>(stage \in Settled \/ contract = "saved")
===============================================================================
