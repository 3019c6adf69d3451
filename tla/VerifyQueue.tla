------------------------------ MODULE VerifyQueue ------------------------------
(***************************************************************************)
(* verify_queue.py: independent verification of a finished task.  A job,   *)
(* one per task and attempt, is claimed by a verifier under a lease and a  *)
(* token; its verdict and the move of the task commit together.            *)
(*                                                                         *)
(* Every method of VerifyQueue takes the write lock before it reads, so    *)
(* each is one step.  reclaim_stale_verify_leases of queue_store.py reads  *)
(* and writes in two.  The tasks are QueueStore's, moved here by what the  *)
(* engine and the operator do to a task that is worked on and verified.    *)
(*                                                                         *)
(* Abstracted: capabilities and projects (a verifier may claim any job),   *)
(* evidence (a call with rejected evidence changes nothing) and history.   *)
(***************************************************************************)
EXTENDS QueueStore

CONSTANTS
    Verifiers,
    Nobody,
    Implementer,    \* claimed_by of every task: a verifier, or Nobody
    Fallback,       \* "in_session" or "hold", the verify policy of every task
    MaxClaims       \* bound on claim_count

ASSUME VerifyAssumption ==
    /\ Nobody \notin Verifiers
    /\ Implementer \in [Tasks -> Verifiers \cup {Nobody}]
    /\ Fallback \in [Tasks -> {"in_session", "hold"}]
    /\ MaxClaims \in Nat

Jobs == Tasks \X (1..MaxAttempts)

VARIABLES
    verdict,        \* the job's status, "ABSENT" before it is created
    token,          \* claim_token: the claim_count it was made at, 0 for NULL
    claims,         \* claim_count
    verifier,       \* who the row says verifies, or verified
    expired,        \* lease_expires_at is in the past
    given,          \* the token of every claim: who received it
    answered,       \* the caller whose verdict the job carries (not stored)
    reclaiming,     \* the jobs reclaim_stale_verify_leases has read
    unheld,         \* ticks past _external_verification_hold, per task
    selfPassed      \* attempts completed on the word of the task's own session
jobVars == <<verdict, token, claims, verifier, expired, given, answered>>
verifyVars == <<jobVars, reclaiming, unheld, selfPassed>>
allVars == <<vars, verifyVars>>

LeasedVerify == {"VERIFY_CLAIMED", "VERIFY_RUNNING"}
OpenVerify == {"VERIFY_PENDING"} \cup LeasedVerify
VerifyStatus == OpenVerify \cup {"VERIFIED_PASS", "VERIFIED_FAIL", "NEEDS_REWORK",
                                 "VERIFY_BLOCKED", "VERIFY_CANCELLED"}

VerifyTypeOK ==
    /\ TypeOK
    /\ verdict \in [Jobs -> VerifyStatus \cup {"ABSENT"}]
    /\ token \in [Jobs -> 0..MaxClaims]
    /\ \A j \in Jobs : token[j] # 0 <=> verdict[j] \in LeasedVerify
    /\ claims \in [Jobs -> 0..MaxClaims]
    /\ verifier \in [Jobs -> Verifiers \cup {Nobody}]
    /\ expired \in [Jobs -> BOOLEAN]
    /\ given \in [Jobs -> [1..MaxClaims -> Verifiers \cup {Nobody}]]
    /\ answered \in [Jobs -> Verifiers \cup {Nobody}]
    /\ reclaiming \subseteq Jobs
    /\ unheld \subseteq Tasks
    /\ selfPassed \subseteq Jobs

VerifyInit ==
    /\ Init
    /\ verdict = [j \in Jobs |-> "ABSENT"]
    /\ token = [j \in Jobs |-> 0]
    /\ claims = [j \in Jobs |-> 0]
    /\ verifier = [j \in Jobs |-> Nobody]
    /\ expired = [j \in Jobs |-> FALSE]
    /\ given = [j \in Jobs |-> [n \in 1..MaxClaims |-> Nobody]]
    /\ answered = [j \in Jobs |-> Nobody]
    /\ reclaiming = {} /\ unheld = {} /\ selfPassed = {}

-------------------------------------------------------------------------------
\* ensure_verify_job for a task row read at attempt a: nothing if the job
\* exists, else the job, and the task in VERIFYING, together.
EnsureVerifyJob(t, a) ==
    /\ verdict[<<t, a>>] = "ABSENT" /\ a <= attempts[t]
    /\ \/ status[t] = "RUNNING" /\ Transition(t, "VERIFYING", TRUE)
       \/ status[t] = "VERIFYING" /\ UNCHANGED vars
    /\ verdict' = [verdict EXCEPT ![<<t, a>>] = "VERIFY_PENDING"]
    /\ UNCHANGED <<token, claims, verifier, expired, given, answered, reclaiming, unheld, selfPassed>>

\* A new token for v, with a new lease.
GivenTo(j, v) ==
    /\ claims[j] < MaxClaims
    /\ claims' = [claims EXCEPT ![j] = @ + 1]
    /\ token' = [token EXCEPT ![j] = claims[j] + 1]
    /\ given' = [given EXCEPT ![j][claims[j] + 1] = v]
    /\ verifier' = [verifier EXCEPT ![j] = v]
    /\ expired' = [expired EXCEPT ![j] = FALSE]

\* claim_next: any verifier but the implementer.
ClaimNext(j, v) ==
    /\ verdict[j] = "VERIFY_PENDING"
    /\ v # Implementer[j[1]]
    /\ GivenTo(j, v)
    /\ verdict' = [verdict EXCEPT ![j] = "VERIFY_CLAIMED"]
    /\ UNCHANGED <<vars, answered, reclaiming, unheld, selfPassed>>

\* v calls with a token it was given, and the token is the row's.
Holds(j, v) == verdict[j] \in LeasedVerify /\ given[j][token[j]] = v

StartVerify(j, v) ==
    /\ Holds(j, v) /\ verdict[j] = "VERIFY_CLAIMED"
    /\ verdict' = [verdict EXCEPT ![j] = "VERIFY_RUNNING"]
    /\ UNCHANGED <<vars, token, claims, verifier, expired, given, answered,
                   reclaiming, unheld, selfPassed>>

Renew(j, v) ==
    /\ Holds(j, v)
    /\ expired' = [expired EXCEPT ![j] = FALSE]
    /\ UNCHANGED <<vars, verdict, token, claims, verifier, given, answered,
                   reclaiming, unheld, selfPassed>>

\* The jobs in J go back to the pool, without token, lease and verifier.
PooledKeepsToken(J) ==
    /\ verifier' = [j \in Jobs |-> IF j \in J THEN Nobody ELSE verifier[j]]
    /\ answered' = [j \in Jobs |-> IF j \in J THEN Nobody ELSE answered[j]]
    /\ expired' = [j \in Jobs |-> expired[j] /\ j \notin J]
    /\ UNCHANGED token

Pooled(J) ==
    /\ token' = [j \in Jobs |-> IF j \in J THEN 0 ELSE token[j]]
    /\ verifier' = [j \in Jobs |-> IF j \in J THEN Nobody ELSE verifier[j]]
    /\ answered' = [j \in Jobs |-> IF j \in J THEN Nobody ELSE answered[j]]
    /\ expired' = [j \in Jobs |-> expired[j] /\ j \notin J]

ReleaseVerify(j, v) ==
    /\ Holds(j, v)
    /\ verdict' = [verdict EXCEPT ![j] = "VERIFY_PENDING"]
    /\ Pooled({j})
    /\ UNCHANGED <<vars, claims, given, reclaiming, unheld, selfPassed>>

\* handoff: the verifier and the token change, the status does not.
HandoffSameToken(j, v, to) ==
    /\ Holds(j, v)
    /\ verifier' = [verifier EXCEPT ![j] = to]
    /\ expired' = [expired EXCEPT ![j] = FALSE]
    /\ UNCHANGED <<vars, verdict, token, claims, given, answered, reclaiming, unheld, selfPassed>>

Handoff(j, v, to) ==
    /\ Holds(j, v)
    /\ GivenTo(j, to)
    /\ UNCHANGED <<vars, verdict, answered, reclaiming, unheld, selfPassed>>

-------------------------------------------------------------------------------
\* complete and fail: the verdict and the task's move commit together.  The
\* job's attempt is not compared with the task's.
TaskStatusOf(result) ==
    CASE result = "VERIFIED_PASS" -> "COMPLETED"
      [] result = "VERIFY_BLOCKED" -> "BLOCKED"
      [] OTHER -> "FAILED"

AnswerLater(j, v, result) ==
    /\ Holds(j, v)
    /\ status[j[1]] = "VERIFYING"
    /\ verdict' = [verdict EXCEPT ![j] = result]
    /\ answered' = [answered EXCEPT ![j] = v]
    /\ token' = [token EXCEPT ![j] = 0]
    /\ expired' = [expired EXCEPT ![j] = FALSE]
    /\ UNCHANGED <<vars, claims, verifier, given, reclaiming, unheld, selfPassed>>

Answer(j, v, result) ==
    /\ Holds(j, v)
    /\ status[j[1]] = "VERIFYING"
    /\ Transition(j[1], TaskStatusOf(result), TRUE)
    /\ verdict' = [verdict EXCEPT ![j] = result]
    /\ answered' = [answered EXCEPT ![j] = v]
    /\ token' = [token EXCEPT ![j] = 0]
    /\ expired' = [expired EXCEPT ![j] = FALSE]
    /\ UNCHANGED <<claims, verifier, given, reclaiming, unheld, selfPassed>>

\* requeue of a job that was blocked on its environment.
RequeueVerify(j) ==
    /\ verdict[j] = "VERIFY_BLOCKED"
    /\ verdict' = [verdict EXCEPT ![j] = "VERIFY_PENDING"]
    /\ Pooled({j})
    /\ UNCHANGED <<vars, claims, given, reclaiming, unheld, selfPassed>>

-------------------------------------------------------------------------------
Lapse(j) ==
    /\ verdict[j] \in LeasedVerify /\ ~expired[j]
    /\ expired' = [expired EXCEPT ![j] = TRUE]
    /\ UNCHANGED <<vars, verdict, token, claims, verifier, given, answered,
                   reclaiming, unheld, selfPassed>>

Stale == {j \in Jobs : verdict[j] \in LeasedVerify /\ expired[j]}

\* reconcile: lapsed leases go back to the pool, then every open job whose task
\* has left VERIFYING is closed.
Reconcile ==
    LET closing == {j \in Jobs : verdict[j] \in OpenVerify /\ status[j[1]] # "VERIFYING"}
    IN
    /\ Stale \cup closing # {}
    /\ verdict' = [j \in Jobs |->
                     IF j \in closing
                     THEN IF status[j[1]] = "COMPLETED" THEN "VERIFIED_PASS" ELSE "VERIFY_CANCELLED"
                     ELSE IF j \in Stale THEN "VERIFY_PENDING" ELSE verdict[j]]
    /\ token' = [j \in Jobs |-> IF j \in Stale \cup closing THEN 0 ELSE token[j]]
    /\ verifier' = [j \in Jobs |-> IF j \in Stale THEN Nobody ELSE verifier[j]]
    /\ expired' = [j \in Jobs |-> expired[j] /\ j \notin Stale \cup closing]
    /\ UNCHANGED <<vars, claims, given, answered, reclaiming, unheld, selfPassed>>

\* queue_store.reclaim_stale_verify_leases, which the poll loop calls: a plain
\* SELECT, then an UPDATE of each row by its id.
ReclaimRead ==
    /\ reclaiming = {} /\ Stale # {}
    /\ reclaiming' = Stale
    /\ UNCHANGED <<vars, jobVars, unheld, selfPassed>>

ReclaimWrite ==
    /\ reclaiming # {}
    /\ verdict' = [j \in Jobs |-> IF j \in reclaiming THEN "VERIFY_PENDING" ELSE verdict[j]]
    /\ Pooled(reclaiming)
    /\ reclaiming' = {}
    /\ UNCHANGED <<vars, claims, given, unheld, selfPassed>>

-------------------------------------------------------------------------------
\* queue_engine._check_completion of a VERIFYING task: unless an open job holds
\* it, the tick reads the session's output, and then completes or re-arms it.
Held(t) == Fallback[t] = "hold" /\ \E a \in 1..MaxAttempts : verdict[t, a] \in OpenVerify

CheckUnheld(t) ==
    /\ status[t] = "VERIFYING" /\ ~Held(t)
    /\ unheld' = unheld \cup {t}
    /\ UNCHANGED <<vars, jobVars, reclaiming, selfPassed>>

CompletedInSession(t) ==
    /\ Complete(t)
    /\ selfPassed' = selfPassed \cup {<<t, attempts[t]>>}
    /\ UNCHANGED <<jobVars, reclaiming>>

CheckCompletes(t) ==
    /\ t \in unheld
    /\ CompletedInSession(t)
    /\ unheld' = unheld \ {t}

CheckEnds(t) ==
    /\ t \in unheld
    /\ Transition(t, "RUNNING", TRUE) \/ UNCHANGED vars
    /\ unheld' = unheld \ {t}
    /\ UNCHANGED <<jobVars, reclaiming, selfPassed>>

\* tick's recovery of a task that is QUEUED or DISPATCHING again and whose
\* marker is in the session's output.
RecoverCompleted(t) ==
    /\ status[t] \in {"QUEUED", "DISPATCHING"} /\ attempts[t] > 0
    /\ CompletedInSession(t)
    /\ UNCHANGED unheld

\* recover_stale_active_task looks for a live verification first.
LiveVerification(t) ==
    \E a \in 1..MaxAttempts : verdict[t, a] \in LeasedVerify /\ ~expired[t, a]

TaskMoves(t) ==
    \/ \E l \in Lanes : SetTasks(l, t, FALSE) \/ PauseLane(l, "user") \/ ResumeLane(l)
    \/ ClaimNextTask(t) \/ Decide(t, "READY")
    \/ status[t] = "READY" /\ Transition(t, "DISPATCHING", TRUE)
    \/ attempts[t] > 0 /\ MarkRunning(t)
    \/ \E to \in {"VERIFYING", "FAILED"} : Transition(t, to, TRUE)
    \/ ~LiveVerification(t) /\ \E to \in {"WAITING_SESSION", "BLOCKED"} : RecoverStale(t, to)
    \/ Complete(t) /\ status[t] = "VERIFYING"
    \/ Retry(t) \/ Cancel(t) \/ Invalidate(t)

VerifierStep(j, v) ==
    \/ ClaimNext(j, v) \/ StartVerify(j, v) \/ Renew(j, v) \/ ReleaseVerify(j, v)
    \/ \E to \in Verifiers : Handoff(j, v, to)
    \/ \E result \in {"VERIFIED_PASS", "VERIFIED_FAIL", "NEEDS_REWORK", "VERIFY_BLOCKED"} :
         Answer(j, v, result)

VerifyNext ==
    \/ \E j \in Jobs, v \in Verifiers : VerifierStep(j, v)
    \/ \E j \in Jobs : EnsureVerifyJob(j[1], j[2]) \/ RequeueVerify(j) \/ Lapse(j)
    \/ Reconcile \/ ReclaimRead \/ ReclaimWrite
    \/ \E t \in Tasks :
         \/ CheckUnheld(t) \/ CheckCompletes(t) \/ CheckEnds(t) \/ RecoverCompleted(t)
         \/ TaskMoves(t) /\ UNCHANGED verifyVars

VerifySpec == VerifyInit /\ [][VerifyNext]_allVars

-------------------------------------------------------------------------------
\* "the job verdict and the task completion must commit together or not at all"
\* (complete): a job that passed has a task that is COMPLETED, or was and has
\* been invalidated since, whatever claims, sweeps and retries went between.
PassMeansCompleted ==
    \A j \in Jobs : verdict[j] = "VERIFIED_PASS" => status[j[1]] \in {"COMPLETED", "CANCELLED"}

\* "the previous holder can no longer mutate this result" (handoff): the
\* verifier that the row names is the one that gave the verdict.
VerdictByNamedVerifier ==
    \A j \in Jobs : answered[j] # Nobody => answered[j] = verifier[j]

\* FALLBACK_HOLD: while no independent verifier has answered, "in-session
\* completion is SUPPRESSED ... It is never auto-passed".
HeldNotSelfPassed ==
    \A t \in Tasks, a \in 1..MaxAttempts :
        <<t, a>> \in selfPassed /\ Fallback[t] = "hold" => verdict[t, a] = "ABSENT"
===============================================================================
