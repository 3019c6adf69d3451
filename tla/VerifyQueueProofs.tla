--------------------------- MODULE VerifyQueueProofs ---------------------------
(***************************************************************************)
(* Proofs about VerifyQueue, for any tasks, verifiers, policies and bounds.*)
(* Whatever verifiers, sweeps, engine and operator do, the tasks take good *)
(* steps of the store (QueueStoreProofs), a PASS is written only with a    *)
(* COMPLETED task, and a verdict is that of the verifier the row names.    *)
(***************************************************************************)
EXTENDS VerifyQueue, QueueStoreProofs

Verdicts == VerifyStatus \cup {"ABSENT"}

PassInv == StoreInv /\ verdict \in [Jobs -> Verdicts] /\ PassMeansCompleted

\* What every step guarantees: no PASS without a task that is COMPLETED.
PassStep ==
    /\ GoodStep
    /\ verdict' \in [Jobs -> Verdicts]
    /\ \A j \in Jobs : verdict'[j] = "VERIFIED_PASS" =>
           verdict[j] = "VERIFIED_PASS" \/ status'[j[1]] = "COMPLETED"

-------------------------------------------------------------------------------
\* Nothing leaves COMPLETED but the audit repair, and nothing leaves CANCELLED.
LEMMA PassStepKeeps ==
    ASSUME PassInv, PassStep PROVE PassInv'
<1>1. StoreInv'
  BY GoodStepKeeps DEF PassInv, PassStep
<1>2. ASSUME NEW t \in Tasks, status[t] \in {"COMPLETED", "CANCELLED"}
      PROVE  status'[t] \in {"COMPLETED", "CANCELLED"}
  <2>1. FollowsTable(t)
    BY DEF PassStep, GoodStep
  <2>2. ValidTransitions(status[t]) = {}
    BY <1>2 DEF ValidTransitions
  <2> QED BY <1>2, <2>1, <2>2 DEF FollowsTable
<1>3. \A j \in Jobs : j[1] \in Tasks
  BY DEF Jobs
<1>4. PassMeansCompleted'
  BY <1>2, <1>3 DEF PassInv, PassStep, PassMeansCompleted
<1> QED BY <1>1, <1>4 DEF PassInv, PassStep

\* A step that leaves the store alone is good.
LEMMA QuietGood == ASSUME StoreInv, UNCHANGED vars PROVE GoodStep
BY NextGood

\* The statuses that the steps write.
LEMMA Verdict ==
    /\ {"ABSENT", "VERIFY_PENDING", "VERIFY_CLAIMED", "VERIFY_RUNNING", "VERIFIED_PASS", "VERIFIED_FAIL",
        "NEEDS_REWORK", "VERIFY_BLOCKED", "VERIFY_CANCELLED"} \subseteq Verdicts
    /\ "VERIFIED_PASS" \notin OpenVerify
BY DEF Verdicts, VerifyStatus, OpenVerify, LeasedVerify

\* Steps that leave every verdict alone.
LEMMA SameVerdicts ==
    ASSUME PassInv, GoodStep, UNCHANGED verdict PROVE PassStep
BY DEF PassInv, PassStep

\* Steps that give one job another status.
LEMMA OneVerdict ==
    ASSUME PassInv, GoodStep, NEW j \in Jobs, NEW s \in Verdicts,
           verdict' = [verdict EXCEPT ![j] = s],
           s = "VERIFIED_PASS" => status'[j[1]] = "COMPLETED"
    PROVE  PassStep
BY DEF PassInv, PassStep

\* The steps of a verifier.  complete moves the task in the same transaction.
LEMMA VerifierGood ==
    ASSUME PassInv, NEW j \in Jobs, NEW v \in Verifiers, VerifierStep(j, v) PROVE PassStep
<1>1. StoreInv /\ j[1] \in Tasks
  BY DEF PassInv, Jobs
<1>2. CASE ClaimNext(j, v)
  BY <1>1, <1>2, QuietGood, OneVerdict, Verdict DEF ClaimNext
<1>3. CASE StartVerify(j, v)
  BY <1>1, <1>3, QuietGood, OneVerdict, Verdict DEF StartVerify
<1>4. CASE Renew(j, v)
  BY <1>1, <1>4, QuietGood, SameVerdicts DEF Renew
<1>5. CASE ReleaseVerify(j, v)
  BY <1>1, <1>5, QuietGood, OneVerdict, Verdict DEF ReleaseVerify
<1>6. ASSUME NEW to \in Verifiers, Handoff(j, v, to) PROVE PassStep
  BY <1>1, <1>6, QuietGood, SameVerdicts DEF Handoff
<1>7. ASSUME NEW result \in {"VERIFIED_PASS", "VERIFIED_FAIL", "NEEDS_REWORK", "VERIFY_BLOCKED"},
             Answer(j, v, result)
      PROVE  PassStep
  <2>1. Transition(j[1], TaskStatusOf(result), TRUE) /\ verdict' = [verdict EXCEPT ![j] = result]
    BY <1>7 DEF Answer
  <2>2. GoodStep
    BY <1>1, <2>1, TransitionGood
  <2>3. result = "VERIFIED_PASS" => status'[j[1]] = "COMPLETED"
    <3>1. status' = [status EXCEPT ![j[1]] = TaskStatusOf(result)]
      BY <2>1 DEF Transition, Transitioned, One
    <3>2. status \in [Tasks -> Status \cup {"ABSENT"}]
      BY <1>1 DEF StoreInv, TypeOK
    <3> QED BY <1>1, <3>1, <3>2 DEF TaskStatusOf
  <2>4. result \in Verdicts
    BY Verdict
  <2> QED BY <2>1, <2>2, <2>3, <2>4, OneVerdict
<1> QED BY <1>2, <1>3, <1>4, <1>5, <1>6, <1>7 DEF VerifierStep

\* The steps of a job without its verifier.
LEMMA JobGood ==
    ASSUME PassInv, NEW j \in Jobs, EnsureVerifyJob(j[1], j[2]) \/ RequeueVerify(j) \/ Lapse(j)
    PROVE  PassStep
<1>1. StoreInv /\ j[1] \in Tasks /\ j = <<j[1], j[2]>>
  BY DEF PassInv, Jobs
<1>2. CASE EnsureVerifyJob(j[1], j[2])
  <2>1. GoodStep
    BY <1>1, <1>2, TransitionGood, QuietGood DEF EnsureVerifyJob
  <2>2. verdict' = [verdict EXCEPT ![j] = "VERIFY_PENDING"]
    BY <1>1, <1>2 DEF EnsureVerifyJob
  <2> QED BY <2>1, <2>2, OneVerdict, Verdict
<1>3. CASE RequeueVerify(j)
  BY <1>1, <1>3, QuietGood, OneVerdict, Verdict DEF RequeueVerify
<1>4. CASE Lapse(j)
  BY <1>1, <1>4, QuietGood, SameVerdicts DEF Lapse
<1> QED BY <1>2, <1>3, <1>4

\* The sweeps: reconcile closes a job as passed only beside a COMPLETED task.
LEMMA SweepersGood ==
    ASSUME PassInv, Reconcile \/ ReclaimRead \/ ReclaimWrite PROVE PassStep
<1>1. CASE Reconcile
  <2>1. GoodStep /\ UNCHANGED vars
    BY <1>1, QuietGood DEF Reconcile, PassInv
  <2>2. status' = status
    BY <2>1 DEF vars, taskVars
  <2>3. verdict' = [j \in Jobs |->
                     IF verdict[j] \in OpenVerify /\ status[j[1]] # "VERIFYING"
                     THEN IF status[j[1]] = "COMPLETED" THEN "VERIFIED_PASS" ELSE "VERIFY_CANCELLED"
                     ELSE IF j \in Stale THEN "VERIFY_PENDING" ELSE verdict[j]]
    BY <1>1 DEF Reconcile
  <2> QED BY <2>1, <2>2, <2>3, Verdict DEF PassInv, PassStep
<1>2. CASE ReclaimRead
  BY <1>2, QuietGood, SameVerdicts DEF ReclaimRead, jobVars, PassInv
<1>3. CASE ReclaimWrite
  <2>1. GoodStep
    BY <1>3, QuietGood DEF ReclaimWrite, PassInv
  <2>2. verdict' = [j \in Jobs |-> IF j \in reclaiming THEN "VERIFY_PENDING" ELSE verdict[j]]
    BY <1>3 DEF ReclaimWrite
  <2> QED BY <2>1, <2>2, Verdict DEF PassInv, PassStep
<1> QED BY <1>1, <1>2, <1>3

\* The engine and the operator move the task through methods of the store.
LEMMA TaskMovesGood ==
    ASSUME StoreInv, NEW t \in Tasks, TaskMoves(t) PROVE GoodStep
<1>1. ASSUME NEW l \in Lanes, SetTasks(l, t, FALSE) \/ PauseLane(l, "user") \/ ResumeLane(l)
      PROVE  GoodStep
  BY <1>1, PlacementGood, LaneStepGood DEF PlacementStep, LaneStep
<1>2. CASE ClaimNextTask(t) \/ Decide(t, "READY") \/ MarkRunning(t) \/ Complete(t)
           \/ Retry(t) \/ Cancel(t) \/ Invalidate(t)
  BY <1>2, TaskStepGood DEF TaskStep
<1>3. ASSUME NEW to, Transition(t, to, TRUE) PROVE GoodStep
  BY <1>3, TransitionGood
<1>4. ASSUME NEW to \in {"WAITING_SESSION", "BLOCKED"}, RecoverStale(t, to) PROVE GoodStep
  BY <1>4, TaskStepGood DEF TaskStep
<1> QED BY <1>1, <1>2, <1>3, <1>4 DEF TaskMoves

\* Every step of the verify queue and of what moves its tasks.
LEMMA VerifyStepGood ==
    ASSUME PassInv, [VerifyNext]_allVars PROVE PassStep
<1>1. StoreInv
  BY DEF PassInv
<1>2. CASE \E j \in Jobs, v \in Verifiers : VerifierStep(j, v)
  BY <1>2, VerifierGood
<1>3. CASE \E j \in Jobs : EnsureVerifyJob(j[1], j[2]) \/ RequeueVerify(j) \/ Lapse(j)
  BY <1>3, JobGood
<1>4. CASE Reconcile \/ ReclaimRead \/ ReclaimWrite
  BY <1>4, SweepersGood
<1>5. ASSUME NEW t \in Tasks,
             CheckUnheld(t) \/ CheckCompletes(t) \/ CheckEnds(t) \/ RecoverCompleted(t)
      PROVE  PassStep
  <2>1. UNCHANGED verdict
    BY <1>5 DEF CheckUnheld, CheckCompletes, CheckEnds, RecoverCompleted, CompletedInSession, jobVars
  <2>2. UNCHANGED vars \/ Complete(t) \/ Transition(t, "RUNNING", TRUE)
    BY <1>5 DEF CheckUnheld, CheckCompletes, CheckEnds, RecoverCompleted, CompletedInSession
  <2>3. GoodStep
    BY <1>1, <2>2, QuietGood, TransitionGood DEF Complete
  <2> QED BY <2>1, <2>3, SameVerdicts
<1>6. ASSUME NEW t \in Tasks, TaskMoves(t), UNCHANGED verifyVars PROVE PassStep
  BY <1>1, <1>6, TaskMovesGood, SameVerdicts DEF verifyVars, jobVars
<1>7. CASE UNCHANGED allVars
  BY <1>1, <1>7, QuietGood, SameVerdicts DEF allVars, verifyVars, jobVars
<1> QED BY <1>2, <1>3, <1>4, <1>5, <1>6, <1>7 DEF VerifyNext

\* The invariant is one of the specification.
LEMMA PassInvariant == VerifySpec => []PassInv
<1>1. VerifyInit => PassInv
  BY InitGood, Verdict DEF VerifyInit, PassInv, PassMeansCompleted
<1>2. PassInv /\ [VerifyNext]_allVars => PassInv'
  BY VerifyStepGood, PassStepKeeps
<1> QED BY <1>1, <1>2, PTL DEF VerifySpec

-------------------------------------------------------------------------------
\* A lease is one token, whose receiver the row names, and an answer is given
\* once: until the job is pooled again its status is a result.
Results == {"VERIFIED_PASS", "VERIFIED_FAIL", "NEEDS_REWORK", "VERIFY_BLOCKED"}

JobTypes ==
    /\ verdict \in [Jobs -> Verdicts]
    /\ token \in [Jobs -> 0..MaxClaims]
    /\ claims \in [Jobs -> 0..MaxClaims]
    /\ verifier \in [Jobs -> Verifiers \cup {Nobody}]
    /\ given \in [Jobs -> [1..MaxClaims -> Verifiers \cup {Nobody}]]
    /\ answered \in [Jobs -> Verifiers \cup {Nobody}]
    /\ reclaiming \subseteq Jobs

JobOK(j) ==
    /\ token[j] # 0 <=> verdict[j] \in LeasedVerify
    /\ verdict[j] \in LeasedVerify => verifier[j] = given[j][token[j]]
    /\ answered[j] # Nobody => verdict[j] \in Results /\ answered[j] = verifier[j]

NamedInv == JobTypes /\ \A j \in Jobs : JobOK(j)

\* The fields of job i are left alone.
SameJob(i) ==
    /\ verdict'[i] = verdict[i] /\ token'[i] = token[i] /\ verifier'[i] = verifier[i]
    /\ given'[i] = given[i] /\ answered'[i] = answered[i]

\* A job that is left alone stays in order.
LEMMA SameJobOK == ASSUME NEW i, JobOK(i), SameJob(i) PROVE JobOK(i)'
BY DEF JobOK, SameJob

\* The statuses that JobOK tells apart.
LEMMA Kinds ==
    /\ \A s \in LeasedVerify : s \notin Results /\ s # "VERIFY_PENDING" /\ s \in OpenVerify
    /\ \A s \in Results : s \notin OpenVerify /\ s \in Verdicts
    /\ "VERIFY_PENDING" \notin LeasedVerify \cup Results
    /\ "VERIFY_CANCELLED" \notin LeasedVerify
    /\ "ABSENT" \notin LeasedVerify \cup Results
    /\ "VERIFY_CLAIMED" \in LeasedVerify /\ "VERIFY_RUNNING" \in LeasedVerify
BY DEF Results, LeasedVerify, OpenVerify, Verdicts, VerifyStatus

\* A claim or a handover: the new token's receiver is the one the row names.
LEMMA GivenKeeps ==
    ASSUME NamedInv, NEW j \in Jobs, NEW v \in Verifiers, GivenTo(j, v), UNCHANGED <<answered, reclaiming>>,
           NEW s \in LeasedVerify, verdict' = [verdict EXCEPT ![j] = s], answered[j] = Nobody
    PROVE  NamedInv'
<1> USE VerifyAssumption
<1>1. s \in Verdicts
  BY DEF Verdicts, VerifyStatus, OpenVerify
<1>2. PICK n \in 1..MaxClaims : n = claims[j] + 1
  BY DEF NamedInv, JobTypes, GivenTo
<1>3. /\ claims' = [claims EXCEPT ![j] = n]
      /\ token' = [token EXCEPT ![j] = n]
      /\ given' = [given EXCEPT ![j] = [given[j] EXCEPT ![n] = v]]
      /\ verifier' = [verifier EXCEPT ![j] = v]
  BY <1>2 DEF GivenTo, NamedInv, JobTypes
<1>4. [given[j] EXCEPT ![n] = v] \in [1..MaxClaims -> Verifiers \cup {Nobody}]
  BY DEF NamedInv, JobTypes
<1>5. JobTypes'
  BY <1>1, <1>3, <1>4 DEF NamedInv, JobTypes
<1>6. ASSUME NEW i \in Jobs PROVE JobOK(i)'
  <2>1. CASE i # j
    <3>1. SameJob(i)
      BY <1>3, <2>1 DEF SameJob, NamedInv, JobTypes
    <3> QED BY <3>1, SameJobOK DEF NamedInv
  <2>2. CASE i = j
    <3>1. verdict'[j] = s /\ token'[j] = n /\ verifier'[j] = v /\ answered'[j] = Nobody
      BY <1>3 DEF NamedInv, JobTypes
    <3>2. given'[j][n] = v
      BY <1>3, <1>4 DEF NamedInv, JobTypes
    <3> QED BY <2>2, <3>1, <3>2 DEF JobOK
  <2> QED BY <2>1, <2>2
<1> QED BY <1>5, <1>6 DEF NamedInv

\* Jobs that go back to the pool lose token, verifier and answer.
LEMMA PooledKeeps ==
    ASSUME NamedInv, NEW J \in SUBSET Jobs, Pooled(J),
           UNCHANGED <<claims, given>>, reclaiming' \subseteq Jobs,
           verdict' = [j \in Jobs |-> IF j \in J THEN "VERIFY_PENDING" ELSE verdict[j]]
    PROVE  NamedInv'
<1> USE VerifyAssumption
<1>1. JobTypes'
  BY Verdict DEF NamedInv, JobTypes, Pooled
<1>2. ASSUME NEW i \in Jobs PROVE JobOK(i)'
  <2>1. CASE i \notin J
    <3>1. SameJob(i)
      BY <2>1 DEF SameJob, Pooled, NamedInv, JobTypes
    <3> QED BY <3>1, SameJobOK DEF NamedInv
  <2>2. CASE i \in J
    BY <2>2, Kinds DEF JobOK, Pooled
  <2> QED BY <2>1, <2>2
<1> QED BY <1>1, <1>2 DEF NamedInv

\* A step that changes no field of any job.
LEMMA QuietKeeps ==
    ASSUME NamedInv, UNCHANGED <<verdict, token, claims, verifier, given, answered>>,
           reclaiming' \subseteq Jobs
    PROVE  NamedInv'
<1>1. JobTypes'
  BY DEF NamedInv, JobTypes
<1>2. ASSUME NEW i \in Jobs PROVE JobOK(i)'
  BY SameJobOK DEF SameJob, NamedInv
<1> QED BY <1>1, <1>2 DEF NamedInv

\* complete and fail: only the holder of the row's token is heard, and it is the
\* verifier that the row names.
LEMMA AnswerKeeps ==
    ASSUME NamedInv, NEW j \in Jobs, NEW v \in Verifiers, NEW result \in Results, Answer(j, v, result)
    PROVE  NamedInv'
<1> USE VerifyAssumption
<1>1. /\ verdict' = [verdict EXCEPT ![j] = result]
      /\ answered' = [answered EXCEPT ![j] = v]
      /\ token' = [token EXCEPT ![j] = 0]
      /\ UNCHANGED <<claims, verifier, given, reclaiming>>
  BY DEF Answer
<1>2. verifier[j] = v
  BY DEF Answer, Holds, NamedInv, JobOK
<1>3. JobTypes'
  BY <1>1, Kinds DEF NamedInv, JobTypes
<1>4. ASSUME NEW i \in Jobs PROVE JobOK(i)'
  <2>1. CASE i # j
    <3>1. SameJob(i)
      BY <1>1, <2>1 DEF SameJob, NamedInv, JobTypes
    <3> QED BY <3>1, SameJobOK DEF NamedInv
  <2>2. CASE i = j
    <3>1. verdict'[j] = result /\ token'[j] = 0 /\ answered'[j] = v /\ verifier'[j] = v
      BY <1>1, <1>2 DEF NamedInv, JobTypes
    <3>2. result \notin LeasedVerify
      BY Kinds
    <3> QED BY <2>2, <3>1, <3>2 DEF JobOK
  <2> QED BY <2>1, <2>2
<1> QED BY <1>3, <1>4 DEF NamedInv

\* ensure_verify_job and start change one status, to one that has, or that has
\* not, a lease, as before.
LEMMA StatusKeeps ==
    ASSUME NamedInv, NEW j \in Jobs, NEW s \in Verdicts, verdict' = [verdict EXCEPT ![j] = s],
           verdict[j] \notin Results, s \in LeasedVerify <=> verdict[j] \in LeasedVerify,
           UNCHANGED <<token, claims, verifier, given, answered, reclaiming>>
    PROVE  NamedInv'
<1>1. JobTypes'
  BY DEF NamedInv, JobTypes
<1>2. ASSUME NEW i \in Jobs PROVE JobOK(i)'
  <2>1. CASE i # j
    <3>1. SameJob(i)
      BY <2>1 DEF SameJob, NamedInv, JobTypes
    <3> QED BY <3>1, SameJobOK DEF NamedInv
  <2>2. CASE i = j
    <3>1. verdict'[j] = s
      BY DEF NamedInv, JobTypes
    <3>2. JobOK(j)
      BY DEF NamedInv
    <3> QED BY <2>2, <3>1, <3>2 DEF JobOK
  <2> QED BY <2>1, <2>2
<1> QED BY <1>1, <1>2 DEF NamedInv

\* reconcile: a lapsed job is pooled, a job whose task has gone is closed, and
\* neither had an answer.
LEMMA ReconcileKeeps == ASSUME NamedInv, Reconcile PROVE NamedInv'
<1> USE VerifyAssumption
<1> DEFINE closing == {j \in Jobs : verdict[j] \in OpenVerify /\ status[j[1]] # "VERIFYING"}
<1>1. /\ verdict' = [j \in Jobs |->
                     IF j \in closing
                     THEN IF status[j[1]] = "COMPLETED" THEN "VERIFIED_PASS" ELSE "VERIFY_CANCELLED"
                     ELSE IF j \in Stale THEN "VERIFY_PENDING" ELSE verdict[j]]
      /\ token' = [j \in Jobs |-> IF j \in Stale \cup closing THEN 0 ELSE token[j]]
      /\ verifier' = [j \in Jobs |-> IF j \in Stale THEN Nobody ELSE verifier[j]]
      /\ UNCHANGED <<claims, given, answered, reclaiming>>
  BY DEF Reconcile
<1>2. JobTypes'
  BY <1>1, Verdict DEF NamedInv, JobTypes
<1>3. ASSUME NEW i \in Jobs PROVE JobOK(i)'
  <2>1. CASE i \notin Stale \cup closing
    <3>1. SameJob(i)
      BY <1>1, <2>1 DEF SameJob, NamedInv, JobTypes
    <3> QED BY <3>1, SameJobOK DEF NamedInv
  <2>2. CASE i \in Stale \cup closing
    <3>1. answered'[i] = Nobody
      BY <1>1, <2>2, Kinds DEF NamedInv, JobOK, Stale
    <3>2. token'[i] = 0
      BY <1>1, <2>2
    <3>3. verdict'[i] \in {"VERIFIED_PASS", "VERIFY_CANCELLED", "VERIFY_PENDING"}
      BY <1>1, <2>2
    <3>4. verdict'[i] \notin LeasedVerify
      BY <3>3 DEF LeasedVerify
    <3> QED BY <3>1, <3>2, <3>4 DEF JobOK
  <2> QED BY <2>1, <2>2
<1> QED BY <1>2, <1>3 DEF NamedInv

\* Every step keeps the invariant of the jobs.
LEMMA NamedStep ==
    ASSUME NamedInv, [VerifyNext]_allVars PROVE NamedInv'
<1>1. ASSUME NEW j \in Jobs, NEW v \in Verifiers, VerifierStep(j, v) PROVE NamedInv'
  <2>1. JobOK(j) /\ verdict[j] \in Verdicts
    BY DEF NamedInv, JobTypes
  <2>2. CASE ClaimNext(j, v)
    <3>1. answered[j] = Nobody
      BY <2>1, <2>2, Kinds DEF ClaimNext, JobOK
    <3> QED BY <2>2, <3>1, GivenKeeps, Kinds DEF ClaimNext
  <2>3. CASE StartVerify(j, v)
    BY <2>3, StatusKeeps, Kinds, Verdict DEF StartVerify
  <2>4. CASE Renew(j, v)
    BY <2>4, QuietKeeps DEF Renew, NamedInv, JobTypes
  <2>5. CASE ReleaseVerify(j, v)
    <3>1. verdict' = [i \in Jobs |-> IF i \in {j} THEN "VERIFY_PENDING" ELSE verdict[i]]
      BY <2>5 DEF ReleaseVerify, NamedInv, JobTypes
    <3>2. reclaiming' \subseteq Jobs /\ UNCHANGED <<claims, given>> /\ Pooled({j})
      BY <2>5 DEF ReleaseVerify, NamedInv, JobTypes
    <3> QED BY <3>1, <3>2, PooledKeeps
  <2>6. ASSUME NEW to \in Verifiers, Handoff(j, v, to) PROVE NamedInv'
    <3>1. verdict[j] \in LeasedVerify /\ answered[j] = Nobody
      BY <2>1, <2>6, Kinds DEF Handoff, Holds, JobOK
    <3>2. verdict' = [verdict EXCEPT ![j] = verdict[j]]
      BY <2>6 DEF Handoff, NamedInv, JobTypes
    <3> QED BY <2>6, <3>1, <3>2, GivenKeeps DEF Handoff
  <2>7. ASSUME NEW result \in Results, Answer(j, v, result) PROVE NamedInv'
    BY <2>7, AnswerKeeps
  <2> QED BY <1>1, <2>2, <2>3, <2>4, <2>5, <2>6, <2>7 DEF VerifierStep, Results
<1>2. ASSUME NEW j \in Jobs, EnsureVerifyJob(j[1], j[2]) \/ RequeueVerify(j) \/ Lapse(j)
      PROVE  NamedInv'
  <2>1. CASE EnsureVerifyJob(j[1], j[2])
    <3>1. j = <<j[1], j[2]>>
      BY DEF Jobs
    <3>2. verdict[j] = "ABSENT" /\ verdict' = [verdict EXCEPT ![j] = "VERIFY_PENDING"]
          /\ UNCHANGED <<token, claims, verifier, given, answered, reclaiming>>
      BY <2>1, <3>1 DEF EnsureVerifyJob
    <3> QED BY <3>2, StatusKeeps, Kinds, Verdict
  <2>2. CASE RequeueVerify(j)
    <3>1. verdict' = [i \in Jobs |-> IF i \in {j} THEN "VERIFY_PENDING" ELSE verdict[i]]
      BY <2>2 DEF RequeueVerify, NamedInv, JobTypes
    <3>2. reclaiming' \subseteq Jobs /\ UNCHANGED <<claims, given>> /\ Pooled({j})
      BY <2>2 DEF RequeueVerify, NamedInv, JobTypes
    <3> QED BY <3>1, <3>2, PooledKeeps
  <2>3. CASE Lapse(j)
    BY <2>3, QuietKeeps DEF Lapse, NamedInv, JobTypes
  <2> QED BY <1>2, <2>1, <2>2, <2>3
<1>3. CASE Reconcile
  BY <1>3, ReconcileKeeps
<1>4. CASE ReclaimRead
  <2>1. reclaiming' \subseteq Jobs
    BY <1>4 DEF ReclaimRead, Stale
  <2> QED BY <1>4, <2>1, QuietKeeps DEF ReclaimRead, jobVars
<1>5. CASE ReclaimWrite
  <2>1. reclaiming \in SUBSET Jobs /\ reclaiming' \subseteq Jobs
    BY <1>5 DEF ReclaimWrite, NamedInv, JobTypes
  <2> QED BY <1>5, <2>1, PooledKeeps DEF ReclaimWrite
<1>6. ASSUME NEW t \in Tasks,
             CheckUnheld(t) \/ CheckCompletes(t) \/ CheckEnds(t) \/ RecoverCompleted(t)
             \/ UNCHANGED verifyVars
      PROVE  NamedInv'
  <2>1. UNCHANGED <<jobVars, reclaiming>>
    BY <1>6 DEF CheckUnheld, CheckCompletes, CheckEnds, RecoverCompleted, CompletedInSession, verifyVars
  <2> QED BY <2>1, QuietKeeps DEF jobVars, NamedInv, JobTypes
<1>7. CASE UNCHANGED allVars
  BY <1>7, QuietKeeps DEF allVars, verifyVars, jobVars, NamedInv, JobTypes
<1> QED BY <1>1, <1>2, <1>3, <1>4, <1>5, <1>6, <1>7 DEF VerifyNext

-------------------------------------------------------------------------------
\* A job that passed belongs to a task that is COMPLETED, or was and has been
\* invalidated since: complete and reconcile write the two together (complete).
THEOREM PassIsBacked == VerifySpec => []PassMeansCompleted
<1>1. PassInv => PassMeansCompleted
  BY DEF PassInv
<1> QED BY <1>1, PassInvariant, PTL

-------------------------------------------------------------------------------
\* The types of the remaining variables.  A self-passed attempt has a number: a
\* task that has execution evidence was dispatched, and a tick past the hold had
\* a VERIFYING task before it.
RestTypes ==
    /\ expired \in [Jobs -> BOOLEAN]
    /\ unheld \subseteq Tasks
    /\ selfPassed \subseteq Jobs

Tried ==
    \A t \in Tasks :
        /\ evidence[t] => attempts[t] > 0
        /\ t \in unheld => evidence[t]

VerifyInv == PassInv /\ NamedInv /\ RestTypes /\ Tried

\* The attempts of a task never go down, and it gets its evidence after the
\* first of them.
Tries ==
    \A t \in Tasks :
        /\ attempts'[t] >= attempts[t]
        /\ evidence[t] => evidence'[t]
        /\ evidence'[t] => evidence[t] \/ attempts[t] > 0

\* A step that leaves both alone.
LEMMA QuietTries == ASSUME StoreInv, UNCHANGED <<attempts, evidence>> PROVE Tries
BY QueueAssumption DEF StoreInv, TypeOK, Tries

\* _transition_locked counts attempts up.
LEMMA TransitionedTries ==
    ASSUME StoreInv, NEW new, NEW drop, NEW from, Transitioned(new, drop, from), UNCHANGED evidence
    PROVE  Tries
<1>1. attempts' = [t \in Tasks |->
                      IF new[t] = "DISPATCHING" /\ status[t] # new[t] THEN attempts[t] + 1
                      ELSE attempts[t]]
  BY DEF Transitioned
<1>2. attempts \in [Tasks -> 0..MaxAttempts]
  BY DEF StoreInv, TypeOK
<1> QED BY <1>1, <1>2, QueueAssumption DEF Tries

\* What the engine and the operator do to a task.
LEMMA TaskMovesTry ==
    ASSUME StoreInv, NEW t \in Tasks, TaskMoves(t) PROVE Tries
<1>1. CASE attempts[t] > 0 /\ MarkRunning(t)
  <2>1. evidence \in [Tasks -> BOOLEAN] /\ attempts \in [Tasks -> 0..MaxAttempts]
    BY DEF StoreInv, TypeOK
  <2>2. evidence' = [evidence EXCEPT ![t] = TRUE] /\ attempts' = attempts
    BY <1>1 DEF MarkRunning
  <2> QED BY <1>1, <2>1, <2>2, QueueAssumption DEF Tries
<1>2. ASSUME NEW l \in Lanes, SetTasks(l, t, FALSE) PROVE Tries
  BY <1>2, QuietTries DEF SetTasks
<1>3. ASSUME NEW l \in Lanes, PauseLane(l, "user") \/ ResumeLane(l) PROVE Tries
  BY <1>3, TransitionedTries DEF PauseLane, ResumeLane
<1>4. CASE ClaimNextTask(t) \/ Invalidate(t)
  BY <1>4, QuietTries DEF ClaimNextTask, Invalidate
<1>5. ASSUME NEW to, NEW keep, Transition(t, to, keep) PROVE Tries
  BY <1>5, TransitionedTries DEF Transition
<1> QED BY <1>1, <1>2, <1>3, <1>4, <1>5 DEF TaskMoves, Decide, RecoverStale, Complete, Retry, Cancel

\* Every step of the verify queue and of what moves its tasks.
LEMMA VerifyStepTries ==
    ASSUME StoreInv, [VerifyNext]_allVars PROVE Tries
<1>1. ASSUME NEW t \in Tasks, NEW to, NEW keep, Transition(t, to, keep) PROVE Tries
  BY <1>1, TransitionedTries DEF Transition
<1>2. CASE UNCHANGED vars
  BY <1>2, QuietTries DEF vars, taskVars
<1>3. ASSUME NEW j \in Jobs, NEW v \in Verifiers, VerifierStep(j, v) PROVE Tries
  <2>1. UNCHANGED vars \/ \E to : Transition(j[1], to, TRUE)
    BY <1>3 DEF VerifierStep, ClaimNext, StartVerify, Renew, ReleaseVerify, Handoff, Answer
  <2> QED BY <1>1, <1>2, <2>1 DEF Jobs
<1>4. ASSUME NEW j \in Jobs, EnsureVerifyJob(j[1], j[2]) \/ RequeueVerify(j) \/ Lapse(j) PROVE Tries
  <2>1. UNCHANGED vars \/ Transition(j[1], "VERIFYING", TRUE)
    BY <1>4 DEF EnsureVerifyJob, RequeueVerify, Lapse
  <2> QED BY <1>1, <1>2, <2>1 DEF Jobs
<1>5. CASE Reconcile \/ ReclaimRead \/ ReclaimWrite
  BY <1>2, <1>5 DEF Reconcile, ReclaimRead, ReclaimWrite
<1>6. ASSUME NEW t \in Tasks,
             CheckUnheld(t) \/ CheckCompletes(t) \/ CheckEnds(t) \/ RecoverCompleted(t)
      PROVE  Tries
  <2>1. UNCHANGED vars \/ \E to : Transition(t, to, TRUE)
    BY <1>6 DEF CheckUnheld, CheckCompletes, CheckEnds, RecoverCompleted, CompletedInSession, Complete
  <2> QED BY <1>1, <1>2, <2>1
<1>7. CASE UNCHANGED allVars
  BY <1>2, <1>7 DEF allVars
<1> QED BY <1>3, <1>4, <1>5, <1>6, <1>7, TaskMovesTry DEF VerifyNext

\* A tick that gets past the hold has a task with evidence, and one that
\* completes a task names an attempt.
LEMMA VerifyStepUnheld ==
    ASSUME VerifyInv, [VerifyNext]_allVars
    PROVE  /\ unheld' \subseteq {t \in Tasks : t \in unheld \/ evidence[t]}
           /\ selfPassed' \subseteq Jobs
<1> USE DEF VerifyInv, RestTypes
<1>1. ASSUME NEW t \in Tasks, CheckUnheld(t)
      PROVE  unheld' \subseteq unheld \cup {t} /\ evidence[t] /\ UNCHANGED selfPassed
  BY <1>1 DEF CheckUnheld, PassInv, StoreInv, EvidenceKept, Proven
<1>2. ASSUME NEW t \in Tasks, CheckCompletes(t) \/ RecoverCompleted(t)
      PROVE  unheld' \subseteq unheld /\ selfPassed' \subseteq Jobs
  <2>1. attempts[t] \in 0..MaxAttempts /\ attempts[t] > 0
    BY <1>2 DEF CheckCompletes, RecoverCompleted, Tried, PassInv, StoreInv, TypeOK
  <2>2. <<t, attempts[t]>> \in Jobs
    BY <2>1, QueueAssumption DEF Jobs
  <2>3. selfPassed' = selfPassed \cup {<<t, attempts[t]>>}
    BY <1>2 DEF CheckCompletes, RecoverCompleted, CompletedInSession
  <2>4. unheld' \subseteq unheld
    BY <1>2 DEF CheckCompletes, RecoverCompleted
  <2> QED BY <2>2, <2>3, <2>4
<1>3. ASSUME NEW t \in Tasks, CheckEnds(t) PROVE unheld' \subseteq unheld /\ UNCHANGED selfPassed
  BY <1>3 DEF CheckEnds
<1>4. CASE UNCHANGED <<unheld, selfPassed>>
  BY <1>4
<1>5. ASSUME NEW j \in Jobs, NEW v \in Verifiers, VerifierStep(j, v) PROVE UNCHANGED <<unheld, selfPassed>>
  BY <1>5 DEF VerifierStep, ClaimNext, StartVerify, Renew, ReleaseVerify, Handoff, Answer
<1>6. ASSUME NEW j \in Jobs, EnsureVerifyJob(j[1], j[2]) \/ RequeueVerify(j) \/ Lapse(j)
      PROVE  UNCHANGED <<unheld, selfPassed>>
  BY <1>6 DEF EnsureVerifyJob, RequeueVerify, Lapse
<1>7. ASSUME Reconcile \/ ReclaimRead \/ ReclaimWrite PROVE UNCHANGED <<unheld, selfPassed>>
  BY <1>7 DEF Reconcile, ReclaimRead, ReclaimWrite
<1>8. ASSUME UNCHANGED verifyVars \/ UNCHANGED allVars PROVE UNCHANGED <<unheld, selfPassed>>
  BY <1>8 DEF allVars, verifyVars
<1> QED BY <1>1, <1>2, <1>3, <1>4, <1>5, <1>6, <1>7, <1>8 DEF VerifyNext

\* A lease that is written is over or not.
LEMMA ExpiredTyped ==
    ASSUME RestTypes, [VerifyNext]_allVars PROVE expired' \in [Jobs -> BOOLEAN]
<1> USE DEF RestTypes
<1>1. ASSUME NEW j \in Jobs, NEW b \in BOOLEAN, expired' = [expired EXCEPT ![j] = b]
      PROVE  expired' \in [Jobs -> BOOLEAN]
  BY <1>1
<1>2. ASSUME NEW J, expired' = [j \in Jobs |-> expired[j] /\ j \notin J]
      PROVE  expired' \in [Jobs -> BOOLEAN]
  BY <1>2, Zenon
<1>3. CASE UNCHANGED expired
  BY <1>3
<1>4. ASSUME NEW j \in Jobs, NEW v \in Verifiers, VerifierStep(j, v) PROVE expired' \in [Jobs -> BOOLEAN]
  BY <1>1, <1>2, <1>3, <1>4
  DEF VerifierStep, ClaimNext, StartVerify, Renew, ReleaseVerify, Handoff, Answer, GivenTo, Pooled
<1>5. ASSUME NEW j \in Jobs, EnsureVerifyJob(j[1], j[2]) \/ RequeueVerify(j) \/ Lapse(j)
      PROVE  expired' \in [Jobs -> BOOLEAN]
  BY <1>1, <1>2, <1>3, <1>5 DEF EnsureVerifyJob, RequeueVerify, Lapse, Pooled
<1>6. ASSUME Reconcile PROVE expired' \in [Jobs -> BOOLEAN]
  BY <1>6, Zenon DEF Reconcile
<1>7. ASSUME ReclaimRead \/ ReclaimWrite PROVE expired' \in [Jobs -> BOOLEAN]
  BY <1>2, <1>3, <1>7 DEF ReclaimRead, ReclaimWrite, Pooled, jobVars
<1>8. ASSUME NEW t \in Tasks,
             CheckUnheld(t) \/ CheckCompletes(t) \/ CheckEnds(t) \/ RecoverCompleted(t)
             \/ UNCHANGED verifyVars
      PROVE  UNCHANGED expired
  BY <1>8 DEF CheckUnheld, CheckCompletes, CheckEnds, RecoverCompleted, CompletedInSession,
              verifyVars, jobVars
<1>9. CASE UNCHANGED allVars
  BY <1>3, <1>9 DEF allVars, verifyVars, jobVars
<1> QED BY <1>3, <1>4, <1>5, <1>6, <1>7, <1>8, <1>9 DEF VerifyNext

\* Every job starts without a verdict, a lease and an answer.
LEMMA NamedInit == VerifyInit => NamedInv
<1> SUFFICES ASSUME VerifyInit PROVE NamedInv
  OBVIOUS
<1> USE VerifyAssumption DEF VerifyInit
<1>1. JobTypes
  BY Verdict DEF JobTypes
<1>2. ASSUME NEW j \in Jobs PROVE JobOK(j)
  BY Kinds DEF JobOK
<1> QED BY <1>1, <1>2 DEF NamedInv

\* The whole invariant is one of the specification.
LEMMA VerifyInvariant == VerifySpec => []VerifyInv
<1>1. VerifyInit => VerifyInv
  <2> SUFFICES ASSUME VerifyInit PROVE VerifyInv
    OBVIOUS
  <2>1. PassInv
    BY InitGood, Verdict DEF VerifyInit, PassInv, PassMeansCompleted
  <2>2. RestTypes /\ Tried
    BY DEF VerifyInit, Init, RestTypes, Tried
  <2> QED BY <2>1, <2>2, NamedInit DEF VerifyInv
<1>2. ASSUME VerifyInv, [VerifyNext]_allVars PROVE VerifyInv'
  <2>1. PassInv'
    BY <1>2, VerifyStepGood, PassStepKeeps DEF VerifyInv
  <2>2. NamedInv'
    BY <1>2, NamedStep DEF VerifyInv
  <2>3. RestTypes'
    BY <1>2, VerifyStepUnheld, ExpiredTyped DEF VerifyInv, RestTypes
  <2>4. Tries
    BY <1>2, VerifyStepTries DEF VerifyInv, PassInv
  <2>5. \A t \in Tasks : attempts[t] \in Nat /\ attempts'[t] \in Nat
    BY <1>2, <2>1, QueueAssumption DEF VerifyInv, PassInv, StoreInv, TypeOK
  <2>6. Tried'
    BY <1>2, <2>4, <2>5, VerifyStepUnheld DEF VerifyInv, Tried, Tries
  <2> QED BY <2>1, <2>2, <2>3, <2>6 DEF VerifyInv
<1> QED BY <1>1, <1>2, PTL DEF VerifySpec

-------------------------------------------------------------------------------
\* Type correctness: a job has a claim token exactly while it is leased, no
\* matter how claims, handovers, both sweeps and verdicts interleave, and every
\* attempt that is completed in session has been dispatched.
THEOREM VerifyTypeCorrect == VerifySpec => []VerifyTypeOK
<1>1. VerifyInv => VerifyTypeOK
  BY DEF VerifyInv, PassInv, StoreInv, NamedInv, JobTypes, JobOK, RestTypes, VerifyTypeOK, Verdicts
<1> QED BY <1>1, VerifyInvariant, PTL

\* The verdict a job carries was given by the verifier that its row names: a
\* verifier that handed the job over, lost it to a sweep or released it is not
\* heard (the claim_token check of complete and fail).
THEOREM NamedVerifierAnswered == VerifySpec => []VerdictByNamedVerifier
<1>1. VerifyInv => VerdictByNamedVerifier
  BY DEF VerifyInv, NamedInv, JobOK, VerdictByNamedVerifier
<1> QED BY <1>1, VerifyInvariant, PTL
===============================================================================
