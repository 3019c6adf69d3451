--------------------------- MODULE HarnessRunProofs ---------------------------
(***************************************************************************)
(* Proofs about HarnessRun, for any number of calls that step a run, one   *)
(* after the other or at the same time.  What holds whoever overlaps       *)
(* follows from what never shrinks: rows, failed dispatches, answers,      *)
(* iterations and passes (AnyInv).  What holds as long as no two steps     *)
(* have overlapped needs the whole course of a call (CalmInv).             *)
(***************************************************************************)
EXTENDS HarnessRun, WellFoundedInduction, TLAPS

-------------------------------------------------------------------------------
\* The phases in which a call works for an agent, and those in which the row of
\* the dispatch exists.
RowPhases == {"opened", "ready", "poll", "send", "sent"}
AgentPhases == RowPhases \cup {"run", "open", "check", "settle"}

\* What a call has read fits what it is going to do.
Fits(phase, k, rows) ==
    /\ phase \in AgentPhases => k.job \in Jobs
    /\ phase \in RowPhases \cup {"open"} => k.attempt \in Attempts
    /\ phase \in RowPhases => rows[<<k.job, k.attempt>>] # "none"
    /\ phase \in {"check", "settle"} => k.job[1] = "evaluator"
    /\ phase = "settle" => k.answer \in Verdicts

\* The store and the agents; a row that is completed has an answer of its role.
RunOK ==
    /\ mode \in Modes
    /\ stage \in Stages /\ resumeStage \in Resumable \cup {"INIT"}
    /\ iteration \in 0..MaxIterations
    /\ infraCount \in Nat
    /\ contract \in {"none", "saved", "frozen"}
    /\ verdict \in [Iterations -> Verdicts \cup {"none"}]
    /\ dispatch \in [Dispatches -> DispatchStates \cup {"none"}]
    /\ delivered \subseteq {d \in Dispatches : d[1][1] = "builder" /\ dispatch[d] # "none"}
    /\ artifact \in [Dispatches -> AllAnswers \cup {"none"}]
    /\ \A d \in Dispatches : dispatch[d] = "completed" => artifact[d] \in Answers(d[1])
    /\ givenUp \subseteq Dispatches /\ passed \subseteq Iterations /\ overlapped \in BOOLEAN
    /\ faults \in 0..MaxFaults

\* The calls; the operator only cancels and approves.
CallsOK ==
    /\ pc \in [Callers -> Phases]
    /\ call \in [Callers -> CallRecords]
    /\ \A c \in Callers : Fits(pc[c], call[c], dispatch)
    /\ \/ pc[Operator] = "idle"
       \/ pc[Operator] = "write" /\ call[Operator].to \in {"CANCELLED", "MERGED"}

TypeInv == RunOK /\ CallsOK

-------------------------------------------------------------------------------
\* A set of numbers that is not empty has a least element.
LEMMA LeastExists ==
    ASSUME NEW S, S \subseteq Nat, S # {}
    PROVE  \E x \in S : \A y \in S : x =< y
<1> DEFINE R == OpToRel(<, Nat)
<1>1. PICK x \in S : \A y \in S : ~ (<<y, x>> \in R)
  BY NatLessThanWellFounded, WFMin
<1>2. ASSUME NEW y \in S PROVE x =< y
  <2>1. x \in Nat /\ y \in Nat /\ ~(<<y, x>> \in R)
    BY <1>1
  <2>2. y < x => <<y, x>> \in R
    BY <2>1 DEF OpToRel
  <2>3. ~(y < x)
    BY <2>1, <2>2, Zenon
  <2> HIDE DEF R
  <2> QED BY <2>1, <2>3
<1> QED BY <1>2

\* Max returns the greatest element of a bounded set of numbers.
LEMMA MaxIsGreatest ==
    ASSUME NEW n \in Nat, NEW S, S \subseteq 0..n, S # {}
    PROVE  Max(S) \in S /\ \A y \in S : Max(S) >= y
<1> DEFINE T == {n - x : x \in S}
<1>a. \A x \in S : x \in Int /\ n - x \in Nat
  OBVIOUS
<1>1. T \subseteq Nat
  BY <1>a
<1>b. T # {}
  OBVIOUS
<1>2. PICK t \in T : \A u \in T : t =< u
  <2> HIDE DEF T
  <2> QED BY <1>1, <1>b, LeastExists
<1>3. PICK x \in S : t = n - x
  BY <1>2
<1>4. \A y \in S : x >= y
  <2> TAKE y \in S
  <2>1. n - y \in T
    OBVIOUS
  <2>2. n - x =< n - y
    BY <1>2, <1>3, <2>1
  <2> QED BY <2>2
<1> QED BY <1>4 DEF Max

\* The latest attempt of a job: it has a row, and no later one has.
LEMMA LatestAttempt ==
    ASSUME NEW job \in Jobs
    PROVE  /\ Latest(job) \in 0..MaxAttempts
           /\ Latest(job) # 0 => Latest(job) \in Attempts /\ dispatch[<<job, Latest(job)>>] # "none"
           /\ \A a \in Attempts : dispatch[<<job, a>>] # "none" => a =< Latest(job)
<1> DEFINE S == {0} \cup {a \in Attempts : dispatch[<<job, a>>] # "none"}
<1>1. MaxAttempts \in Nat
  BY HarnessAssumption
<1>2. S \subseteq 0..MaxAttempts /\ S # {}
  BY <1>1 DEF Attempts
<1>3. Latest(job) \in S /\ \A a \in S : Latest(job) >= a
  <2>1. Latest(job) = Max(S)
    BY DEF Latest
  <2> HIDE DEF S
  <2> QED BY <1>1, <1>2, <2>1, MaxIsGreatest
<1>4. \A a \in Attempts : a \in Nat
  BY <1>1 DEF Attempts
<1>5. Latest(job) \in 0..MaxAttempts
  <2> HIDE DEF S
  <2> QED BY <1>2, <1>3
<1> QED BY <1>3, <1>4, <1>5

\* The operator is no stepper.
LEMMA OperatorApart == Operator \notin Steppers /\ Callers = Steppers \cup {Operator}
<1>1. MaxCalls \in Nat
  BY HarnessAssumption
<1> QED BY <1>1 DEF Operator, Steppers, Callers

\* What the constants and the jobs are.
LEMMA Bounds ==
    /\ MaxIterations \in Nat /\ MaxIterations >= 1 /\ MaxAttempts \in Nat /\ MaxFaults \in Nat
    /\ Iterations \subseteq 0..MaxIterations /\ 1 \in Iterations
    /\ Attempts \subseteq 0..MaxAttempts
BY HarnessAssumption DEF Iterations, Attempts

\* The jobs and the dispatches, one role and iteration each.
LEMMA JobFacts ==
    /\ <<"planner", 0>> \in Jobs /\ NoJob \notin Jobs
    /\ \A i \in Iterations : <<"builder", i>> \in Jobs /\ <<"evaluator", i>> \in Jobs
    /\ \A job \in Jobs : \/ job = <<"planner", 0>>
                         \/ \E i \in Iterations : job = <<"builder", i>>
                         \/ \E i \in Iterations : job = <<"evaluator", i>>
    /\ \A job \in Jobs : job[1] = "evaluator" => job[2] \in Iterations /\ job = <<"evaluator", job[2]>>
    /\ \A job \in Jobs, a \in Attempts : <<job, a>> \in Dispatches
    /\ \A d \in Dispatches : d[1] \in Jobs /\ d[2] \in Attempts /\ d = <<d[1], d[2]>>
BY DEF Jobs, NoJob, Dispatches

\* What the agents of each role may answer.
LEMMA AnswerFacts ==
    /\ Verdicts = {"pass", "fail", "blocked", "needs_redefine"}
    /\ Answers(<<"planner", 0>>) = {"contract", "insufficient"}
    /\ \A i \in Iterations : /\ Answers(<<"builder", i>>) = {"built"}
                             /\ Answers(<<"evaluator", i>>) = Verdicts \cup {"malformed"}
    /\ \A job \in Jobs : Answers(job) \subseteq AllAnswers
    /\ Verdicts \subseteq AllAnswers
<1>1. \A job \in Jobs : Answers(job) \subseteq AllAnswers
  BY DEF AllAnswers
<1>2. /\ Answers(<<"planner", 0>>) = {"contract", "insufficient"}
      /\ \A i \in Iterations : /\ Answers(<<"builder", i>>) = {"built"}
                               /\ Answers(<<"evaluator", i>>) = Verdicts \cup {"malformed"}
  BY DEF Answers
<1>3. Verdicts \subseteq AllAnswers
  BY <1>1, <1>2, Bounds, JobFacts
<1> QED BY <1>1, <1>2, <1>3 DEF Verdicts

-------------------------------------------------------------------------------
\* The parts of the typed state are what HarnessTypeOK says.
LEMMA TypesAreTypes == TypeInv => HarnessTypeOK
BY DEF TypeInv, RunOK, CallsOK, HarnessTypeOK

\* The records that the actions give a call.
LEMMA Records ==
    /\ NoCall \in CallRecords
    /\ \A to \in Stages : [NoCall EXCEPT !.to = to] \in CallRecords
                          /\ [NoCall EXCEPT !.to = to].to = to
                          /\ [NoCall EXCEPT !.to = to].job = NoJob
    /\ \A i \in 0..MaxIterations : [NoCall EXCEPT !.iteration = i] \in CallRecords
                                   /\ [NoCall EXCEPT !.iteration = i].iteration = i
    /\ \A job \in Jobs : [NoCall EXCEPT !.job = job] \in CallRecords
                         /\ [NoCall EXCEPT !.job = job].job = job
    /\ \A k \in CallRecords, to \in Stages : [k EXCEPT !.to = to] \in CallRecords
                                             /\ [k EXCEPT !.to = to].to = to
                                             /\ [k EXCEPT !.to = to].job = k.job
    /\ \A k \in CallRecords, a \in 0..MaxAttempts :
         /\ [k EXCEPT !.attempt = a] \in CallRecords
         /\ [k EXCEPT !.attempt = a].attempt = a
         /\ [k EXCEPT !.attempt = a].job = k.job
    /\ \A k \in CallRecords, v \in Verdicts :
         /\ [k EXCEPT !.answer = v] \in CallRecords
         /\ [k EXCEPT !.answer = v].answer = v
         /\ [k EXCEPT !.answer = v].job = k.job
    /\ \A k \in CallRecords :
         /\ k.job \in Jobs \cup {NoJob} /\ k.attempt \in 0..MaxAttempts
         /\ k.iteration \in 0..MaxIterations /\ k.to \in Stages
<1>1. 0 \in 0..MaxAttempts /\ 0 \in 0..MaxIterations /\ "INIT" \in Stages
  BY Bounds DEF Stages
<1>2. Verdicts \subseteq AllAnswers
  BY AnswerFacts
<1>3. NoCall \in CallRecords
  BY <1>1 DEF NoCall, CallRecords
<1>4. ASSUME NEW k \in CallRecords
      PROVE  /\ k.job \in Jobs \cup {NoJob} /\ k.attempt \in 0..MaxAttempts
             /\ k.iteration \in 0..MaxIterations /\ k.to \in Stages
  BY DEF CallRecords
<1>5. ASSUME NEW k \in CallRecords, NEW to \in Stages
      PROVE  [k EXCEPT !.to = to] \in CallRecords /\ [k EXCEPT !.to = to].to = to
             /\ [k EXCEPT !.to = to].job = k.job
  BY DEF CallRecords
<1>6. ASSUME NEW k \in CallRecords, NEW a \in 0..MaxAttempts
      PROVE  /\ [k EXCEPT !.attempt = a] \in CallRecords
             /\ [k EXCEPT !.attempt = a].attempt = a
             /\ [k EXCEPT !.attempt = a].job = k.job
  BY DEF CallRecords
<1>7. ASSUME NEW k \in CallRecords, NEW v \in Verdicts
      PROVE  /\ [k EXCEPT !.answer = v] \in CallRecords
             /\ [k EXCEPT !.answer = v].answer = v
             /\ [k EXCEPT !.answer = v].job = k.job
  BY <1>2 DEF CallRecords
<1>8. ASSUME NEW i \in 0..MaxIterations
      PROVE  [NoCall EXCEPT !.iteration = i] \in CallRecords /\ [NoCall EXCEPT !.iteration = i].iteration = i
  BY <1>1 DEF NoCall, CallRecords
<1>9. ASSUME NEW job \in Jobs
      PROVE  [NoCall EXCEPT !.job = job] \in CallRecords /\ [NoCall EXCEPT !.job = job].job = job
  BY <1>1 DEF NoCall, CallRecords
<1>10. NoCall.job = NoJob
  BY DEF NoCall
<1>11. ASSUME NEW to \in Stages
       PROVE  [NoCall EXCEPT !.to = to] \in CallRecords /\ [NoCall EXCEPT !.to = to].to = to
             /\ [NoCall EXCEPT !.to = to].job = NoJob
  BY <1>3, <1>5, <1>10
<1> QED BY <1>3, <1>4, <1>5, <1>6, <1>7, <1>8, <1>9, <1>11

\* The record of a call that is going to settle an evaluator's verdict.
LEMMA SettleRecords ==
    ASSUME NEW k \in CallRecords, NEW v \in Verdicts
    PROVE  /\ [k EXCEPT !.answer = v, !.attempt = 0] \in CallRecords
           /\ [k EXCEPT !.answer = v, !.attempt = 0].answer = v
           /\ [k EXCEPT !.answer = v, !.attempt = 0].job = k.job
<1>1. v \in AllAnswers /\ 0 \in 0..MaxAttempts
  BY AnswerFacts, Bounds
<1> QED BY <1>1 DEF CallRecords

\* What every phase but those of an agent's work accepts.
LEMMA FitsOutside ==
    ASSUME NEW phase \in {"idle", "save", "freeze", "advance", "write", "enter", "infra"}, NEW k, NEW rows
    PROVE  phase \in Phases /\ Fits(phase, k, rows)
BY DEF Fits, AgentPhases, RowPhases, Phases

\* The rows of dispatches never go away.
RowsKept == \A d \in Dispatches : dispatch[d] # "none" => dispatch'[d] # "none"

\* What a call has read keeps fitting while rows are only added or written.
LEMMA FitsStays ==
    ASSUME NEW phase, NEW k, Fits(phase, k, dispatch), RowsKept
    PROVE  Fits(phase, k, dispatch')
<1>1. ASSUME phase \in RowPhases PROVE dispatch'[<<k.job, k.attempt>>] # "none"
  <2>1. k.job \in Jobs /\ k.attempt \in Attempts /\ dispatch[<<k.job, k.attempt>>] # "none"
    BY <1>1 DEF Fits, AgentPhases
  <2>2. <<k.job, k.attempt>> \in Dispatches
    BY <2>1, JobFacts
  <2> QED BY <2>1, <2>2 DEF RowsKept
<1> QED BY <1>1 DEF Fits

\* A call that goes on as it fits keeps the types of all calls.
LEMMA GoWithTyped ==
    ASSUME TypeInv, RowsKept, NEW c \in Callers, NEW phase \in Phases, NEW k \in CallRecords,
           GoWith(c, phase, k), Fits(phase, k, dispatch'), c = Operator => phase = "idle"
    PROVE  /\ CallsOK'
           /\ pc'[c] = phase /\ call'[c] = k
           /\ \A d \in Callers \ {c} : pc'[d] = pc[d] /\ call'[d] = call[d]
<1>1. /\ pc' \in [Callers -> Phases] /\ call' \in [Callers -> CallRecords]
      /\ pc'[c] = phase /\ call'[c] = k
      /\ \A d \in Callers \ {c} : pc'[d] = pc[d] /\ call'[d] = call[d]
  BY DEF GoWith, TypeInv, CallsOK
<1>2. ASSUME NEW d \in Callers PROVE Fits(pc'[d], call'[d], dispatch')
  <2>1. CASE d = c
    BY <1>1, <2>1
  <2>2. CASE d # c
    BY <1>1, <2>2, FitsStays DEF TypeInv, CallsOK
  <2> QED BY <2>1, <2>2
<1>3. \/ pc'[Operator] = "idle"
      \/ pc'[Operator] = "write" /\ call'[Operator].to \in {"CANCELLED", "MERGED"}
  BY <1>1 DEF TypeInv, CallsOK, Callers
<1> QED BY <1>1, <1>2, <1>3 DEF CallsOK

\* A call that only changes its phase keeps its record.
LEMMA GoKeepsCall ==
    ASSUME TypeInv, NEW c \in Callers, NEW phase, Go(c, phase)
    PROVE  GoWith(c, phase, call[c]) /\ call[c] \in CallRecords
BY DEF Go, GoWith, TypeInv, CallsOK

\* A call that returns keeps the types.
LEMMA ReturnTyped ==
    ASSUME TypeInv, RowsKept, NEW c \in Callers, Return(c)
    PROVE  CallsOK'
BY GoWithTyped, Records, FitsOutside DEF Return

\* Only the engine does more than to read and write.
LEMMA EngineWorks ==
    ASSUME TypeInv, NEW c \in Callers, pc[c] \notin {"idle", "write"}
    PROVE  c # Operator /\ c \in Steppers
BY DEF TypeInv, CallsOK, Callers

\* So does one that met an infrastructure failure.
LEMMA FailsTyped ==
    ASSUME TypeInv, RowsKept, NEW c \in Steppers, Fails(c)
    PROVE  CallsOK'
BY GoWithTyped, Records, FitsOutside, OperatorApart DEF Fails

\* So does one that is going to advance the run.
LEMMA AdvanceToTyped ==
    ASSUME TypeInv, RowsKept, NEW c \in Steppers, NEW to \in Stages, AdvanceTo(c, to)
    PROVE  CallsOK'
<1> DEFINE k == [NoCall EXCEPT !.to = to]
<1>1. k \in CallRecords
  BY Records
<1>2. GoWith(c, "advance", k)
  BY DEF AdvanceTo
<1>3. c \in Callers /\ c # Operator
  BY OperatorApart DEF Callers
<1> HIDE DEF k
<1> QED BY <1>1, <1>2, <1>3, GoWithTyped, FitsOutside

\* A step that writes nothing keeps the types of the store.
LEMMA SameRun ==
    ASSUME TypeInv, UNCHANGED <<runVars, agentVars, history, faults>>
    PROVE  RunOK' /\ RowsKept
BY DEF TypeInv, RunOK, RowsKept, runVars, agentVars, history

\* Nor does the beginning of a call touch them.
LEMMA SameRunBegins ==
    ASSUME TypeInv, NEW c \in Callers, Begins(c), UNCHANGED <<runVars, agentVars, givenUp, passed>>
    PROVE  RunOK' /\ RowsKept /\ dispatch' = dispatch
<1>1. faults' \in 0..MaxFaults
  BY Bounds DEF Begins, TypeInv, RunOK
<1>2. overlapped' \in BOOLEAN
  BY DEF Begins, TypeInv, RunOK
<1> QED BY <1>1, <1>2 DEF TypeInv, RunOK, RowsKept, runVars, agentVars

\* The answer of an agent decides what the engine does with it, and only an
\* evaluator's is a verdict.
LEMMA AnswerRoles ==
    ASSUME NEW job \in Jobs, NEW answer \in Answers(job)
    PROVE  \/ job = <<"planner", 0>> /\ answer \in {"contract", "insufficient"}
           \/ (\E i \in Iterations : job = <<"builder", i>>) /\ answer = "built"
           \/ (\E i \in Iterations : job = <<"evaluator", i>>) /\ answer \in Verdicts \cup {"malformed"}
<1>1. CASE job = <<"planner", 0>>
  BY <1>1, AnswerFacts
<1>2. ASSUME NEW i \in Iterations, job = <<"builder", i>> PROVE answer = "built"
  BY <1>2, AnswerFacts
<1>3. ASSUME NEW i \in Iterations, job = <<"evaluator", i>> PROVE answer \in Verdicts \cup {"malformed"}
  BY <1>3, AnswerFacts
<1> QED BY <1>1, <1>2, <1>3, JobFacts

\* Whatever the engine does with an answer of the role it asked is typed.
LEMMA UseTyped ==
    ASSUME TypeInv, RowsKept, NEW c \in Steppers, pc[c] \in AgentPhases,
           NEW answer \in Answers(call[c].job), Use(c, answer)
    PROVE  CallsOK'
<1>0. c \in Callers /\ c # Operator /\ call[c] \in CallRecords /\ call[c].job \in Jobs
  BY OperatorApart DEF Callers, TypeInv, CallsOK, Fits
<1>s. {"NEEDS_REDEFINE", "EVALUATING"} \subseteq Stages
  BY DEF Stages
<1>v. Verdicts = {"pass", "fail", "blocked", "needs_redefine"}
  BY AnswerFacts
<1>1. CASE answer = "contract"
  <2>1. GoWith(c, "save", NoCall)
    BY <1>1, <1>v DEF Use
  <2> QED BY <2>1, <1>0, GoWithTyped, FitsOutside, Records
<1>2. CASE answer = "insufficient"
  <2>1. AdvanceTo(c, "NEEDS_REDEFINE")
    BY <1>2, <1>v DEF Use
  <2> QED BY <2>1, <1>s, AdvanceToTyped
<1>3. CASE answer = "built"
  <2>1. AdvanceTo(c, "EVALUATING")
    BY <1>3, <1>v DEF Use
  <2> QED BY <2>1, <1>s, AdvanceToTyped
<1>4. CASE answer = "malformed"
  <2>1. Fails(c)
    BY <1>4, <1>v DEF Use
  <2> QED BY <2>1, FailsTyped
<1>5. CASE answer \in Verdicts
  <2> DEFINE k == [call[c] EXCEPT !.answer = answer, !.attempt = 0]
  <2>1. GoWith(c, "settle", k)
    BY <1>5, <1>v DEF Use
  <2>2. k \in CallRecords /\ k.answer = answer /\ k.job = call[c].job
    BY <1>0, <1>5, SettleRecords
  <2>3. call[c].job[1] = "evaluator"
    BY <1>0, <1>5, <1>v, AnswerRoles
  <2> HIDE DEF k
  <2>4. Fits("settle", k, dispatch') /\ "settle" \in Phases
    BY <1>0, <1>5, <2>2, <2>3 DEF Fits, RowPhases, Phases
  <2> QED BY <1>0, <2>1, <2>2, <2>4, GoWithTyped
<1> QED BY <1>0, <1>1, <1>2, <1>3, <1>4, <1>5, AnswerRoles

\* update_dispatch of a row that exists.
LEMMA ResolveTyped ==
    ASSUME TypeInv, NEW c \in Callers, pc[c] \in RowPhases,
           NEW s \in {"awaiting_session", "dispatching", "failed"}, Resolve(c, s)
    PROVE  /\ RunOK' /\ RowsKept /\ Mine(c) \in Dispatches
           /\ dispatch' = [dispatch EXCEPT ![Mine(c)] = s]
<1>1. Mine(c) \in Dispatches /\ dispatch[Mine(c)] # "none"
  BY JobFacts DEF TypeInv, CallsOK, Fits, AgentPhases, Mine
<1>2. dispatch' = [dispatch EXCEPT ![Mine(c)] = s] /\ s \in DispatchStates /\ s # "none" /\ s # "completed"
  BY DEF Resolve, DispatchStates, Open
<1>3. dispatch' \in [Dispatches -> DispatchStates \cup {"none"}] /\ RowsKept
  BY <1>1, <1>2 DEF TypeInv, RunOK, RowsKept
<1>4. delivered' = delivered /\ artifact' = artifact
  BY DEF Resolve, agentVars
<1>5. \A d \in Dispatches : dispatch'[d] = "completed" => dispatch[d] = "completed"
  BY <1>1, <1>2 DEF TypeInv, RunOK
<1>7. givenUp' \subseteq Dispatches
  BY <1>1 DEF Resolve, TypeInv, RunOK
<1>8. /\ delivered' \subseteq {d \in Dispatches : d[1][1] = "builder" /\ dispatch'[d] # "none"}
      /\ \A d \in Dispatches : dispatch'[d] = "completed" => artifact'[d] \in Answers(d[1])
  BY <1>3, <1>4, <1>5 DEF TypeInv, RunOK, RowsKept
<1>9. UNCHANGED <<mode, stage, resumeStage, iteration, infraCount, contract, verdict, passed, overlapped, faults>>
  BY DEF Resolve
<1>6. RunOK'
  BY <1>3, <1>4, <1>7, <1>8, <1>9 DEF TypeInv, RunOK
<1> QED BY <1>1, <1>2, <1>3, <1>6

-------------------------------------------------------------------------------
\* The types hold of a new run.
LEMMA InitTyped == HarnessInit => TypeInv
<1> SUFFICES ASSUME HarnessInit PROVE TypeInv
  OBVIOUS
<1>1. 0 \in 0..MaxIterations /\ 0 \in 0..MaxFaults /\ "INIT" \in Stages
  BY Bounds DEF Stages
<1>2. RunOK
  BY <1>1 DEF HarnessInit, RunOK
<1>3. CallsOK
  BY Records, FitsOutside DEF HarnessInit, CallsOK, Callers
<1> QED BY <1>2, <1>3 DEF TypeInv

\* A step of the engine begins with a job that fits the stage.
LEMMA StepBeginsTyped ==
    ASSUME TypeInv, NEW c \in Callers, StepBegins(c)
    PROVE  TypeInv'
<1> DEFINE agent(role, i) == [NoCall EXCEPT !.job = <<role, i>>]
           current == IF iteration = 0 THEN 1 ELSE iteration
<1>0. c \in Steppers /\ c # Operator
  BY OperatorApart DEF StepBegins
<1>1. RunOK' /\ RowsKept
  BY SameRunBegins DEF StepBegins
<1>2. current \in Iterations
  BY Bounds DEF TypeInv, RunOK, Iterations
<1>3. {"PLAN_READY", "PLANNING", "INIT"} \cup Resumable \subseteq Stages
  BY DEF Stages, Resumable
<1>4. CASE AdvanceTo(c, "PLAN_READY") \/ AdvanceTo(c, ResumeTarget)
  <2>1. ResumeTarget \in Stages
    BY <1>3 DEF ResumeTarget
  <2> QED BY <1>0, <1>1, <1>3, <1>4, <2>1, AdvanceToTyped DEF TypeInv
<1>5. CASE GoWith(c, "save", NoCall)
  BY <1>0, <1>1, <1>5, GoWithTyped, Records, FitsOutside DEF TypeInv
<1>6. CASE GoWith(c, "advance", [agent("planner", 0) EXCEPT !.to = "PLANNING"])
  <2> DEFINE k == [agent("planner", 0) EXCEPT !.to = "PLANNING"]
  <2>1. agent("planner", 0) \in CallRecords
    BY JobFacts, Records
  <2>2. k \in CallRecords
    <3> HIDE DEF agent
    <3> QED BY <2>1, <1>3, Records
  <2>3. GoWith(c, "advance", k)
    BY <1>6
  <2> HIDE DEF k
  <2> QED BY <1>0, <1>1, <2>2, <2>3, GoWithTyped, FitsOutside DEF TypeInv
<1>7. ASSUME NEW phase \in {"run", "check"}, NEW job \in Jobs, phase = "check" => job[1] = "evaluator",
             GoWith(c, phase, [NoCall EXCEPT !.job = job])
      PROVE  TypeInv'
  <2> DEFINE k == [NoCall EXCEPT !.job = job]
  <2>1. k \in CallRecords /\ k.job = job
    BY Records
  <2>2. GoWith(c, phase, k)
    BY <1>7
  <2> HIDE DEF k
  <2>3. Fits(phase, k, dispatch') /\ phase \in Phases
    BY <1>7, <2>1 DEF Fits, RowPhases, AgentPhases, Phases
  <2> QED BY <1>0, <1>1, <2>1, <2>2, <2>3, GoWithTyped DEF TypeInv
<1>8. CASE \/ GoWith(c, "run", agent("planner", 0))
           \/ GoWith(c, "run", agent("builder", current))
           \/ GoWith(c, "check", agent("evaluator", current))
  <2>1. /\ <<"planner", 0>> \in Jobs /\ <<"builder", current>> \in Jobs
        /\ <<"evaluator", current>> \in Jobs
    BY <1>2, JobFacts
  <2> HIDE DEF current
  <2> QED BY <1>7, <1>8, <2>1
<1>9. CASE GoWith(c, "enter", [NoCall EXCEPT !.iteration = iteration])
  <2> DEFINE k == [NoCall EXCEPT !.iteration = iteration]
  <2>1. k \in CallRecords
    BY Records DEF TypeInv, RunOK
  <2>2. GoWith(c, "enter", k)
    BY <1>9
  <2> HIDE DEF k
  <2> QED BY <1>0, <1>1, <2>1, <2>2, GoWithTyped, FitsOutside DEF TypeInv
<1> QED BY <1>4, <1>5, <1>6, <1>8, <1>9 DEF StepBegins

\* The stages that the engine moves a run to.
LEMMA StageNames ==
    {"PLANNING", "PLAN_READY", "BUILDING", "EVALUATING", "REVISING", "MERGE_READY", "BLOCKED",
     "NEEDS_REDEFINE", "FAILED_INFRA", "CANCELLED", "MERGED"} \subseteq Stages
BY DEF Stages

\* The phases of the work for an agent.
LEMMA AgentPhaseNames ==
    /\ RowPhases = {"opened", "ready", "poll", "send", "sent"}
    /\ AgentPhases = {"opened", "ready", "poll", "send", "sent", "run", "open", "check", "settle"}
    /\ AgentPhases \subseteq Phases
BY DEF RowPhases, AgentPhases, Phases

\* A call that stays at a dispatch whose row exists.
LEMMA GoToRow ==
    ASSUME TypeInv, RowsKept, NEW c \in Steppers, NEW phase \in RowPhases, Go(c, phase),
           call[c].job \in Jobs, call[c].attempt \in Attempts, dispatch'[Mine(c)] # "none"
    PROVE  CallsOK'
<1>1. c \in Callers /\ c # Operator
  BY OperatorApart DEF Callers
<1>2. GoWith(c, phase, call[c]) /\ call[c] \in CallRecords
  BY <1>1, GoKeepsCall
<1>3. Fits(phase, call[c], dispatch') /\ phase \in Phases
  BY AgentPhaseNames DEF Fits, Mine
<1> QED BY <1>1, <1>2, <1>3, GoWithTyped

\* Every step of a call keeps the types.
LEMMA CallStepsTyped ==
    ASSUME TypeInv, NEW c \in Callers, CallGoesOn(c)
    PROVE  TypeInv'
<1>k. /\ call[c] \in CallRecords /\ Fits(pc[c], call[c], dispatch) /\ RunOK
      /\ call[c].to \in Stages
  BY Records DEF TypeInv, CallsOK
<1>e. pc[c] \notin {"idle", "write"} => c # Operator /\ c \in Steppers
  BY EngineWorks
<1>j. /\ pc[c] \in AgentPhases => call[c].job \in Jobs
      /\ pc[c] \in RowPhases \cup {"open"} => call[c].attempt \in Attempts
      /\ pc[c] \in RowPhases => dispatch[Mine(c)] # "none"
  BY <1>k DEF Fits, Mine
<1>1. CASE AdvanceReads(c)
  <2>1. RunOK' /\ RowsKept
    BY <1>1, SameRun DEF AdvanceReads
  <2>2. CASE Go(c, "write")
    <3>1. GoWith(c, "write", call[c])
      BY <2>2, GoKeepsCall
    <3> QED BY <1>1, <1>k, <1>e, <2>1, <3>1, GoWithTyped, FitsOutside DEF TypeInv, AdvanceReads
  <2>3. CASE Return(c)
    BY <2>1, <2>3, ReturnTyped DEF TypeInv
  <2> QED BY <1>1, <2>2, <2>3 DEF AdvanceReads
<1>2. CASE AdvanceWrites(c)
  <2>1. RunOK' /\ RowsKept
    BY <1>2, <1>k DEF AdvanceWrites, agentVars, history, RunOK, RowsKept
  <2>2. CASE Return(c)
    BY <2>1, <2>2, ReturnTyped DEF TypeInv
  <2>3. CASE call[c].to = "PLANNING" /\ call[c].job # NoJob /\ Go(c, "run")
    <3>1. c # Operator
      BY <1>2, <2>3 DEF TypeInv, CallsOK, AdvanceWrites
    <3>2. GoWith(c, "run", call[c])
      BY <2>3, GoKeepsCall
    <3>3. Fits("run", call[c], dispatch') /\ "run" \in Phases
      BY <1>k, <2>3, Records, AgentPhaseNames DEF Fits
    <3> QED BY <1>k, <2>1, <3>1, <3>2, <3>3, GoWithTyped DEF TypeInv
  <2> QED BY <1>2, <2>2, <2>3 DEF AdvanceWrites
<1>3. CASE SaveContract(c)
  <2>1. RunOK' /\ RowsKept
    BY <1>3, <1>k DEF SaveContract, agentVars, history, RunOK, RowsKept
  <2>2. CASE Go(c, "freeze")
    <3>1. GoWith(c, "freeze", call[c])
      BY <2>2, GoKeepsCall
    <3> QED BY <1>3, <1>k, <1>e, <2>1, <3>1, GoWithTyped, FitsOutside DEF TypeInv, SaveContract
  <2>3. CASE Return(c)
    BY <2>1, <2>3, ReturnTyped DEF TypeInv
  <2> QED BY <1>3, <2>2, <2>3 DEF SaveContract
<1>4. CASE FreezeContract(c)
  <2>1. RunOK' /\ RowsKept
    BY <1>4, <1>k DEF FreezeContract, agentVars, history, RunOK, RowsKept
  <2> QED BY <1>4, <1>e, <2>1, AdvanceToTyped, StageNames DEF TypeInv, FreezeContract
<1>5. CASE EnterBuild(c)
  <2>1. call[c].iteration \in 0..MaxIterations /\ MaxIterations \in Nat
    BY <1>k, Records, Bounds
  <2>2. iteration' \in 0..MaxIterations
    BY <1>5, <1>k, <2>1 DEF EnterBuild, RunOK
  <2>3. RunOK' /\ RowsKept
    BY <1>5, <1>k, <2>2 DEF EnterBuild, agentVars, history, RunOK, RowsKept
  <2>4. AdvanceTo(c, "BLOCKED") \/ AdvanceTo(c, "BUILDING")
    BY <1>5 DEF EnterBuild
  <2> QED BY <1>5, <1>e, <2>3, <2>4, AdvanceToTyped, StageNames DEF TypeInv, EnterBuild
<1>6. CASE RunnerLooks(c)
  <2>1. RunOK' /\ RowsKept /\ dispatch' = dispatch
    BY <1>6, SameRun DEF RunnerLooks, runVars
  <2> DEFINE job == call[c].job
  <2>2. c \in Steppers /\ c # Operator /\ job \in Jobs /\ pc[c] \in AgentPhases
    BY <1>6, <1>e, <1>j, AgentPhaseNames DEF RunnerLooks
  <2>3. /\ Latest(job) \in 0..MaxAttempts
        /\ Latest(job) # 0 => Latest(job) \in Attempts /\ dispatch[<<job, Latest(job)>>] # "none"
    BY <2>2, LatestAttempt
  <2>4. ASSUME NEW a \in Attempts, NEW phase \in {"open", "ready", "poll"},
               phase # "open" => dispatch[<<job, a>>] # "none",
               GoWith(c, phase, [call[c] EXCEPT !.attempt = a])
        PROVE  TypeInv'
    <3> DEFINE k == [call[c] EXCEPT !.attempt = a]
    <3>1. k \in CallRecords /\ k.attempt = a /\ k.job = job
      BY <1>k, Bounds, Records
    <3>2. GoWith(c, phase, k)
      BY <2>4
    <3> HIDE DEF k, job
    <3>3. Fits(phase, k, dispatch') /\ phase \in Phases
      BY <2>1, <2>2, <2>4, <3>1, AgentPhaseNames DEF Fits
    <3> QED BY <2>1, <2>2, <3>1, <3>2, <3>3, GoWithTyped DEF TypeInv
  <2>5. CASE Latest(job) < MaxAttempts /\ GoWith(c, "open", [call[c] EXCEPT !.attempt = Latest(job) + 1])
    <3>1. Latest(job) + 1 \in Attempts
      BY <2>3, <2>5, Bounds DEF Attempts
    <3> QED BY <2>4, <2>5, <3>1
  <2>6. CASE LatestState(job) = "awaiting_session" /\ GoWith(c, "ready", [call[c] EXCEPT !.attempt = Latest(job)])
    BY <2>3, <2>4, <2>6 DEF LatestState
  <2>7. CASE LatestState(job) = "dispatching" /\ GoWith(c, "poll", [call[c] EXCEPT !.attempt = Latest(job)])
    BY <2>3, <2>4, <2>7 DEF LatestState
  <2>8. CASE LatestState(job) = "completed" /\ Use(c, artifact[<<job, Latest(job)>>])
    <3>1. Latest(job) \in Attempts /\ dispatch[<<job, Latest(job)>>] = "completed"
      BY <2>3, <2>8 DEF LatestState
    <3>2. <<job, Latest(job)>> \in Dispatches
      BY <2>2, <3>1, JobFacts
    <3>3. artifact[<<job, Latest(job)>>] \in Answers(<<job, Latest(job)>>[1])
      BY <1>k, <3>1, <3>2 DEF RunOK
    <3>4. artifact[<<job, Latest(job)>>] \in Answers(call[c].job)
      BY <3>3
    <3> QED BY <2>1, <2>2, <2>8, <3>4, UseTyped DEF TypeInv
  <2> QED BY <1>6, <2>5, <2>6, <2>7, <2>8 DEF RunnerLooks
<1>7. CASE RunnerFails(c)
  <2>1. RunOK' /\ RowsKept
    BY <1>7, SameRun DEF RunnerFails
  <2> QED BY <1>7, <1>e, <2>1, FailsTyped DEF TypeInv, RunnerFails
<1>8. CASE OpenDispatch(c)
  <2>1. c \in Steppers /\ call[c].job \in Jobs /\ call[c].attempt \in Attempts /\ Mine(c) \in Dispatches
    BY <1>8, <1>e, <1>j, AgentPhaseNames, JobFacts DEF OpenDispatch, Mine
  <2>2. CASE dispatch[Mine(c)] # "none" /\ UNCHANGED dispatch /\ Go(c, "poll")
    <3>1. RunOK' /\ RowsKept
      BY <1>8, <1>k, <2>2 DEF OpenDispatch, agentVars, history, RunOK, RowsKept
    <3> QED BY <2>1, <2>2, <3>1, GoToRow, AgentPhaseNames DEF TypeInv
  <2>3. CASE dispatch' = [dispatch EXCEPT ![Mine(c)] = "dispatching"] /\ Go(c, "opened")
    <3>1. dispatch' \in [Dispatches -> DispatchStates \cup {"none"}] /\ RowsKept /\ dispatch'[Mine(c)] # "none"
      BY <1>k, <2>1, <2>3 DEF RunOK, RowsKept, DispatchStates, Open
    <3>2. \A d \in Dispatches : dispatch'[d] = "completed" => dispatch[d] = "completed"
      BY <1>k, <2>1, <2>3 DEF RunOK
    <3>3. UNCHANGED <<mode, stage, resumeStage, iteration, infraCount, contract, verdict, delivered, artifact,
                      givenUp, passed, overlapped, faults>>
      BY <1>8 DEF OpenDispatch, agentVars, history
    <3>4. /\ delivered' \subseteq {d \in Dispatches : d[1][1] = "builder" /\ dispatch'[d] # "none"}
          /\ \A d \in Dispatches : dispatch'[d] = "completed" => artifact'[d] \in Answers(d[1])
      BY <1>k, <3>1, <3>2, <3>3 DEF RunOK, RowsKept
    <3>5. RunOK'
      BY <1>k, <3>1, <3>3, <3>4 DEF RunOK
    <3> QED BY <2>1, <2>3, <3>1, <3>5, GoToRow, AgentPhaseNames DEF TypeInv
  <2> QED BY <1>8, <2>2, <2>3 DEF OpenDispatch
<1>9. CASE SessionNotReady(c) \/ PollPending(c)
  BY <1>9, SameRun, ReturnTyped DEF TypeInv, SessionNotReady, PollPending
<1>10. CASE SessionReady(c)
  <2>1. RunOK' /\ RowsKept /\ dispatch' = dispatch
    BY <1>10, SameRun DEF SessionReady, runVars
  <2> QED BY <1>10, <1>e, <1>j, <2>1, GoToRow, AgentPhaseNames DEF TypeInv, SessionReady
<1>11. CASE NoDirectory(c) \/ SessionDead(c) \/ SendFails(c) \/ PollFails(c)
  <2>1. pc[c] \in RowPhases /\ Resolve(c, "failed") /\ Fails(c)
    BY <1>11, AgentPhaseNames DEF NoDirectory, SessionDead, SendFails, PollFails
  <2> QED BY <1>e, <2>1, ResolveTyped, FailsTyped, AgentPhaseNames DEF TypeInv
<1>12. CASE SessionAsksHuman(c)
  <2>1. pc[c] \in RowPhases /\ Resolve(c, "failed") /\ AdvanceTo(c, "BLOCKED")
    BY <1>12, AgentPhaseNames DEF SessionAsksHuman
  <2> QED BY <1>e, <2>1, ResolveTyped, AdvanceToTyped, StageNames, AgentPhaseNames DEF TypeInv
<1>13. CASE SendHeldOpen(c) \/ AwaitSession(c)
  <2>1. PICK s \in {"dispatching", "awaiting_session"} : pc[c] \in RowPhases /\ Resolve(c, s) /\ Return(c)
    BY <1>13, AgentPhaseNames DEF SendHeldOpen, AwaitSession
  <2> QED BY <2>1, ResolveTyped, ReturnTyped DEF TypeInv
<1>14. CASE Send(c)
  <2>1. /\ c \in Steppers /\ call[c].job \in Jobs /\ call[c].attempt \in Attempts
        /\ Mine(c) \in Dispatches /\ dispatch[Mine(c)] # "none"
    BY <1>14, <1>e, <1>j, AgentPhaseNames, JobFacts DEF Send, Mine
  <2>3. /\ UNCHANGED <<mode, stage, resumeStage, iteration, infraCount, contract, verdict, dispatch, artifact,
                       givenUp, passed, overlapped, faults>>
        /\ delivered' = delivered \/ (call[c].job[1] = "builder" /\ delivered' = delivered \cup {Mine(c)})
    BY <1>14 DEF Send, runVars, history
  <2>4. Mine(c)[1] = call[c].job
    BY DEF Mine
  <2>5. delivered' \subseteq {d \in Dispatches : d[1][1] = "builder" /\ dispatch'[d] # "none"}
    BY <1>k, <2>1, <2>3, <2>4 DEF RunOK
  <2>2. RunOK' /\ RowsKept /\ dispatch' = dispatch
    BY <1>k, <2>3, <2>5 DEF RunOK, RowsKept
  <2> QED BY <1>14, <2>1, <2>2, GoToRow, AgentPhaseNames DEF TypeInv, Send
<1>15. CASE PollCompleted(c)
  <2>1. /\ c \in Steppers /\ call[c].job \in Jobs /\ call[c].attempt \in Attempts
        /\ Mine(c) \in Dispatches /\ pc[c] \in AgentPhases /\ Mine(c)[1] = call[c].job
    BY <1>15, <1>e, <1>j, AgentPhaseNames, JobFacts DEF PollCompleted, Mine
  <2>2. PICK answer \in Answers(call[c].job) :
          artifact' = [artifact EXCEPT ![Mine(c)] = answer] /\ Use(c, answer)
    BY <1>15 DEF PollCompleted
  <2>3. dispatch' = [dispatch EXCEPT ![Mine(c)] = "completed"] /\ delivered' = delivered
    BY <1>15 DEF PollCompleted
  <2>4. answer \in AllAnswers
    BY <2>1, AnswerFacts
  <2>5. /\ dispatch' \in [Dispatches -> DispatchStates \cup {"none"}] /\ RowsKept
        /\ artifact' \in [Dispatches -> AllAnswers \cup {"none"}]
    BY <1>k, <2>1, <2>2, <2>3, <2>4 DEF RunOK, RowsKept, DispatchStates
  <2>6. ASSUME NEW d \in Dispatches, dispatch'[d] = "completed" PROVE artifact'[d] \in Answers(d[1])
    <3>1. CASE d = Mine(c)
      BY <1>k, <2>1, <2>2, <3>1 DEF RunOK
    <3>2. CASE d # Mine(c)
      BY <1>k, <2>1, <2>2, <2>3, <2>6, <3>2 DEF RunOK
    <3> QED BY <3>1, <3>2
  <2>7. delivered' \subseteq {d \in Dispatches : d[1][1] = "builder" /\ dispatch'[d] # "none"}
    BY <1>k, <2>3, <2>5 DEF RunOK, RowsKept
  <2>8. UNCHANGED <<mode, stage, resumeStage, iteration, infraCount, contract, verdict, givenUp, passed,
                    overlapped, faults>>
    BY <1>15 DEF PollCompleted, history
  <2>9. RunOK'
    BY <1>k, <2>5, <2>6, <2>7, <2>8 DEF RunOK
  <2> QED BY <2>1, <2>2, <2>5, <2>9, UseTyped DEF TypeInv
<1>16. CASE ChecksDecide(c)
  <2>1. RunOK' /\ RowsKept
    BY <1>16, SameRun DEF ChecksDecide
  <2>2. PICK answer \in Verdicts : GoWith(c, "settle", [call[c] EXCEPT !.answer = answer])
    BY <1>16, AnswerFacts DEF ChecksDecide
  <2>3. c \in Steppers /\ c # Operator /\ call[c].job \in Jobs /\ call[c].job[1] = "evaluator"
    BY <1>16, <1>e, <1>j, <1>k, AgentPhaseNames DEF ChecksDecide, Fits
  <2> DEFINE k == [call[c] EXCEPT !.answer = answer]
  <2>4. k \in CallRecords /\ k.answer = answer /\ k.job = call[c].job
    BY <1>k, Records
  <2>5. GoWith(c, "settle", k)
    BY <2>2
  <2> HIDE DEF k
  <2>6. Fits("settle", k, dispatch') /\ "settle" \in Phases
    BY <2>3, <2>4, AgentPhaseNames DEF Fits
  <2> QED BY <2>1, <2>3, <2>4, <2>5, <2>6, GoWithTyped DEF TypeInv
<1>17. CASE ChecksNeedEvaluator(c)
  <2>1. RunOK' /\ RowsKept
    BY <1>17, SameRun DEF ChecksNeedEvaluator
  <2>2. GoWith(c, "run", call[c]) /\ pc[c] = "check"
    BY <1>17, GoKeepsCall DEF ChecksNeedEvaluator
  <2>3. Fits("run", call[c], dispatch') /\ "run" \in Phases
    BY <1>j, <2>2, AgentPhaseNames DEF Fits
  <2> QED BY <1>k, <1>e, <2>1, <2>2, <2>3, GoWithTyped DEF TypeInv
<1>18. CASE Settle(c)
  <2>1. /\ call[c].job[2] \in Iterations /\ call[c].answer \in Verdicts /\ c \in Steppers
    BY <1>18, <1>e, <1>j, <1>k, AgentPhaseNames, JobFacts DEF Settle, Fits
  <2>2. verdict' \in [Iterations -> Verdicts \cup {"none"}]
    BY <1>18, <1>k, <2>1 DEF Settle, Recorded, RunOK
  <2>5. passed' \subseteq Iterations
    BY <1>18, <1>k DEF Settle, RunOK
  <2>3. RunOK' /\ RowsKept
    BY <1>18, <1>k, <2>2, <2>5 DEF Settle, agentVars, RunOK, RowsKept
  <2>4. \E to \in {"MERGE_READY", "NEEDS_REDEFINE", "BLOCKED", "REVISING"} : AdvanceTo(c, to)
    BY <1>18 DEF Settle
  <2> QED BY <2>1, <2>3, <2>4, AdvanceToTyped, StageNames DEF TypeInv
<1>19. CASE InfraFailure(c)
  <2>1. RunOK' /\ RowsKept
    BY <1>19, <1>k DEF InfraFailure, agentVars, history, RunOK, RowsKept
  <2>2. AdvanceTo(c, "BLOCKED") \/ AdvanceTo(c, "FAILED_INFRA")
    BY <1>19 DEF InfraFailure
  <2> QED BY <1>19, <1>e, <2>1, <2>2, AdvanceToTyped, StageNames DEF TypeInv, InfraFailure
<1> QED
  BY <1>1, <1>2, <1>3, <1>4, <1>5, <1>6, <1>7, <1>8, <1>9, <1>10, <1>11, <1>12, <1>13, <1>14,
     <1>15, <1>16, <1>17, <1>18, <1>19 DEF CallGoesOn

\* Every step of the system keeps the types.
LEMMA NextTyped == TypeInv /\ [HarnessNext]_vars => TypeInv'
<1> SUFFICES ASSUME TypeInv, [HarnessNext]_vars PROVE TypeInv'
  OBVIOUS
<1>1. ASSUME NEW c \in Callers, CallDies(c) PROVE TypeInv'
  <2>1. faults' \in 0..MaxFaults
    BY <1>1, Bounds DEF CallDies, TypeInv, RunOK
  <2>2. RunOK' /\ RowsKept
    BY <1>1, <2>1 DEF CallDies, TypeInv, RunOK, RowsKept, runVars, agentVars, history
  <2> QED BY <1>1, <2>2, ReturnTyped DEF CallDies, TypeInv
<1>2. CASE Cancel \/ ApproveMerge
  <2>1. PICK to \in {"CANCELLED", "MERGED"} : Operates(to)
    BY <1>2 DEF Cancel, ApproveMerge
  <2>2. RunOK' /\ RowsKept /\ dispatch' = dispatch
    BY <2>1, SameRunBegins DEF Operates, Callers
  <2> DEFINE k == [NoCall EXCEPT !.to = to]
  <2>3. k \in CallRecords /\ k.to = to
    BY StageNames, Records
  <2>4. GoWith(Operator, "write", k) /\ Operator \in Callers
    BY <2>1 DEF Operates, Callers
  <2> HIDE DEF k
  <2>5. /\ pc' \in [Callers -> Phases] /\ call' \in [Callers -> CallRecords]
        /\ pc'[Operator] = "write" /\ call'[Operator] = k
        /\ \A d \in Callers \ {Operator} : pc'[d] = pc[d] /\ call'[d] = call[d]
    BY <2>3, <2>4, FitsOutside DEF GoWith, TypeInv, CallsOK
  <2>6. ASSUME NEW d \in Callers PROVE Fits(pc'[d], call'[d], dispatch')
    <3>1. CASE d = Operator
      BY <2>5, <3>1, FitsOutside
    <3>2. CASE d # Operator
      BY <2>2, <2>5, <3>2 DEF TypeInv, CallsOK
    <3> QED BY <3>1, <3>2
  <2>7. CallsOK'
    BY <2>3, <2>5, <2>6 DEF CallsOK
  <2> QED BY <2>2, <2>7 DEF TypeInv
<1>3. CASE UNCHANGED vars
  BY <1>3 DEF vars, runVars, agentVars, history, TypeInv, RunOK, CallsOK
<1> QED BY <1>1, <1>2, <1>3, StepBeginsTyped, CallStepsTyped DEF HarnessNext

\* HarnessTypeOK, for any number of callers that step one run at the same time:
\* every dispatch that is sent or resolved has a row, and every verdict that is
\* recorded is one of an evaluator.
THEOREM HarnessTypeCorrect == HarnessSpec => []HarnessTypeOK
BY TypesAreTypes, InitTyped, NextTyped, PTL DEF HarnessSpec

-------------------------------------------------------------------------------
\* The answer of the builder of some iteration up to i was read.
BuiltBy(i) ==
    \E j \in Iterations, a \in Attempts : j =< i /\ artifact[<<<<"builder", j>>, a>>] = "built"

\* What it takes to move a run to a stage.
Ready(to) ==
    /\ to = "BUILDING" => iteration \in Iterations
    /\ to = "EVALUATING" => iteration \in Iterations /\ BuiltBy(iteration)
    /\ to \in {"MERGE_READY", "MERGED"} => passed # {}

\* What a call relies on that is never taken back.
Heeds(phase, k) ==
    /\ phase = "open" => \A a \in Attempts : a < k.attempt => <<k.job, a>> \in givenUp
    /\ phase \in AgentPhases /\ k.job[1] = "builder" => k.job[2] =< iteration
    /\ phase \in AgentPhases /\ k.job[1] = "evaluator" => BuiltBy(k.job[2])
    /\ phase \in {"advance", "write"} =>
         k.job \in {NoJob, <<"planner", 0>>} /\ Ready(k.to)

\* A row is made after all the earlier ones were given up, and a row that says
\* failed was.
AttemptsInv ==
    /\ \A d \in Dispatches : dispatch[d] = "failed" => d \in givenUp
    /\ \A job \in Jobs : \A a, b \in Attempts :
         a < b /\ dispatch[<<job, b>>] # "none" => <<job, a>> \in givenUp

\* What it takes to have got to a stage, whoever wrote it.
ReachedInv ==
    /\ stage \in Resumable => resumeStage = stage
    /\ resumeStage = "BUILDING" => iteration \in Iterations
    /\ resumeStage = "EVALUATING" => iteration \in Iterations /\ BuiltBy(iteration)
    /\ resumeStage = "MERGE_READY" \/ stage = "MERGED" => passed # {}
    /\ \A i \in Iterations : verdict[i] # "none" => BuiltBy(i)

AnyInv ==
    /\ TypeInv /\ AttemptsInv /\ ReachedInv
    /\ \A c \in Callers : Heeds(pc[c], call[c])

\* The evidence that is never taken back.
Grows ==
    /\ givenUp \subseteq givenUp' /\ passed \subseteq passed'
    /\ iteration \in Int /\ iteration' \in 0..MaxIterations /\ iteration =< iteration'
    /\ \A d \in Dispatches : artifact[d] = "built" => artifact'[d] = "built"

\* A builder's answer stays read, also for every later iteration.
LEMMA BuiltByGrows ==
    ASSUME Grows, NEW i \in Int, NEW n \in Int, i =< n, BuiltBy(i)
    PROVE  BuiltBy(n)'
<1>1. PICK j \in Iterations, a \in Attempts : j =< i /\ artifact[<<<<"builder", j>>, a>>] = "built"
  BY DEF BuiltBy
<1>2. artifact'[<<<<"builder", j>>, a>>] = "built"
  BY <1>1, JobFacts DEF Grows
<1>3. j \in Int
  BY Bounds
<1>4. j =< n
  BY <1>1, <1>3
<1> QED BY <1>2, <1>4 DEF BuiltBy

\* An iteration that has been reached stays reached.
LEMMA IterationStays ==
    ASSUME Grows, iteration \in Iterations
    PROVE  iteration' \in Iterations
BY Bounds DEF Grows, Iterations

\* So does the one of a builder's answer.
LEMMA CurrentBuiltStays ==
    ASSUME Grows, iteration \in Iterations, BuiltBy(iteration)
    PROVE  iteration' \in Iterations /\ BuiltBy(iteration)'
<1>1. iteration' \in Iterations
  BY IterationStays
<1>2. iteration \in Int /\ iteration' \in Int /\ iteration =< iteration'
  BY Bounds DEF Grows
<1>3. PICK n : n = iteration'
  OBVIOUS
<1>4. BuiltBy(n)'
  BY <1>2, <1>3, BuiltByGrows
<1> QED BY <1>1, <1>3, <1>4 DEF BuiltBy

\* What a move takes stays there.
LEMMA ReadyStays ==
    ASSUME Grows, NEW to, Ready(to)
    PROVE  Ready(to)'
<1>1. passed # {} => passed' # {}
  BY DEF Grows
<1> QED BY <1>1, IterationStays, CurrentBuiltStays DEF Ready

\* What a call relies on stays there.
LEMMA HeedsStays ==
    ASSUME Grows, NEW phase, NEW k, Heeds(phase, k), phase \in AgentPhases => k.job \in Jobs
    PROVE  Heeds(phase, k)'
<1>1. phase = "open" => \A a \in Attempts : a < k.attempt => <<k.job, a>> \in givenUp'
  BY DEF Heeds, Grows
<1>2. ASSUME phase \in AgentPhases, k.job[1] = "builder" PROVE k.job[2] =< iteration'
  <2>1. k.job[2] \in Int
    <3>1. PICK i \in Iterations \cup {0} : k.job[2] = i
      BY <1>2, JobFacts
    <3> QED BY <3>1, Bounds
  <2>2. k.job[2] =< iteration
    BY <1>2 DEF Heeds
  <2>3. iteration \in Int /\ iteration' \in Int /\ iteration =< iteration'
    BY Bounds DEF Grows
  <2> QED BY <2>1, <2>2, <2>3
<1>3. ASSUME phase \in AgentPhases, k.job[1] = "evaluator" PROVE BuiltBy(k.job[2])'
  <2>1. PICK i : i = k.job[2]
    OBVIOUS
  <2>2. i \in Iterations
    BY <1>3, <2>1, JobFacts
  <2>3. i \in Int
    BY <2>2, Bounds
  <2>4. BuiltBy(i)
    BY <1>3, <2>1 DEF Heeds, BuiltBy
  <2>5. BuiltBy(i)'
    BY <2>3, <2>4, BuiltByGrows
  <2> QED BY <2>1, <2>5 DEF BuiltBy
<1>4. phase \in {"advance", "write"} => k.job \in {NoJob, <<"planner", 0>>} /\ Ready(k.to)'
  <2>1. PICK to : to = k.to
    OBVIOUS
  <2>2. Ready(to) => Ready(to)'
    BY ReadyStays
  <2> QED BY <2>1, <2>2 DEF Heeds, Ready, BuiltBy
<1> QED BY <1>1, <1>2, <1>3, <1>4 DEF Heeds

\* The calls that do not move, and the one that does.
LEMMA OthersHeed ==
    ASSUME AnyInv, Grows, NEW c \in Callers, NEW phase, NEW k, GoWith(c, phase, k), Heeds(phase, k)'
    PROVE  \A d \in Callers : Heeds(pc[d], call[d])'
<1> SUFFICES ASSUME NEW d \in Callers PROVE Heeds(pc[d], call[d])'
  OBVIOUS
<1>t. pc \in [Callers -> Phases] /\ call \in [Callers -> CallRecords] /\ Fits(pc[d], call[d], dispatch)
  BY DEF AnyInv, TypeInv, CallsOK
<1>1. CASE d = c
  <2>1. pc'[d] = phase /\ call'[d] = k
    BY <1>t, <1>1 DEF GoWith
  <2> QED BY <2>1 DEF Heeds, BuiltBy
<1>2. CASE d # c
  <2>1. pc'[d] = pc[d] /\ call'[d] = call[d]
    BY <1>t, <1>2 DEF GoWith
  <2>2. PICK p, r : p = pc[d] /\ r = call[d]
    OBVIOUS
  <2>3. Heeds(p, r)'
    BY <1>t, <2>2, HeedsStays DEF AnyInv, Fits
  <2> QED BY <2>1, <2>2, <2>3 DEF Heeds, BuiltBy
<1> QED BY <1>1, <1>2

\* The phases in which nothing is relied on.
LEMMA HeedsNothing ==
    ASSUME NEW phase \in {"idle", "save", "freeze", "enter", "infra"}, NEW k
    PROVE  Heeds(phase, k)'
BY AgentPhaseNames DEF Heeds

\* The call that is about to move the run.
LEMMA AdvanceHeeds ==
    ASSUME NEW c, NEW to \in Stages, AdvanceTo(c, to), Ready(to)'
    PROVE  \E k : GoWith(c, "advance", k) /\ Heeds("advance", k)'
<1>1. PICK k : k = [NoCall EXCEPT !.to = to]
  OBVIOUS
<1>2. k.to = to /\ k.job = NoJob /\ GoWith(c, "advance", k)
  BY <1>1, Records DEF AdvanceTo
<1>3. Heeds("advance", k)'
  BY <1>2, AgentPhaseNames DEF Heeds, Ready, BuiltBy
<1> QED BY <1>2, <1>3

\* A step that writes nothing leaves all the evidence there.
LEMMA SameGrows ==
    ASSUME AnyInv, UNCHANGED <<givenUp, passed, iteration, artifact>>
    PROVE  Grows
BY Bounds DEF AnyInv, TypeInv, RunOK, Grows

\* A step of a call that writes no row, stage or verdict.
LEMMA PlainStep ==
    ASSUME AnyInv, TypeInv', Grows, NEW c \in Callers, NEW phase, NEW k, GoWith(c, phase, k),
           Heeds(phase, k)', UNCHANGED <<stage, resumeStage, verdict, dispatch>>
    PROVE  AnyInv'
<1>1. AttemptsInv'
  BY DEF AnyInv, AttemptsInv, Grows
<1>2. ASSUME NEW i \in Iterations, verdict[i] # "none" PROVE BuiltBy(i)'
  <2>1. i \in Int /\ BuiltBy(i)
    BY <1>2, Bounds DEF AnyInv, ReachedInv
  <2> QED BY <2>1, BuiltByGrows
<1>3. /\ resumeStage = "BUILDING" => iteration' \in Iterations
      /\ resumeStage = "EVALUATING" => iteration' \in Iterations /\ BuiltBy(iteration)'
  BY IterationStays, CurrentBuiltStays DEF AnyInv, ReachedInv
<1>4. passed # {} => passed' # {}
  BY DEF Grows
<1>5. ReachedInv'
  BY <1>2, <1>3, <1>4 DEF AnyInv, ReachedInv, BuiltBy
<1> QED BY <1>1, <1>5, OthersHeed DEF AnyInv

\* A call that ends, fails or moves the run, as such a step.
LEMMA PlainEnd ==
    ASSUME AnyInv, TypeInv', Grows, NEW c \in Callers,
           \/ Return(c) \/ Fails(c)
           \/ \E to \in Stages : AdvanceTo(c, to) /\ Ready(to)',
           UNCHANGED <<stage, resumeStage, verdict, dispatch>>
    PROVE  AnyInv'
<1>1. PICK phase, k : GoWith(c, phase, k) /\ Heeds(phase, k)'
  BY HeedsNothing, AdvanceHeeds DEF Return, Fails
<1> QED BY <1>1, PlainStep

\* A row is written by the call that is at it: a new one after the earlier ones
\* were given up, and failed only as it is given up.
LEMMA AnyRow ==
    ASSUME AnyInv, TypeInv', Grows, NEW c \in Callers, NEW phase, NEW k, GoWith(c, phase, k),
           Heeds(phase, k)', UNCHANGED <<stage, resumeStage, verdict>>,
           pc[c] \in RowPhases \cup {"open"}, NEW s, dispatch' = [dispatch EXCEPT ![Mine(c)] = s],
           s = "failed" => Mine(c) \in givenUp'
    PROVE  AnyInv'
<1>0. /\ call[c].job \in Jobs /\ call[c].attempt \in Attempts
      /\ Mine(c) = <<call[c].job, call[c].attempt>>
      /\ pc[c] \in RowPhases => dispatch[Mine(c)] # "none"
      /\ pc[c] = "open" => \A a \in Attempts : a < call[c].attempt => <<call[c].job, a>> \in givenUp
      /\ dispatch \in [Dispatches -> DispatchStates \cup {"none"}]
  BY AgentPhaseNames DEF AnyInv, TypeInv, CallsOK, RunOK, Fits, Mine, Heeds
<1>1. \A d \in Dispatches : dispatch'[d] = "failed" => d \in givenUp'
  BY <1>0 DEF AnyInv, AttemptsInv, Grows
<1>2. ASSUME NEW job \in Jobs, NEW a \in Attempts, NEW b \in Attempts, a < b, dispatch'[<<job, b>>] # "none"
      PROVE  <<job, a>> \in givenUp'
  <2>1. <<job, b>> \in Dispatches
    BY JobFacts
  <2>2. CASE dispatch[<<job, b>>] # "none"
    BY <1>2, <2>2 DEF AnyInv, AttemptsInv, Grows
  <2>3. CASE dispatch[<<job, b>>] = "none"
    <3>1. <<job, b>> = Mine(c)
      BY <1>0, <1>2, <2>1, <2>3
    <3>2. job = call[c].job /\ b = call[c].attempt
      BY <1>0, <3>1
    <3>3. pc[c] = "open"
      BY <1>0, <2>3, <3>1
    <3> QED BY <1>0, <1>2, <3>2, <3>3 DEF Grows
  <2> QED BY <2>2, <2>3
<1>3. AttemptsInv'
  BY <1>1, <1>2 DEF AttemptsInv
<1>4. ASSUME NEW i \in Iterations, verdict[i] # "none" PROVE BuiltBy(i)'
  <2>1. i \in Int /\ BuiltBy(i)
    BY <1>4, Bounds DEF AnyInv, ReachedInv
  <2> QED BY <2>1, BuiltByGrows
<1>5. /\ resumeStage = "BUILDING" => iteration' \in Iterations
      /\ resumeStage = "EVALUATING" => iteration' \in Iterations /\ BuiltBy(iteration)'
  BY IterationStays, CurrentBuiltStays DEF AnyInv, ReachedInv
<1>6. passed # {} => passed' # {}
  BY DEF Grows
<1>7. ReachedInv'
  BY <1>4, <1>5, <1>6 DEF AnyInv, ReachedInv, BuiltBy
<1> QED BY <1>3, <1>7, OthersHeed DEF AnyInv

\* What the engine does with an answer.
LEMMA UseHeeds ==
    ASSUME AnyInv, Grows, NEW c \in Callers, pc[c] \in AgentPhases, NEW answer \in Answers(call[c].job),
           Use(c, answer), UNCHANGED iteration, NEW a \in Attempts,
           artifact'[<<call[c].job, a>>] = answer
    PROVE  \E phase, k : GoWith(c, phase, k) /\ Heeds(phase, k)'
<1>0. call[c] \in CallRecords /\ call[c].job \in Jobs /\ Heeds(pc[c], call[c])
  BY DEF AnyInv, TypeInv, CallsOK, Fits
<1>v. Verdicts = {"pass", "fail", "blocked", "needs_redefine"}
  BY AnswerFacts
<1>1. CASE answer \in {"contract", "malformed"}
  BY <1>1, <1>v, HeedsNothing DEF Use, Fails
<1>2. CASE answer = "insufficient"
  <2>1. AdvanceTo(c, "NEEDS_REDEFINE")
    BY <1>2, <1>v DEF Use
  <2> QED BY <2>1, StageNames, AdvanceHeeds DEF Ready
<1>3. CASE answer = "built"
  <2>1. AdvanceTo(c, "EVALUATING")
    BY <1>3, <1>v DEF Use
  <2>2. PICK i \in Iterations : call[c].job = <<"builder", i>>
    BY <1>0, <1>3, <1>v, AnswerRoles
  <2>3. i =< iteration
    BY <1>0, <2>2 DEF Heeds
  <2>4. iteration \in 0..MaxIterations
    BY DEF AnyInv, TypeInv, RunOK
  <2>5. iteration \in Iterations
    BY <2>3, <2>4, Bounds DEF Iterations
  <2>6. BuiltBy(iteration)'
    BY <1>3, <2>2, <2>3 DEF BuiltBy
  <2>7. Ready("EVALUATING")'
    BY <2>5, <2>6 DEF Ready
  <2> QED BY <2>1, <2>7, StageNames, AdvanceHeeds
<1>4. CASE answer \in Verdicts
  <2>0. PICK k : k = [call[c] EXCEPT !.answer = answer, !.attempt = 0]
    OBVIOUS
  <2>1. GoWith(c, "settle", k)
    BY <1>4, <1>v, <2>0 DEF Use
  <2>2. k.job = call[c].job
    BY <1>0, <1>4, <2>0, SettleRecords
  <2>3. PICK p, q : p = pc[c] /\ q = call[c]
    OBVIOUS
  <2>4. Heeds(p, q)'
    BY <1>0, <2>3, HeedsStays
  <2>5. k.job[1] = "evaluator" /\ q.job = k.job
    BY <1>0, <1>4, <1>v, <2>2, <2>3, AnswerRoles
  <2>6. BuiltBy(k.job[2])'
    BY <2>3, <2>4, <2>5 DEF Heeds, BuiltBy
  <2>7. Heeds("settle", k)'
    BY <2>5, <2>6, AgentPhaseNames DEF Heeds, BuiltBy
  <2> QED BY <2>1, <2>7
<1> QED BY <1>0, <1>1, <1>2, <1>3, <1>4, AnswerRoles

-------------------------------------------------------------------------------
\* AnyInv holds of a new run.
LEMMA AnyInit == HarnessInit => AnyInv
<1> SUFFICES ASSUME HarnessInit PROVE AnyInv
  OBVIOUS
<1>1. TypeInv
  BY InitTyped
<1>2. \A job \in Jobs, a \in Attempts : dispatch[<<job, a>>] = "none"
  BY JobFacts DEF HarnessInit
<1>3. AttemptsInv
  BY <1>2 DEF HarnessInit, AttemptsInv
<1>4. ReachedInv
  BY DEF HarnessInit, ReachedInv, Resumable
<1>5. \A c \in Callers : Heeds(pc[c], call[c])
  BY AgentPhaseNames DEF HarnessInit, Heeds
<1> QED BY <1>1, <1>3, <1>4, <1>5 DEF AnyInv

\* A step of the engine begins with what its stage has reached.
LEMMA StepBeginsAny ==
    ASSUME AnyInv, TypeInv', NEW c \in Callers, StepBegins(c)
    PROVE  AnyInv'
<1> DEFINE agent(role, i) == [NoCall EXCEPT !.job = <<role, i>>]
           current == IF iteration = 0 THEN 1 ELSE iteration
<1>0. UNCHANGED <<stage, resumeStage, iteration, verdict, dispatch, artifact, givenUp, passed>>
  BY DEF StepBegins, runVars, agentVars
<1>g. Grows
  BY <1>0, SameGrows
<1>1. /\ stage \in Resumable => resumeStage = stage
      /\ resumeStage = "BUILDING" => iteration \in Iterations
      /\ resumeStage = "EVALUATING" => iteration \in Iterations /\ BuiltBy(iteration)
      /\ resumeStage = "MERGE_READY" => passed # {}
  BY DEF AnyInv, ReachedInv
<1>2. CASE AdvanceTo(c, "PLAN_READY") \/ AdvanceTo(c, ResumeTarget)
  <2>1. PICK to \in {"PLAN_READY", ResumeTarget} : AdvanceTo(c, to)
    BY <1>2
  <2>2. to = "PLAN_READY" \/ to = resumeStage
    BY <2>1 DEF ResumeTarget
  <2>3. resumeStage # "MERGED"
    BY DEF AnyInv, TypeInv, RunOK, Resumable
  <2>4. Ready(to)'
    BY <1>0, <1>1, <2>2, <2>3 DEF Ready, BuiltBy
  <2>5. to \in Stages
    BY <2>2, StageNames DEF AnyInv, TypeInv, RunOK, Resumable, Stages
  <2> QED BY <1>0, <1>g, <2>1, <2>4, <2>5, PlainEnd
<1>3. CASE GoWith(c, "save", NoCall) \/ GoWith(c, "enter", [NoCall EXCEPT !.iteration = iteration])
  BY <1>0, <1>g, <1>3, HeedsNothing, PlainStep
<1>4. CASE GoWith(c, "advance", [agent("planner", 0) EXCEPT !.to = "PLANNING"])
  <2>0. PICK k : k = [agent("planner", 0) EXCEPT !.to = "PLANNING"]
    OBVIOUS
  <2>1. agent("planner", 0) \in CallRecords /\ agent("planner", 0).job = <<"planner", 0>>
    BY JobFacts, Records
  <2>2. k.to = "PLANNING" /\ k.job = <<"planner", 0>>
    <3> HIDE DEF agent
    <3> QED BY <2>0, <2>1, StageNames, Records
  <2>3. Heeds("advance", k)'
    BY <2>2, AgentPhaseNames DEF Heeds, Ready
  <2>4. GoWith(c, "advance", k)
    BY <1>4, <2>0
  <2> QED BY <1>0, <1>g, <2>3, <2>4, PlainStep
<1>5. ASSUME NEW phase \in {"run", "check"}, NEW job \in Jobs, GoWith(c, phase, [NoCall EXCEPT !.job = job]),
             \/ job = <<"planner", 0>>
             \/ iteration \in Iterations /\ job = <<"builder", iteration>>
             \/ iteration \in Iterations /\ BuiltBy(iteration) /\ job = <<"evaluator", iteration>>
      PROVE  AnyInv'
  <2>0. PICK k : k = [NoCall EXCEPT !.job = job]
    OBVIOUS
  <2>1. k.job = job /\ GoWith(c, phase, k)
    BY <1>5, <2>0, Records
  <2>2. iteration \in Iterations => iteration =< iteration
    BY Bounds
  <2>3. /\ k.job[1] = "builder" => k.job[2] =< iteration
        /\ k.job[1] = "evaluator" => BuiltBy(k.job[2])
    BY <1>5, <2>1, <2>2
  <2>4. Heeds(phase, k)'
    BY <1>0, <1>5, <2>3, AgentPhaseNames DEF Heeds, BuiltBy
  <2> QED BY <1>0, <1>g, <2>1, <2>4, PlainStep
<1>6. CASE GoWith(c, "run", agent("planner", 0))
  BY <1>5, <1>6, JobFacts
<1>7. CASE stage = "BUILDING" /\ GoWith(c, "run", agent("builder", current))
  <2>1. iteration \in Iterations /\ iteration # 0
    BY <1>1, <1>7, Bounds DEF Resumable, Iterations
  <2>2. GoWith(c, "run", [NoCall EXCEPT !.job = <<"builder", iteration>>])
    BY <1>7, <2>1
  <2> QED BY <1>5, <2>1, <2>2, JobFacts
<1>8. CASE stage = "EVALUATING" /\ GoWith(c, "check", agent("evaluator", current))
  <2>1. iteration \in Iterations /\ iteration # 0 /\ BuiltBy(iteration)
    BY <1>1, <1>8, Bounds DEF Resumable, Iterations
  <2>2. GoWith(c, "check", [NoCall EXCEPT !.job = <<"evaluator", iteration>>])
    BY <1>8, <2>1
  <2> QED BY <1>5, <2>1, <2>2, JobFacts
<1> QED BY <1>2, <1>3, <1>4, <1>6, <1>7, <1>8 DEF StepBegins

\* A move of the run is written, whatever the stage is by now: what it takes is
\* still there.
LEMMA AdvanceWritesAny ==
    ASSUME AnyInv, TypeInv', NEW c \in Callers, AdvanceWrites(c)
    PROVE  AnyInv'
<1>0. /\ pc[c] = "write" /\ Heeds("write", call[c])
      /\ UNCHANGED <<iteration, verdict, dispatch, artifact, givenUp, passed>>
  BY DEF AdvanceWrites, agentVars, history, AnyInv
<1>g. Grows
  BY <1>0, SameGrows
<1>1. PICK to : to = call[c].to
  OBVIOUS
<1>2. Ready(to) /\ call[c].job \in {NoJob, <<"planner", 0>>}
  BY <1>0, <1>1 DEF Heeds
<1>3. stage' = to /\ resumeStage' = IF to \in Resumable THEN to ELSE resumeStage
  BY <1>1 DEF AdvanceWrites
<1>4. PICK phase, k : GoWith(c, phase, k) /\ Heeds(phase, k)'
  <2>1. CASE Return(c)
    BY <2>1, HeedsNothing DEF Return
  <2>2. CASE call[c].job # NoJob /\ Go(c, "run")
    <3>1. GoWith(c, "run", call[c])
      BY <2>2, GoKeepsCall DEF AnyInv
    <3>2. PICK r : r = call[c]
      OBVIOUS
    <3>3. r.job = <<"planner", 0>>
      BY <1>2, <2>2, <3>2
    <3>4. Heeds("run", r)'
      BY <3>3, AgentPhaseNames DEF Heeds
    <3> QED BY <3>1, <3>2, <3>4
  <2> QED BY <2>1, <2>2 DEF AdvanceWrites
<1>5. AttemptsInv'
  BY <1>0 DEF AnyInv, AttemptsInv
<1>6. ReachedInv'
  <2>1. \A i : BuiltBy(i)' <=> BuiltBy(i)
    BY <1>0 DEF BuiltBy
  <2>2. \A i \in Iterations : verdict'[i] # "none" => BuiltBy(i)'
    BY <1>0, <2>1 DEF AnyInv, ReachedInv
  <2>3. BuiltBy(iteration)' <=> BuiltBy(iteration)
    BY <1>0 DEF BuiltBy
  <2>4. CASE to \in Resumable
    BY <1>0, <1>2, <1>3, <2>2, <2>3, <2>4 DEF Ready, ReachedInv, Resumable, BuiltBy
  <2>5. CASE to \notin Resumable
    BY <1>0, <1>2, <1>3, <2>2, <2>3, <2>5 DEF AnyInv, Ready, ReachedInv, BuiltBy
  <2> QED BY <2>4, <2>5
<1> QED BY <1>4, <1>5, <1>6, <1>g, OthersHeed DEF AnyInv

\* The operator moves a run that may be moved.
LEMMA OperatesAny ==
    ASSUME AnyInv, TypeInv', NEW to \in {"CANCELLED", "MERGED"}, Operates(to)
    PROVE  AnyInv'
<1>0. UNCHANGED <<stage, resumeStage, iteration, verdict, dispatch, artifact, givenUp, passed>>
  BY DEF Operates, runVars, agentVars
<1>g. Grows
  BY <1>0, SameGrows
<1>1. to = "MERGED" => stage = "MERGE_READY"
  BY DEF Operates, ValidTransitions
<1>2. Ready(to)
  BY <1>1 DEF AnyInv, ReachedInv, Ready, Resumable
<1>3. PICK k : k = [NoCall EXCEPT !.to = to]
  OBVIOUS
<1>4. k.to = to /\ k.job = NoJob /\ GoWith(Operator, "write", k)
  BY <1>3, StageNames, Records DEF Operates
<1>5. Ready(to)'
  BY <1>g, <1>2, ReadyStays
<1>6. Heeds("write", k)'
  BY <1>4, <1>5, AgentPhaseNames DEF Heeds, Ready, BuiltBy
<1>7. Operator \in Callers
  BY DEF Callers
<1> QED BY <1>0, <1>g, <1>4, <1>6, <1>7, PlainStep

\* Every step of a call keeps the evidence and what relies on it.
LEMMA CallStepsAny ==
    ASSUME AnyInv, TypeInv', NEW c \in Callers, CallGoesOn(c)
    PROVE  AnyInv'
<1> DEFINE Same == UNCHANGED <<stage, resumeStage, iteration, verdict, dispatch, artifact, givenUp, passed>>
<1>0. /\ call[c] \in CallRecords /\ Fits(pc[c], call[c], dispatch) /\ Heeds(pc[c], call[c])
      /\ pc[c] \in AgentPhases => call[c].job \in Jobs
  BY DEF AnyInv, TypeInv, CallsOK, Fits
<1>g. Same => Grows
  BY SameGrows
<1>1. CASE AdvanceReads(c)
  <2>1. Same /\ pc[c] = "advance"
    BY <1>1 DEF AdvanceReads, runVars, agentVars, history
  <2>2. CASE Go(c, "write")
    <3>1. GoWith(c, "write", call[c])
      BY <2>2, GoKeepsCall DEF AnyInv
    <3>2. PICK r : r = call[c]
      OBVIOUS
    <3>3. Heeds("write", r)
      BY <1>0, <2>1, <3>2, AgentPhaseNames DEF Heeds
    <3>4. Heeds("write", r)'
      BY <1>g, <2>1, <3>3, HeedsStays, AgentPhaseNames
    <3> QED BY <1>g, <2>1, <3>1, <3>2, <3>4, PlainStep
  <2>3. CASE Return(c)
    BY <1>g, <2>1, <2>3, PlainEnd
  <2> QED BY <1>1, <2>2, <2>3 DEF AdvanceReads
<1>2. CASE SaveContract(c) \/ FreezeContract(c)
  <2>1. Same
    BY <1>2 DEF SaveContract, FreezeContract, agentVars, history
  <2>2. CASE Go(c, "freeze")
    BY <1>g, <2>1, <2>2, GoKeepsCall, HeedsNothing, PlainStep DEF AnyInv
  <2>3. CASE Return(c) \/ AdvanceTo(c, "PLAN_READY")
    <3>1. Ready("PLAN_READY")'
      BY DEF Ready
    <3> QED BY <1>g, <2>1, <2>3, <3>1, PlainEnd, StageNames
  <2> QED BY <1>2, <2>2, <2>3 DEF SaveContract, FreezeContract
<1>3. CASE EnterBuild(c)
  <2>1. UNCHANGED <<stage, resumeStage, verdict, dispatch, artifact, givenUp, passed>>
    BY <1>3 DEF EnterBuild, agentVars, history
  <2>2. iteration \in 0..MaxIterations /\ call[c].iteration \in 0..MaxIterations /\ MaxIterations \in Nat
    BY <1>0, Records, Bounds DEF AnyInv, TypeInv, RunOK
  <2>3. CASE UNCHANGED iteration /\ AdvanceTo(c, "BLOCKED")
    <3>1. Same /\ Ready("BLOCKED")'
      BY <2>1, <2>3 DEF Ready
    <3> QED BY <1>g, <2>3, <3>1, PlainEnd, StageNames
  <2>4. CASE ~(call[c].iteration + 1 > MaxIterations) /\ AdvanceTo(c, "BUILDING")
             /\ iteration' = (IF call[c].iteration + 1 > iteration THEN call[c].iteration + 1 ELSE iteration)
    <3>1. iteration' \in Iterations /\ iteration =< iteration'
      BY <2>2, <2>4 DEF Iterations
    <3>2. Grows
      BY <2>1, <2>2, <3>1, Bounds DEF Grows
    <3>3. Ready("BUILDING")'
      BY <3>1 DEF Ready
    <3> QED BY <2>1, <2>4, <3>2, <3>3, PlainEnd, StageNames
  <2> QED BY <1>3, <2>3, <2>4 DEF EnterBuild
<1>4. CASE RunnerLooks(c)
  <2>1. Same /\ pc[c] = "run" /\ pc[c] \in AgentPhases
    BY <1>4, AgentPhaseNames DEF RunnerLooks, runVars, agentVars, history
  <2>2. PICK job : job = call[c].job
    OBVIOUS
  <2>3. /\ Latest(job) \in 0..MaxAttempts /\ MaxAttempts \in Nat /\ job \in Jobs
        /\ Latest(job) # 0 => Latest(job) \in Attempts /\ dispatch[<<job, Latest(job)>>] # "none"
    BY <1>0, <2>1, <2>2, LatestAttempt, Bounds
  <2>4. ASSUME NEW n \in Attempts, NEW phase \in {"open", "ready", "poll"},
               phase = "open" => \A a \in Attempts : a < n => <<job, a>> \in givenUp,
               GoWith(c, phase, [call[c] EXCEPT !.attempt = n])
        PROVE  AnyInv'
    <3>1. PICK k : k = [call[c] EXCEPT !.attempt = n]
      OBVIOUS
    <3>2. k.job = job /\ k.attempt = n /\ GoWith(c, phase, k)
      BY <1>0, <2>2, <2>4, <3>1, Records, Bounds
    <3>3. /\ job[1] = "builder" => job[2] =< iteration
          /\ job[1] = "evaluator" => BuiltBy(job[2])
      BY <1>0, <2>1, <2>2 DEF Heeds
    <3>4. Heeds(phase, k)
      BY <2>4, <3>2, <3>3 DEF Heeds
    <3>5. Heeds(phase, k)'
      BY <1>g, <2>1, <2>3, <3>2, <3>4, HeedsStays
    <3> QED BY <1>g, <2>1, <3>2, <3>5, PlainStep
  <2>5. CASE MayOpen(job) /\ Latest(job) < MaxAttempts
             /\ GoWith(c, "open", [call[c] EXCEPT !.attempt = Latest(job) + 1])
    <3>1. PICK n : n = Latest(job) + 1
      OBVIOUS
    <3>2. n \in Attempts
      BY <2>3, <2>5, <3>1 DEF Attempts
    <3>3. ASSUME NEW a \in Attempts, a < n PROVE <<job, a>> \in givenUp
      <4>0. a \in 1..MaxAttempts
        BY DEF Attempts
      <4>1. Latest(job) # 0 /\ (a = Latest(job) \/ a < Latest(job))
        BY <2>3, <3>1, <3>3, <4>0
      <4>2. Latest(job) \in Attempts /\ dispatch[<<job, Latest(job)>>] = "failed"
        BY <2>3, <2>5, <4>1 DEF MayOpen, LatestState
      <4>3. <<job, Latest(job)>> \in Dispatches
        BY <2>3, <4>2, JobFacts
      <4>4. CASE a = Latest(job)
        BY <4>2, <4>3, <4>4 DEF AnyInv, AttemptsInv
      <4>5. CASE a < Latest(job)
        <5>1. dispatch[<<job, Latest(job)>>] # "none"
          BY <4>2
        <5> QED BY <2>3, <4>2, <4>5, <5>1 DEF AnyInv, AttemptsInv
      <4> QED BY <4>1, <4>4, <4>5
    <3> QED BY <2>4, <2>5, <3>1, <3>2, <3>3
  <2>6. CASE LatestState(job) \in {"awaiting_session", "dispatching"}
             /\ \E phase \in {"ready", "poll"} : GoWith(c, phase, [call[c] EXCEPT !.attempt = Latest(job)])
    <3>1. Latest(job) \in Attempts
      BY <2>3, <2>6 DEF LatestState
    <3>2. PICK n : n = Latest(job)
      OBVIOUS
    <3> QED BY <2>4, <2>6, <3>1, <3>2
  <2>7. CASE LatestState(job) = "completed" /\ Use(c, artifact[<<job, Latest(job)>>])
    <3>1. Latest(job) \in Attempts /\ dispatch[<<job, Latest(job)>>] = "completed"
      BY <2>3, <2>7 DEF LatestState
    <3>2. PICK answer : answer = artifact[<<job, Latest(job)>>]
      OBVIOUS
    <3>3. <<job, Latest(job)>> \in Dispatches
      BY <2>3, <3>1, JobFacts
    <3>4. answer \in Answers(<<job, Latest(job)>>[1])
      BY <3>1, <3>2, <3>3 DEF AnyInv, TypeInv, RunOK
    <3>5. answer \in Answers(call[c].job) /\ Use(c, answer)
      BY <2>2, <2>7, <3>2, <3>4
    <3>6. PICK n : n = Latest(job)
      OBVIOUS
    <3>7. artifact'[<<call[c].job, n>>] = answer
      BY <2>1, <2>2, <3>2, <3>6
    <3>8. PICK phase, k : GoWith(c, phase, k) /\ Heeds(phase, k)'
      BY <1>g, <2>1, <3>1, <3>5, <3>6, <3>7, UseHeeds
    <3> QED BY <1>g, <2>1, <3>8, PlainStep
  <2> QED BY <1>4, <2>2, <2>5, <2>6, <2>7 DEF RunnerLooks
<1>5. CASE RunnerFails(c) \/ SessionNotReady(c) \/ PollPending(c)
  <2>1. Same /\ (Return(c) \/ Fails(c))
    BY <1>5 DEF RunnerFails, SessionNotReady, PollPending, runVars, agentVars, history
  <2> QED BY <1>g, <2>1, PlainEnd
<1>6. CASE SessionReady(c) \/ Send(c) \/ ChecksNeedEvaluator(c)
  <2>1. Same /\ pc[c] \in AgentPhases
    BY <1>6, AgentPhaseNames DEF SessionReady, Send, ChecksNeedEvaluator, runVars, agentVars, history
  <2>2. PICK phase \in {"send", "sent", "run"} : Go(c, phase)
    BY <1>6 DEF SessionReady, Send, ChecksNeedEvaluator
  <2>3. PICK r : r = call[c]
    OBVIOUS
  <2>4. GoWith(c, phase, r)
    BY <2>2, <2>3, GoKeepsCall DEF AnyInv
  <2>5. Heeds(phase, r)
    BY <1>0, <2>1, <2>3, AgentPhaseNames DEF Heeds
  <2>6. Heeds(phase, r)'
    BY <1>0, <1>g, <2>1, <2>3, <2>5, HeedsStays
  <2> QED BY <1>g, <2>1, <2>4, <2>6, PlainStep
<1>7. CASE OpenDispatch(c)
  <2>1. /\ UNCHANGED <<stage, resumeStage, iteration, verdict, artifact, givenUp, passed>>
        /\ pc[c] = "open" /\ pc[c] \in AgentPhases
    BY <1>7, AgentPhaseNames DEF OpenDispatch, agentVars, history
  <2>g. Grows
    BY <2>1, SameGrows
  <2>2. PICK phase \in {"poll", "opened"} :
          /\ Go(c, phase)
          /\ \/ UNCHANGED dispatch
             \/ dispatch' = [dispatch EXCEPT ![Mine(c)] = "dispatching"]
    BY <1>7 DEF OpenDispatch
  <2>3. PICK r : r = call[c]
    OBVIOUS
  <2>4. GoWith(c, phase, r)
    BY <2>2, <2>3, GoKeepsCall DEF AnyInv
  <2>5. Heeds(phase, r)
    BY <1>0, <2>1, <2>3, AgentPhaseNames DEF Heeds
  <2>6. Heeds(phase, r)'
    BY <1>0, <2>g, <2>1, <2>3, <2>5, HeedsStays
  <2>7. CASE UNCHANGED dispatch
    BY <2>g, <2>1, <2>4, <2>6, <2>7, PlainStep
  <2>8. CASE dispatch' = [dispatch EXCEPT ![Mine(c)] = "dispatching"]
    <3>1. PICK s : s = "dispatching"
      OBVIOUS
    <3>2. dispatch' = [dispatch EXCEPT ![Mine(c)] = s] /\ s # "failed" /\ pc[c] \in RowPhases \cup {"open"}
      BY <2>1, <2>8, <3>1
    <3> QED BY <2>g, <2>1, <2>4, <2>6, <3>2, AnyRow
  <2> QED BY <2>2, <2>7, <2>8
<1>8. CASE \/ NoDirectory(c) \/ AwaitSession(c) \/ SessionDead(c) \/ SessionAsksHuman(c)
           \/ SendHeldOpen(c) \/ SendFails(c) \/ PollFails(c)
  <2>1. PICK s \in {"failed", "dispatching", "awaiting_session"} :
          /\ Resolve(c, s) /\ pc[c] \in RowPhases
          /\ Fails(c) \/ AdvanceTo(c, "BLOCKED") \/ Return(c)
    BY <1>8, AgentPhaseNames
       DEF NoDirectory, AwaitSession, SessionDead, SendFails, PollFails, SessionAsksHuman, SendHeldOpen
  <2>2. /\ dispatch' = [dispatch EXCEPT ![Mine(c)] = s]
        /\ UNCHANGED <<stage, resumeStage, iteration, verdict, artifact, passed>>
        /\ givenUp' = IF s = "failed" THEN givenUp \cup {Mine(c)} ELSE givenUp
    BY <2>1 DEF Resolve, agentVars
  <2>3. givenUp \subseteq givenUp' /\ (s = "failed" => Mine(c) \in givenUp')
    BY <2>2
  <2>4. Grows
    BY <2>2, <2>3, Bounds DEF AnyInv, TypeInv, RunOK, Grows
  <2>5. Ready("BLOCKED")'
    BY DEF Ready
  <2>6. PICK phase, k : GoWith(c, phase, k) /\ Heeds(phase, k)'
    BY <2>1, <2>5, StageNames, HeedsNothing, AdvanceHeeds DEF Return, Fails
  <2> QED BY <2>1, <2>2, <2>3, <2>4, <2>6, AnyRow
<1>9. CASE PollCompleted(c)
  <2>1. /\ pc[c] \in RowPhases /\ pc[c] \in AgentPhases
        /\ UNCHANGED <<stage, resumeStage, iteration, verdict, givenUp, passed>>
        /\ dispatch' = [dispatch EXCEPT ![Mine(c)] = "completed"]
    BY <1>9, AgentPhaseNames DEF PollCompleted, history
  <2>2. PICK answer \in Answers(call[c].job) :
          /\ artifact[Mine(c)] \in {"none", answer}
          /\ artifact' = [artifact EXCEPT ![Mine(c)] = answer] /\ Use(c, answer)
    BY <1>9 DEF PollCompleted
  <2>3. /\ call[c].attempt \in Attempts /\ Mine(c) = <<call[c].job, call[c].attempt>>
        /\ Mine(c) \in Dispatches
    BY <1>0, <2>1, JobFacts, AgentPhaseNames DEF Fits, Mine
  <2>4. artifact \in [Dispatches -> AllAnswers \cup {"none"}]
    BY DEF AnyInv, TypeInv, RunOK
  <2>5. \A d \in Dispatches : artifact[d] = "built" => artifact'[d] = "built"
    BY <2>2, <2>3, <2>4
  <2>6. artifact'[<<call[c].job, call[c].attempt>>] = answer
    BY <2>2, <2>3, <2>4
  <2>7. Grows
    BY <2>1, <2>5, Bounds DEF AnyInv, TypeInv, RunOK, Grows
  <2>8. PICK phase, k : GoWith(c, phase, k) /\ Heeds(phase, k)'
    BY <2>1, <2>2, <2>3, <2>6, <2>7, UseHeeds
  <2>9. PICK s : s = "completed"
    OBVIOUS
  <2>10. dispatch' = [dispatch EXCEPT ![Mine(c)] = s] /\ s # "failed"
    BY <2>1, <2>9
  <2> QED BY <2>1, <2>7, <2>8, <2>10, AnyRow
<1>10. CASE ChecksDecide(c)
  <2>1. Same /\ pc[c] = "check" /\ pc[c] \in AgentPhases
    BY <1>10, AgentPhaseNames DEF ChecksDecide, runVars, agentVars, history
  <2>2. PICK answer \in Verdicts : GoWith(c, "settle", [call[c] EXCEPT !.answer = answer])
    BY <1>10, AnswerFacts DEF ChecksDecide
  <2>3. PICK k : k = [call[c] EXCEPT !.answer = answer]
    OBVIOUS
  <2>4. k.job = call[c].job /\ GoWith(c, "settle", k)
    BY <1>0, <2>2, <2>3, Records
  <2>5. Heeds("settle", k)
    BY <1>0, <2>1, <2>4 DEF Heeds
  <2>6. Heeds("settle", k)'
    BY <1>0, <1>g, <2>1, <2>4, <2>5, HeedsStays
  <2> QED BY <1>g, <2>1, <2>4, <2>6, PlainStep
<1>11. CASE Settle(c)
  <2>1. /\ pc[c] = "settle" /\ call[c].job[1] = "evaluator" /\ call[c].answer \in Verdicts
        /\ UNCHANGED <<stage, resumeStage, iteration, dispatch, artifact, givenUp>>
        /\ BuiltBy(call[c].job[2])
    BY <1>0, <1>11, AgentPhaseNames DEF Settle, Fits, Heeds, agentVars
  <2>2. PICK i : i = call[c].job[2]
    OBVIOUS
  <2>3. i \in Iterations /\ BuiltBy(i)
    BY <1>0, <2>1, <2>2, JobFacts, AgentPhaseNames
  <2>v. verdict \in [Iterations -> Verdicts \cup {"none"}]
    BY DEF AnyInv, TypeInv, RunOK
  <2>4. verdict' = [verdict EXCEPT ![i] = call[c].answer] /\ passed \subseteq passed'
    BY <1>11, <2>2 DEF Settle, Recorded
  <2>5. Grows
    BY <2>1, <2>4, Bounds DEF AnyInv, TypeInv, RunOK, Grows
  <2>6. PICK to \in {"MERGE_READY", "NEEDS_REDEFINE", "BLOCKED", "REVISING"} :
          AdvanceTo(c, to) /\ (to = "MERGE_READY" => call[c].answer = "pass")
    BY <1>11 DEF Settle
  <2>7. to = "MERGE_READY" => passed' # {}
    <3>1. call[c].answer = "pass" => verdict'[i] = "pass"
      BY <2>3, <2>4, <2>v
    <3>2. passed' = passed \cup {j \in Iterations : verdict'[j] = "pass"}
      BY <1>11 DEF Settle
    <3> QED BY <2>3, <2>6, <3>1, <3>2
  <2>8. Ready(to)'
    BY <2>6, <2>7 DEF Ready
  <2>9. PICK k : GoWith(c, "advance", k) /\ Heeds("advance", k)'
    BY <2>6, <2>8, StageNames, AdvanceHeeds
  <2>10. AttemptsInv'
    BY <2>1 DEF AnyInv, AttemptsInv
  <2>11. \A j : BuiltBy(j)' <=> BuiltBy(j)
    BY <2>1 DEF BuiltBy
  <2>12. BuiltBy(iteration)' <=> BuiltBy(iteration)
    BY <2>1 DEF BuiltBy
  <2>13. \A j \in Iterations : verdict'[j] # "none" => BuiltBy(j)'
    BY <2>3, <2>4, <2>11, <2>v DEF AnyInv, ReachedInv
  <2>14. passed # {} => passed' # {}
    BY <2>4
  <2>15. ReachedInv'
    BY <2>1, <2>12, <2>13, <2>14 DEF AnyInv, ReachedInv, BuiltBy
  <2> QED BY <2>5, <2>9, <2>10, <2>15, OthersHeed DEF AnyInv
<1>12. CASE InfraFailure(c)
  <2>1. Same /\ (AdvanceTo(c, "BLOCKED") \/ AdvanceTo(c, "FAILED_INFRA"))
    BY <1>12 DEF InfraFailure, agentVars, history
  <2>2. Ready("BLOCKED")' /\ Ready("FAILED_INFRA")'
    BY DEF Ready
  <2> QED BY <1>g, <2>1, <2>2, PlainEnd, StageNames
<1> HIDE DEF Same
<1> QED
  BY <1>1, <1>2, <1>3, <1>4, <1>5, <1>6, <1>7, <1>8, <1>9, <1>10, <1>11, <1>12, AdvanceWritesAny
     DEF CallGoesOn

\* Every step keeps AnyInv.
LEMMA AnyNext == AnyInv /\ [HarnessNext]_vars => AnyInv'
<1> SUFFICES ASSUME AnyInv, [HarnessNext]_vars PROVE AnyInv'
  OBVIOUS
<1>0. TypeInv'
  BY NextTyped DEF AnyInv
<1>1. ASSUME NEW c \in Callers, CallDies(c) PROVE AnyInv'
  <2>1. Return(c) /\ UNCHANGED <<stage, resumeStage, iteration, verdict, dispatch, artifact, givenUp, passed>>
    BY <1>1 DEF CallDies, runVars, agentVars, history
  <2> QED BY <1>0, <2>1, SameGrows, PlainEnd
<1>2. CASE Cancel \/ ApproveMerge
  BY <1>0, <1>2, OperatesAny DEF Cancel, ApproveMerge
<1>3. CASE UNCHANGED vars
  BY <1>0, <1>3
     DEF vars, runVars, agentVars, history, AnyInv, AttemptsInv, ReachedInv, Heeds, Ready, BuiltBy
<1> QED BY <1>0, <1>1, <1>2, <1>3, StepBeginsAny, CallStepsAny DEF HarnessNext

-------------------------------------------------------------------------------
\* A row says that the builder of the iteration has answered.
Built(i) == \E a \in Attempts : dispatch[<<<<"builder", i>>, a>>] = "completed"

\* resumeStage is the stage the run is in or was in last, and only the engine
\* changes it: what a stage stands for is said of resumeStage, which an operator
\* who cancels beside the engine leaves alone.
StageInv ==
    /\ stage \in Resumable \cup {"INIT"} => resumeStage = stage
    /\ resumeStage = "BUILDING" => iteration \in Iterations
    /\ resumeStage = "EVALUATING" => iteration \in Iterations /\ Built(iteration)
    /\ resumeStage = "MERGE_READY" =>
         /\ iteration \in Iterations /\ verdict[iteration] = "pass"
         /\ stage \in {"MERGE_READY", "MERGED", "CANCELLED"}
         /\ \A s \in Steppers : pc[s] = "idle"
    /\ stage = "MERGED" => resumeStage = "MERGE_READY"

\* A move that the engine is about to make.
MoveInv(job, to) ==
    \/ to \in {"BLOCKED", "NEEDS_REDEFINE", "FAILED_INFRA"}
    \/ to = "PLANNING" /\ resumeStage \in {"INIT", "PLANNING"} /\ job \in {NoJob, <<"planner", 0>>}
    \/ to = "PLAN_READY" /\ resumeStage \in {"INIT", "PLANNING", "PLAN_READY"}
    \/ to = "BUILDING" /\ resumeStage \in {"PLAN_READY", "REVISING", "BUILDING"} /\ iteration \in Iterations
    \/ to = "EVALUATING" /\ resumeStage \in {"BUILDING", "EVALUATING"}
                         /\ iteration \in Iterations /\ Built(iteration)
    \/ to = "REVISING" /\ resumeStage \in {"EVALUATING", "REVISING"}
    \/ to = "MERGE_READY" /\ resumeStage = "EVALUATING"
                          /\ iteration \in Iterations /\ verdict[iteration] = "pass"

\* What the engine is at, and what the run is like meanwhile.
AtWork(phase, k) ==
    /\ phase = "enter" => resumeStage \in {"PLAN_READY", "REVISING"} /\ k.iteration = iteration
    /\ phase \in {"save", "freeze"} => resumeStage \in {"INIT", "PLANNING"}
    /\ phase \in {"advance", "write"} => MoveInv(k.job, k.to)
    /\ phase \in AgentPhases =>
         \/ k.job = <<"planner", 0>> /\ resumeStage = "PLANNING"
         \/ k.job = <<"builder", iteration>> /\ resumeStage = "BUILDING"
         \/ k.job = <<"evaluator", iteration>> /\ resumeStage = "EVALUATING"
    /\ phase = "open" => \A a \in Attempts :
         dispatch[<<k.job, a>>] = IF a < k.attempt THEN "failed" ELSE "none"
    /\ phase \in RowPhases => dispatch[<<k.job, k.attempt>>] \in Open

OperatorInv ==
    pc[Operator] = "write" =>
        \/ call[Operator].to = "CANCELLED"
        \/ call[Operator].to = "MERGED" /\ stage = "MERGE_READY"

\* An attempt follows only failed ones; a builder is at work only on the current
\* iteration of a run that is building.
DispatchInv ==
    /\ \A job \in Jobs : \A a, b \in Attempts :
         a < b /\ dispatch[<<job, b>>] # "none" => dispatch[<<job, a>>] = "failed"
    /\ \A i \in Iterations, a \in Attempts :
         dispatch[<<<<"builder", i>>, a>>] \in Open => i = iteration /\ resumeStage = "BUILDING"

\* What has a verdict was built.
JudgedInv == \A i \in Iterations : verdict[i] # "none" => Built(i)

\* One step of the run is in progress at most, and the others rest.
Alone == \A s, t \in Steppers : pc[s] # "idle" /\ pc[t] # "idle" => s = t
Apart(c) == \A s \in Steppers \ {c} : pc[s] = "idle"

\* What holds until two steps overlap.
CalmInv ==
    /\ TypeInv /\ Alone
    /\ StageInv /\ OperatorInv /\ DispatchInv /\ JudgedInv
    /\ \A s \in Steppers : AtWork(pc[s], call[s])

-------------------------------------------------------------------------------
\* The engine at work is not at a run that is ready to merge.
LEMMA NotMergeReady ==
    ASSUME CalmInv, NEW c \in Steppers, pc[c] # "idle"
    PROVE  resumeStage # "MERGE_READY" /\ stage \notin {"MERGE_READY", "MERGED"}
BY DEF CalmInv, StageInv, Resumable

\* How the engine's call goes on.
LEMMA StepperMoves ==
    ASSUME CalmInv, NEW c \in Steppers, Apart(c), NEW phase, NEW k, GoWith(c, phase, k)
    PROVE  /\ pc'[c] = phase /\ call'[c] = k
           /\ pc'[Operator] = pc[Operator] /\ call'[Operator] = call[Operator]
           /\ \A s \in Steppers \ {c} : pc'[s] = "idle"
           /\ Alone'
<1>1. pc \in [Callers -> Phases] /\ call \in [Callers -> CallRecords] /\ c \in Callers
  BY OperatorApart DEF CalmInv, TypeInv, CallsOK
<1>2. /\ pc'[c] = phase /\ call'[c] = k
      /\ \A d \in Callers \ {c} : pc'[d] = pc[d] /\ call'[d] = call[d]
  BY <1>1 DEF GoWith
<1>3. \A s \in Steppers \ {c} : pc'[s] = "idle"
  BY <1>2, OperatorApart DEF Apart
<1> QED BY <1>2, <1>3, OperatorApart DEF Alone

\* A call at rest is at work on nothing.
LEMMA AllAtWork ==
    ASSUME NEW c \in Steppers, NEW phase, NEW k, AtWork(phase, k)', pc'[c] = phase, call'[c] = k,
           \A s \in Steppers \ {c} : pc'[s] = "idle"
    PROVE  \A t \in Steppers : AtWork(pc[t], call[t])'
<1> SUFFICES ASSUME NEW t \in Steppers PROVE AtWork(pc[t], call[t])'
  OBVIOUS
<1>1. CASE t = c
  BY <1>1 DEF AtWork, MoveInv, Built
<1>2. CASE t # c
  BY <1>2, AgentPhaseNames DEF AtWork
<1> QED BY <1>1, <1>2

\* A step of the engine that writes none of the rows the invariant is about.
LEMMA QuietStep ==
    ASSUME CalmInv, TypeInv', NEW c \in Steppers, Apart(c), NEW phase, NEW k, GoWith(c, phase, k),
           UNCHANGED <<stage, resumeStage, iteration, verdict, dispatch>>,
           AtWork(phase, k), phase = "idle" \/ resumeStage # "MERGE_READY"
    PROVE  CalmInv'
<1>1. /\ pc'[c] = phase /\ call'[c] = k
      /\ pc'[Operator] = pc[Operator] /\ call'[Operator] = call[Operator]
      /\ \A s \in Steppers \ {c} : pc'[s] = "idle"
      /\ Alone'
  BY StepperMoves
<1>2. AtWork(phase, k)'
  BY DEF AtWork, MoveInv, Built
<1>3. \A s \in Steppers : AtWork(pc[s], call[s])'
  BY <1>1, <1>2, AllAtWork
<1>4. StageInv'
  BY <1>1 DEF CalmInv, StageInv, Built
<1>5. OperatorInv'
  BY <1>1 DEF CalmInv, OperatorInv
<1>6. DispatchInv' /\ JudgedInv'
  BY DEF CalmInv, DispatchInv, JudgedInv, Built
<1> QED BY <1>1, <1>3, <1>4, <1>5, <1>6 DEF CalmInv

\* Return, as such a step.
LEMMA QuietReturn ==
    ASSUME CalmInv, TypeInv', NEW c \in Steppers, Apart(c), Return(c),
           UNCHANGED <<stage, resumeStage, iteration, verdict, dispatch>>
    PROVE  CalmInv'
BY QuietStep, AgentPhaseNames DEF Return, AtWork

\* An infrastructure failure, as such a step.
LEMMA QuietFails ==
    ASSUME CalmInv, TypeInv', NEW c \in Steppers, Apart(c), pc[c] # "idle", Fails(c),
           UNCHANGED <<stage, resumeStage, iteration, verdict, dispatch>>
    PROVE  CalmInv'
BY QuietStep, NotMergeReady, AgentPhaseNames DEF Fails, AtWork

\* A move that may be made may be prepared.
LEMMA AdvanceAtWork ==
    ASSUME NEW to \in Stages, MoveInv(NoJob, to)
    PROVE  AtWork("advance", [NoCall EXCEPT !.to = to])
BY Records, AgentPhaseNames DEF AtWork

\* The preparation of a move, as a step that writes nothing.
LEMMA QuietAdvance ==
    ASSUME CalmInv, TypeInv', NEW c \in Steppers, Apart(c), NEW to \in Stages, MoveInv(NoJob, to), AdvanceTo(c, to),
           resumeStage # "MERGE_READY",
           UNCHANGED <<stage, resumeStage, iteration, verdict, dispatch>>
    PROVE  CalmInv'
BY QuietStep, AdvanceAtWork DEF AdvanceTo

-------------------------------------------------------------------------------
\* A dispatch row of the engine's own job is written: it was not completed, the
\* earlier attempts failed and there are no later ones.
LEMMA OwnRow ==
    ASSUME CalmInv, NEW c \in Steppers, pc[c] \in RowPhases \cup {"open"}
    PROVE  /\ call[c].job \in Jobs /\ call[c].attempt \in Attempts /\ Mine(c) \in Dispatches
           /\ Mine(c) = <<call[c].job, call[c].attempt>>
           /\ dispatch[Mine(c)] # "completed"
           /\ \A a \in Attempts : a < call[c].attempt => dispatch[<<call[c].job, a>>] = "failed"
           /\ \A a \in Attempts : call[c].attempt < a => dispatch[<<call[c].job, a>>] = "none"
<1>1. /\ call[c].job \in Jobs /\ call[c].attempt \in Attempts
      /\ Mine(c) = <<call[c].job, call[c].attempt>>
  BY AgentPhaseNames DEF CalmInv, TypeInv, CallsOK, Callers, Fits, Mine
<1>2. Mine(c) \in Dispatches
  BY <1>1, JobFacts
<1>n. \A a \in Attempts : a \in Nat
  BY Bounds
<1>3. CASE pc[c] = "open"
  BY <1>1, <1>2, <1>3, <1>n DEF CalmInv, AtWork
<1>4. CASE pc[c] \in RowPhases
  <2>1. dispatch[Mine(c)] \in Open
    BY <1>1, <1>4 DEF CalmInv, AtWork
  <2>2. dispatch[Mine(c)] \notin {"none", "completed", "failed"}
    BY <2>1 DEF Open
  <2> QED BY <1>1, <1>2, <2>2, <1>n DEF CalmInv, DispatchInv
<1> QED BY <1>1, <1>2, <1>3, <1>4

\* A completed build stays completed when the engine writes a row.
LEMMA BuiltStays ==
    ASSUME CalmInv, NEW c \in Steppers, pc[c] \in RowPhases \cup {"open"},
           NEW s, dispatch' = [dispatch EXCEPT ![Mine(c)] = s], NEW i \in Iterations, Built(i)
    PROVE  Built(i)'
<1>1. PICK a \in Attempts : dispatch[<<<<"builder", i>>, a>>] = "completed"
  BY DEF Built
<1>2. <<<<"builder", i>>, a>> \in Dispatches
  BY JobFacts
<1>3. <<<<"builder", i>>, a>> # Mine(c)
  BY <1>1, OwnRow
<1>4. dispatch'[<<<<"builder", i>>, a>>] = "completed"
  BY <1>1, <1>2, <1>3 DEF CalmInv, TypeInv, RunOK
<1> QED BY <1>4 DEF Built

\* A step of the engine that writes the row it is at.
LEMMA RowStep ==
    ASSUME CalmInv, TypeInv', NEW c \in Steppers, Apart(c), pc[c] \in RowPhases \cup {"open"},
           NEW s \in DispatchStates, dispatch' = [dispatch EXCEPT ![Mine(c)] = s],
           UNCHANGED <<stage, resumeStage, iteration, verdict>>,
           NEW phase, NEW k, GoWith(c, phase, k), AtWork(phase, k)'
    PROVE  CalmInv'
<1>1. /\ pc'[c] = phase /\ call'[c] = k
      /\ pc'[Operator] = pc[Operator] /\ call'[Operator] = call[Operator]
      /\ \A t \in Steppers \ {c} : pc'[t] = "idle"
      /\ Alone'
  BY StepperMoves
<1>2. \A t \in Steppers : AtWork(pc[t], call[t])'
  BY <1>1, AllAtWork
<1>3. resumeStage # "MERGE_READY"
  BY NotMergeReady, AgentPhaseNames
<1>4. StageInv'
  BY <1>1, <1>3, BuiltStays DEF CalmInv, StageInv
<1>5. OperatorInv'
  BY <1>1 DEF CalmInv, OperatorInv
<1>6. JudgedInv'
  <2> SUFFICES ASSUME NEW i \in Iterations, verdict'[i] # "none" PROVE Built(i)'
    BY DEF JudgedInv, Built
  <2>1. Built(i)
    BY DEF CalmInv, JudgedInv, Built
  <2> QED BY <2>1, BuiltStays
<1>7. DispatchInv'
  <2>0. \A a \in Attempts : a \in Nat
    BY Bounds
  <2>d. dispatch \in [Dispatches -> DispatchStates \cup {"none"}]
    BY DEF CalmInv, TypeInv, RunOK
  <2>1. ASSUME NEW job \in Jobs, NEW a \in Attempts, NEW b \in Attempts, a < b,
               dispatch'[<<job, b>>] # "none"
        PROVE  dispatch'[<<job, a>>] = "failed"
    <3>1. <<job, a>> \in Dispatches /\ <<job, b>> \in Dispatches /\ <<job, a>> # <<job, b>>
      BY <2>0, <2>1, JobFacts
    <3>2. <<job, a>> # Mine(c)
      <4>1. ASSUME <<job, a>> = Mine(c) PROVE FALSE
        <5>1. job = call[c].job /\ a = call[c].attempt /\ <<job, b>> # Mine(c)
          BY <3>1, <4>1, OwnRow
        <5>2. dispatch'[<<job, b>>] = dispatch[<<job, b>>]
          BY <3>1, <5>1, <2>d
        <5> QED BY <2>1, <5>1, <5>2, OwnRow
      <4> QED BY <4>1
    <3>3. dispatch'[<<job, a>>] = dispatch[<<job, a>>]
      BY <3>1, <3>2, <2>d
    <3>4. CASE <<job, b>> = Mine(c)
      <4>1. job = call[c].job /\ b = call[c].attempt
        BY <3>4, OwnRow
      <4> QED BY <2>1, <3>3, <4>1, OwnRow
    <3>5. CASE <<job, b>> # Mine(c)
      <4>1. dispatch'[<<job, b>>] = dispatch[<<job, b>>]
        BY <3>1, <3>5, <2>d
      <4> QED BY <2>1, <3>3, <4>1 DEF CalmInv, DispatchInv
    <3> QED BY <3>4, <3>5
  <2>2. ASSUME NEW i \in Iterations, NEW a \in Attempts, dispatch'[<<<<"builder", i>>, a>>] \in Open
        PROVE  i = iteration' /\ resumeStage' = "BUILDING"
    <3>1. <<<<"builder", i>>, a>> \in Dispatches
      BY JobFacts
    <3>2. CASE <<<<"builder", i>>, a>> = Mine(c)
      <4>1. call[c].job = <<"builder", i>>
        BY <3>2, OwnRow
      <4>2. call[c].job = <<"builder", iteration>> /\ resumeStage = "BUILDING"
        <5>1. pc[c] \in AgentPhases /\ AtWork(pc[c], call[c])
          BY AgentPhaseNames DEF CalmInv
        <5>2. \/ call[c].job = <<"planner", 0>>
              \/ call[c].job = <<"builder", iteration>> /\ resumeStage = "BUILDING"
              \/ call[c].job = <<"evaluator", iteration>>
          BY <5>1 DEF AtWork
        <5> QED BY <4>1, <5>2
      <4> QED BY <4>1, <4>2
    <3>3. CASE <<<<"builder", i>>, a>> # Mine(c)
      <4>1. dispatch'[<<<<"builder", i>>, a>>] = dispatch[<<<<"builder", i>>, a>>]
        BY <3>1, <3>3, <2>d
      <4> QED BY <2>2, <4>1 DEF CalmInv, DispatchInv
    <3> QED BY <3>2, <3>3
  <2> QED BY <2>1, <2>2 DEF DispatchInv
<1> QED BY <1>1, <1>2, <1>4, <1>5, <1>6, <1>7 DEF CalmInv

\* Where a call may go after it wrote a row.
LEMMA FreeOfRows ==
    /\ AtWork("idle", NoCall)' /\ AtWork("infra", NoCall)'
    /\ \A to \in {"BLOCKED", "NEEDS_REDEFINE", "FAILED_INFRA"} :
         AtWork("advance", [NoCall EXCEPT !.to = to])'
<1>1. AtWork("idle", NoCall)' /\ AtWork("infra", NoCall)'
  BY AgentPhaseNames DEF AtWork
<1>2. ASSUME NEW to \in {"BLOCKED", "NEEDS_REDEFINE", "FAILED_INFRA"}
      PROVE  AtWork("advance", [NoCall EXCEPT !.to = to])'
  BY Records, StageNames, AgentPhaseNames DEF AtWork, MoveInv
<1> QED BY <1>1, <1>2

\* What the engine does with an answer that a completed row of its job has.
LEMMA UseAtWork ==
    ASSUME CalmInv, NEW c \in Steppers, pc[c] \in AgentPhases, NEW answer \in Answers(call[c].job),
           Use(c, answer),
           UNCHANGED <<stage, resumeStage, iteration, verdict>>,
           call[c].job = <<"builder", iteration>> => Built(iteration)'
    PROVE  \E phase, k : GoWith(c, phase, k) /\ AtWork(phase, k)' /\ phase # "idle"
<1>0. /\ call[c] \in CallRecords /\ call[c].job \in Jobs
      /\ \/ call[c].job = <<"planner", 0>> /\ resumeStage = "PLANNING"
         \/ call[c].job = <<"builder", iteration>> /\ resumeStage = "BUILDING"
         \/ call[c].job = <<"evaluator", iteration>> /\ resumeStage = "EVALUATING"
  BY DEF CalmInv, TypeInv, CallsOK, Callers, Fits, AtWork
<1>v. Verdicts = {"pass", "fail", "blocked", "needs_redefine"}
  BY AnswerFacts
<1>1. CASE answer = "contract"
  <2>1. GoWith(c, "save", NoCall)
    BY <1>1, <1>v DEF Use
  <2>2. resumeStage' = "PLANNING"
    BY <1>0, <1>1, <1>v, AnswerRoles
  <2>3. AtWork("save", NoCall)'
    BY <2>2, AgentPhaseNames DEF AtWork
  <2> QED BY <2>1, <2>3
<1>2. CASE answer = "insufficient"
  <2>1. GoWith(c, "advance", [NoCall EXCEPT !.to = "NEEDS_REDEFINE"])
    BY <1>2, <1>v DEF Use, AdvanceTo
  <2> QED BY <2>1, FreeOfRows
<1>3. CASE answer = "built"
  <2>1. GoWith(c, "advance", [NoCall EXCEPT !.to = "EVALUATING"])
    BY <1>3, <1>v DEF Use, AdvanceTo
  <2>2. call[c].job = <<"builder", iteration>> /\ resumeStage = "BUILDING"
    BY <1>0, <1>3, <1>v, AnswerRoles
  <2>3. iteration' \in Iterations /\ Built(iteration)'
    BY <2>2 DEF CalmInv, StageInv
  <2>4. MoveInv(NoJob, "EVALUATING")'
    BY <2>2, <2>3 DEF MoveInv
  <2>5. AtWork("advance", [NoCall EXCEPT !.to = "EVALUATING"])'
    BY <2>4, Records, StageNames, AgentPhaseNames DEF AtWork
  <2> QED BY <2>1, <2>5
<1>4. CASE answer = "malformed"
  <2>1. GoWith(c, "infra", NoCall)
    BY <1>4, <1>v DEF Use, Fails
  <2> QED BY <2>1, FreeOfRows
<1>5. CASE answer \in Verdicts
  <2>0. PICK k : k = [call[c] EXCEPT !.answer = answer, !.attempt = 0]
    OBVIOUS
  <2>1. GoWith(c, "settle", k)
    BY <1>5, <1>v, <2>0 DEF Use
  <2>2. k.job = call[c].job
    BY <1>0, <1>5, <2>0, SettleRecords
  <2>3. AtWork("settle", k)'
    BY <1>0, <2>2, AgentPhaseNames DEF AtWork
  <2> QED BY <2>1, <2>3
<1> QED BY <1>0, <1>1, <1>2, <1>3, <1>4, <1>5, AnswerRoles

-------------------------------------------------------------------------------
\* A step of the engine starts from what the stage stands for.
LEMMA StepBeginsInv ==
    ASSUME CalmInv, TypeInv', NEW c \in Callers, StepBegins(c), ~overlapped'
    PROVE  CalmInv'
<1> DEFINE agent(role, i) == [NoCall EXCEPT !.job = <<role, i>>]
           current == IF iteration = 0 THEN 1 ELSE iteration
<1>0. /\ c \in Steppers /\ UNCHANGED <<stage, resumeStage, iteration, verdict, dispatch>>
      /\ iteration \in 0..MaxIterations /\ resumeStage \in Resumable \cup {"INIT"}
  BY DEF StepBegins, runVars, CalmInv, TypeInv, RunOK
<1>a. Apart(c)
  <2>1. c \in Steppers /\ Begins(c)
    BY DEF StepBegins
  <2>2. ~OthersAtWork(c, Steppers)
    BY <2>1 DEF Begins
  <2> QED BY <2>2 DEF OthersAtWork, Apart
<1>1. /\ stage \in Resumable \cup {"INIT"} => resumeStage = stage
      /\ stage = "FAILED_INFRA" => resumeStage # "MERGE_READY"
      /\ resumeStage \in {"BUILDING", "EVALUATING"} => iteration \in Iterations /\ current = iteration
      /\ resumeStage = "EVALUATING" => Built(iteration)
  BY Bounds DEF CalmInv, StageInv, Iterations
<1>2. CASE stage \in {"INIT", "PLANNING"} /\ AdvanceTo(c, "PLAN_READY")
  <2>1. resumeStage \in {"INIT", "PLANNING"}
    BY <1>1, <1>2 DEF Resumable
  <2>2. MoveInv(NoJob, "PLAN_READY")
    BY <2>1 DEF MoveInv
  <2> QED BY <1>0, <1>2, <2>1, <2>2, <1>a, QuietAdvance, StageNames
<1>3. CASE stage \in {"INIT", "PLANNING"} /\ GoWith(c, "save", NoCall)
  <2>1. resumeStage \in {"INIT", "PLANNING"}
    BY <1>1, <1>3 DEF Resumable
  <2>2. AtWork("save", NoCall)
    BY <2>1, AgentPhaseNames DEF AtWork
  <2> QED BY <1>0, <1>3, <2>1, <2>2, <1>a, QuietStep
<1>4. CASE stage = "INIT" /\ GoWith(c, "advance", [agent("planner", 0) EXCEPT !.to = "PLANNING"])
  <2>0. PICK k : k = [agent("planner", 0) EXCEPT !.to = "PLANNING"]
    OBVIOUS
  <2>1. agent("planner", 0) \in CallRecords /\ agent("planner", 0).job = <<"planner", 0>>
    BY JobFacts, Records
  <2>2. k.to = "PLANNING" /\ k.job = <<"planner", 0>>
    <3> HIDE DEF agent
    <3> QED BY <2>0, <2>1, StageNames, Records
  <2>3. resumeStage = "INIT"
    BY <1>1, <1>4
  <2>4. AtWork("advance", k)
    BY <2>2, <2>3, AgentPhaseNames DEF AtWork, MoveInv
  <2>5. GoWith(c, "advance", k)
    BY <1>4, <2>0
  <2> QED BY <1>0, <2>3, <2>4, <2>5, <1>a, QuietStep
<1>5. ASSUME NEW phase \in {"run", "check"}, NEW job \in Jobs, GoWith(c, phase, [NoCall EXCEPT !.job = job]),
             \/ job = <<"planner", 0>> /\ resumeStage = "PLANNING"
             \/ job = <<"builder", iteration>> /\ resumeStage = "BUILDING"
             \/ job = <<"evaluator", iteration>> /\ resumeStage = "EVALUATING"
      PROVE  CalmInv'
  <2>0. PICK k : k = [NoCall EXCEPT !.job = job]
    OBVIOUS
  <2>1. k.job = job
    BY <2>0, Records
  <2>2. AtWork(phase, k)
    BY <1>5, <2>1, AgentPhaseNames DEF AtWork
  <2>3. GoWith(c, phase, k)
    BY <1>5, <2>0
  <2> QED BY <1>0, <1>5, <2>2, <2>3, <1>a, QuietStep
<1>6. CASE stage = "PLANNING" /\ GoWith(c, "run", agent("planner", 0))
  <2>1. resumeStage = "PLANNING"
    BY <1>1, <1>6 DEF Resumable
  <2> QED BY <1>5, <1>6, <2>1, JobFacts
<1>7. CASE stage = "BUILDING" /\ GoWith(c, "run", agent("builder", current))
  <2>1. resumeStage = "BUILDING"
    BY <1>1, <1>7 DEF Resumable
  <2>2. iteration \in Iterations /\ GoWith(c, "run", [NoCall EXCEPT !.job = <<"builder", iteration>>])
    BY <1>1, <1>7, <2>1
  <2> QED BY <1>5, <2>1, <2>2, JobFacts
<1>8. CASE stage = "EVALUATING" /\ GoWith(c, "check", agent("evaluator", current))
  <2>1. resumeStage = "EVALUATING"
    BY <1>1, <1>8 DEF Resumable
  <2>2. iteration \in Iterations /\ GoWith(c, "check", [NoCall EXCEPT !.job = <<"evaluator", iteration>>])
    BY <1>1, <1>8, <2>1
  <2> QED BY <1>5, <2>1, <2>2, JobFacts
<1>9. CASE stage \in {"PLAN_READY", "REVISING"} /\ GoWith(c, "enter", [NoCall EXCEPT !.iteration = iteration])
  <2>0. PICK k : k = [NoCall EXCEPT !.iteration = iteration]
    OBVIOUS
  <2>1. k.iteration = iteration
    BY <1>0, <2>0, Records
  <2>2. resumeStage \in {"PLAN_READY", "REVISING"}
    BY <1>1, <1>9 DEF Resumable
  <2>3. AtWork("enter", k)
    BY <2>1, <2>2, AgentPhaseNames DEF AtWork
  <2>4. GoWith(c, "enter", k)
    BY <1>9, <2>0
  <2> QED BY <1>0, <2>2, <2>3, <2>4, <1>a, QuietStep
<1>10. CASE stage = "FAILED_INFRA" /\ AdvanceTo(c, ResumeTarget)
  <2>0. PICK to : to = ResumeTarget
    OBVIOUS
  <2>1. resumeStage # "MERGE_READY"
    BY <1>1, <1>10
  <2>2. to \in {"PLANNING", "PLAN_READY", "BUILDING", "EVALUATING", "REVISING"}
        /\ (to = resumeStage \/ (resumeStage = "INIT" /\ to = "PLAN_READY"))
    <3>1. CASE resumeStage = "INIT"
      BY <2>0, <3>1 DEF ResumeTarget, Resumable
    <3>2. CASE resumeStage \in Resumable
      BY <2>0, <2>1, <3>2 DEF ResumeTarget, Resumable
    <3> QED BY <1>0, <3>1, <3>2
  <2>3. MoveInv(NoJob, to)
    BY <1>1, <2>2 DEF MoveInv
  <2> QED BY <1>0, <1>10, <2>0, <2>1, <2>2, <2>3, <1>a, QuietAdvance, StageNames
<1> QED BY <1>2, <1>3, <1>4, <1>6, <1>7, <1>8, <1>9, <1>10 DEF StepBegins

\* A move that was about to be made is made, whatever the stage is by now.
LEMMA EngineWrites ==
    ASSUME CalmInv, TypeInv', NEW c \in Steppers, Apart(c), AdvanceWrites(c)
    PROVE  CalmInv'
<1>0. /\ pc[c] = "write" /\ MoveInv(call[c].job, call[c].to)
      /\ UNCHANGED <<iteration, verdict, dispatch>>
      /\ resumeStage # "MERGE_READY" /\ stage \notin {"MERGE_READY", "MERGED"}
      /\ call[c] \in CallRecords /\ c \in Callers
  BY NotMergeReady DEF AdvanceWrites, CalmInv, AtWork, TypeInv, CallsOK, Callers
<1>1. PICK to : to = call[c].to
  OBVIOUS
<1>2. /\ to \in {"BLOCKED", "NEEDS_REDEFINE", "FAILED_INFRA", "PLANNING", "PLAN_READY", "BUILDING",
                 "EVALUATING", "REVISING", "MERGE_READY"}
      /\ MoveInv(call[c].job, to)
  BY <1>0, <1>1 DEF MoveInv
<1>3. stage' = to /\ resumeStage' = IF to \in Resumable THEN to ELSE resumeStage
  BY <1>1 DEF AdvanceWrites
<1>4. \/ Return(c)
      \/ Go(c, "run") /\ to = "PLANNING" /\ call[c].job = <<"planner", 0>>
  <2>1. call[c].job \in {NoJob, <<"planner", 0>>} \/ to # "PLANNING"
    BY <1>2 DEF MoveInv
  <2> QED BY <1>1, <2>1 DEF AdvanceWrites
<1>5. PICK phase, k : /\ GoWith(c, phase, k)
                      /\ \/ phase = "idle"
                         \/ phase = "run" /\ to = "PLANNING" /\ k.job = <<"planner", 0>>
  BY <1>0, <1>4, GoKeepsCall DEF Return, CalmInv
<1>6. /\ pc'[c] = phase /\ call'[c] = k
      /\ pc'[Operator] = pc[Operator] /\ call'[Operator] = call[Operator]
      /\ \A t \in Steppers \ {c} : pc'[t] = "idle"
      /\ Alone'
  BY <1>5, StepperMoves
<1>7. AtWork(phase, k)'
  <2>1. CASE phase = "idle"
    BY <2>1, AgentPhaseNames DEF AtWork
  <2>2. CASE phase = "run" /\ to = "PLANNING" /\ k.job = <<"planner", 0>>
    <3>1. resumeStage' = "PLANNING"
      BY <1>3, <2>2 DEF Resumable
    <3> QED BY <2>2, <3>1, AgentPhaseNames DEF AtWork
  <2> QED BY <1>5, <2>1, <2>2
<1>8. \A t \in Steppers : AtWork(pc[t], call[t])'
  BY <1>6, <1>7, AllAtWork
<1>9. OperatorInv'
  BY <1>0, <1>6 DEF CalmInv, OperatorInv
<1>10. JudgedInv'
  BY <1>0 DEF CalmInv, JudgedInv, Built
<1>11. \A i \in Iterations : Built(i)' <=> Built(i)
  BY <1>0 DEF Built
<1>12. CASE to \notin Resumable
  <2>1. to \in {"BLOCKED", "NEEDS_REDEFINE", "FAILED_INFRA"} /\ resumeStage' = resumeStage
    BY <1>2, <1>3, <1>12 DEF Resumable
  <2>2. StageInv'
    BY <1>0, <1>3, <1>11, <2>1 DEF CalmInv, StageInv, Resumable
  <2>3. DispatchInv'
    BY <1>0, <2>1 DEF CalmInv, DispatchInv
  <2> QED BY <1>6, <1>8, <1>9, <1>10, <2>2, <2>3 DEF CalmInv
<1>13. CASE to \in Resumable
  <2>1. resumeStage' = to /\ stage' = to
    BY <1>3, <1>13
  <2>2. /\ to = "BUILDING" => iteration \in Iterations
        /\ to = "EVALUATING" => iteration \in Iterations /\ Built(iteration)
        /\ to = "MERGE_READY" => iteration \in Iterations /\ verdict[iteration] = "pass"
    BY <1>2 DEF MoveInv
  <2>3. phase = "idle" \/ to # "MERGE_READY"
    BY <1>5
  <2>4. StageInv'
    BY <1>0, <1>6, <1>11, <1>13, <2>1, <2>2, <2>3 DEF StageInv, Resumable
  <2>5. ASSUME NEW i \in Iterations, NEW a \in Attempts, dispatch[<<<<"builder", i>>, a>>] \in Open
        PROVE  i = iteration /\ to = "BUILDING"
    <3>1. i = iteration /\ resumeStage = "BUILDING"
      BY <2>5 DEF CalmInv, DispatchInv
    <3>2. to = "BUILDING" \/ (to = "EVALUATING" /\ Built(iteration))
      <4>1. to \notin {"BLOCKED", "NEEDS_REDEFINE", "FAILED_INFRA"}
        BY <1>13 DEF Resumable
      <4>2. resumeStage \notin {"INIT", "PLANNING", "PLAN_READY", "EVALUATING", "REVISING"}
        BY <3>1
      <4> QED BY <1>2, <4>1, <4>2 DEF MoveInv
    <3>3. ~Built(iteration)
      <4>1. ASSUME NEW b \in Attempts, dispatch[<<<<"builder", i>>, b>>] = "completed" PROVE FALSE
        <5>1. <<"builder", i>> \in Jobs /\ a \in Nat /\ b \in Nat
          <6>1. a \in 0..MaxAttempts /\ b \in 0..MaxAttempts /\ MaxAttempts \in Nat
            BY Bounds
          <6>2. a \in Nat /\ b \in Nat
            BY <6>1
          <6>3. <<"builder", i>> \in Jobs
            BY JobFacts
          <6> QED BY <6>2, <6>3
        <5>2. dispatch[<<<<"builder", i>>, a>>] \notin {"none", "failed", "completed"} /\ a # b
          BY <2>5, <4>1 DEF Open
        <5>3. a < b \/ b < a
          BY <5>1, <5>2
        <5>4. \A x, y \in Attempts : x < y /\ dispatch[<<<<"builder", i>>, y>>] # "none"
                                       => dispatch[<<<<"builder", i>>, x>>] = "failed"
          BY <5>1 DEF CalmInv, DispatchInv
        <5> QED BY <4>1, <5>2, <5>3, <5>4
      <4> QED BY <3>1, <4>1 DEF Built
    <3> QED BY <3>1, <3>2, <3>3
  <2>6. DispatchInv'
    BY <1>0, <2>1, <2>5 DEF CalmInv, DispatchInv
  <2> QED BY <1>6, <1>8, <1>9, <1>10, <2>4, <2>6 DEF CalmInv
<1> QED BY <1>12, <1>13

\* _enter_build starts the next iteration when nobody builds.
LEMMA EnterBuildInv ==
    ASSUME CalmInv, TypeInv', NEW c \in Steppers, Apart(c), EnterBuild(c)
    PROVE  CalmInv'
<1>0. /\ pc[c] = "enter" /\ resumeStage \in {"PLAN_READY", "REVISING"} /\ call[c].iteration = iteration
      /\ UNCHANGED <<stage, resumeStage, verdict, dispatch>>
      /\ iteration \in 0..MaxIterations /\ MaxIterations \in Nat
  BY Bounds DEF EnterBuild, CalmInv, AtWork, TypeInv, RunOK
<1>1. CASE UNCHANGED iteration /\ AdvanceTo(c, "BLOCKED")
  BY <1>0, <1>1, QuietAdvance, StageNames DEF MoveInv
<1>2. CASE ~(iteration + 1 > MaxIterations) /\ iteration' = iteration + 1 /\ AdvanceTo(c, "BUILDING")
  <2>1. iteration' \in Iterations
    BY <1>0, <1>2 DEF Iterations
  <2>2. PICK k : k = [NoCall EXCEPT !.to = "BUILDING"]
    OBVIOUS
  <2>3. k.to = "BUILDING" /\ GoWith(c, "advance", k)
    BY <1>2, <2>2, StageNames, Records DEF AdvanceTo
  <2>4. AtWork("advance", k)'
    BY <1>0, <2>1, <2>3, AgentPhaseNames DEF AtWork, MoveInv
  <2>5. /\ pc'[c] = "advance" /\ call'[c] = k
        /\ pc'[Operator] = pc[Operator] /\ call'[Operator] = call[Operator]
        /\ \A t \in Steppers \ {c} : pc'[t] = "idle"
        /\ Alone'
    BY <2>3, StepperMoves
  <2>6. \A t \in Steppers : AtWork(pc[t], call[t])'
    BY <2>4, <2>5, AllAtWork
  <2>7. StageInv'
    BY <1>0 DEF CalmInv, StageInv, Resumable
  <2>8. OperatorInv'
    BY <1>0, <2>5 DEF CalmInv, OperatorInv
  <2>9. DispatchInv' /\ JudgedInv'
    BY <1>0 DEF CalmInv, DispatchInv, JudgedInv, Built
  <2> QED BY <2>5, <2>6, <2>7, <2>8, <2>9 DEF CalmInv
<1>3. iteration + 1 > iteration
  BY <1>0
<1> QED BY <1>0, <1>1, <1>2, <1>3 DEF EnterBuild

\* A verdict is recorded for the current iteration, which was built.
LEMMA SettleInv ==
    ASSUME CalmInv, TypeInv', NEW c \in Steppers, Apart(c), Settle(c)
    PROVE  CalmInv'
<1>0. /\ pc[c] = "settle" /\ call[c].job[1] = "evaluator" /\ call[c].answer \in Verdicts
      /\ UNCHANGED <<stage, resumeStage, iteration, dispatch>>
      /\ AtWork("settle", call[c]) /\ verdict \in [Iterations -> Verdicts \cup {"none"}]
  BY AgentPhaseNames DEF Settle, CalmInv, TypeInv, CallsOK, RunOK, Fits, Callers
<1>1. call[c].job = <<"evaluator", iteration>> /\ resumeStage = "EVALUATING"
  BY <1>0, AgentPhaseNames DEF AtWork
<1>2. iteration \in Iterations /\ Built(iteration)
  BY <1>1 DEF CalmInv, StageInv
<1>3. verdict' = [verdict EXCEPT ![iteration] = call[c].answer]
  BY <1>1 DEF Settle, Recorded
<1>4. PICK to \in {"MERGE_READY", "NEEDS_REDEFINE", "BLOCKED", "REVISING"} :
        AdvanceTo(c, to) /\ (to = "MERGE_READY" => call[c].answer = "pass")
  BY DEF Settle
<1>5. PICK k : k = [NoCall EXCEPT !.to = to]
  OBVIOUS
<1>6. k.to = to /\ GoWith(c, "advance", k)
  BY <1>4, <1>5, StageNames, Records DEF AdvanceTo
<1>7. to = "MERGE_READY" => verdict'[iteration] = "pass"
  BY <1>0, <1>2, <1>3, <1>4
<1>8. MoveInv(k.job, to)'
  BY <1>0, <1>1, <1>2, <1>7 DEF MoveInv
<1>9. AtWork("advance", k)'
  BY <1>6, <1>8, AgentPhaseNames DEF AtWork
<1>10. /\ pc'[c] = "advance" /\ call'[c] = k
       /\ pc'[Operator] = pc[Operator] /\ call'[Operator] = call[Operator]
       /\ \A t \in Steppers \ {c} : pc'[t] = "idle"
       /\ Alone'
  BY <1>6, StepperMoves
<1>11. \A t \in Steppers : AtWork(pc[t], call[t])'
  BY <1>9, <1>10, AllAtWork
<1>12. StageInv'
  BY <1>0, <1>1, <1>2 DEF CalmInv, StageInv, Built
<1>13. OperatorInv'
  BY <1>0, <1>10 DEF CalmInv, OperatorInv
<1>14. DispatchInv'
  BY <1>0 DEF CalmInv, DispatchInv
<1>15. JudgedInv'
  <2> SUFFICES ASSUME NEW i \in Iterations, verdict'[i] # "none" PROVE Built(i)'
    BY DEF JudgedInv, Built
  <2>1. CASE i = iteration
    BY <1>0, <1>2, <2>1 DEF Built
  <2>2. CASE i # iteration
    BY <1>0, <1>3, <2>2 DEF CalmInv, JudgedInv, Built
  <2> QED BY <2>1, <2>2
<1> QED BY <1>10, <1>11, <1>12, <1>13, <1>14, <1>15 DEF CalmInv

\* AgentRunner.run opens an attempt only after failed ones, and resolves what is
\* there already.
LEMMA RunnerLooksInv ==
    ASSUME CalmInv, TypeInv', NEW c \in Steppers, Apart(c), RunnerLooks(c)
    PROVE  CalmInv'
<1>0. /\ pc[c] = "run" /\ call[c].job \in Jobs /\ call[c] \in CallRecords
      /\ UNCHANGED <<stage, resumeStage, iteration, verdict, dispatch>>
      /\ resumeStage # "MERGE_READY" /\ AtWork("run", call[c])
  BY AgentPhaseNames, NotMergeReady
     DEF RunnerLooks, runVars, CalmInv, TypeInv, CallsOK, Fits, Callers
<1>1. PICK job : job = call[c].job
  OBVIOUS
<1>2. \/ job = <<"planner", 0>> /\ resumeStage = "PLANNING"
      \/ job = <<"builder", iteration>> /\ resumeStage = "BUILDING"
      \/ job = <<"evaluator", iteration>> /\ resumeStage = "EVALUATING"
  BY <1>0, <1>1, AgentPhaseNames DEF AtWork
<1>3. /\ Latest(job) \in 0..MaxAttempts /\ MaxAttempts \in Nat
      /\ Latest(job) # 0 => Latest(job) \in Attempts /\ dispatch[<<job, Latest(job)>>] # "none"
      /\ \A a \in Attempts : dispatch[<<job, a>>] # "none" => a =< Latest(job)
  BY <1>0, <1>1, LatestAttempt, Bounds
<1>4. ASSUME NEW n \in Attempts, NEW phase \in {"open", "ready", "poll"},
             phase = "open" => \A a \in Attempts :
                dispatch[<<job, a>>] = IF a < n THEN "failed" ELSE "none",
             phase # "open" => dispatch[<<job, n>>] \in Open,
             GoWith(c, phase, [call[c] EXCEPT !.attempt = n])
      PROVE  CalmInv'
  <2>1. PICK k : k = [call[c] EXCEPT !.attempt = n]
    OBVIOUS
  <2>2. k.job = job /\ k.attempt = n /\ GoWith(c, phase, k)
    BY <1>0, <1>1, <1>4, <2>1, Records, Bounds
  <2>3. AtWork(phase, k)
    BY <1>2, <1>4, <2>2, AgentPhaseNames DEF AtWork
  <2> QED BY <1>0, <2>2, <2>3, QuietStep
<1>5. CASE MayOpen(job) /\ Latest(job) < MaxAttempts
           /\ GoWith(c, "open", [call[c] EXCEPT !.attempt = Latest(job) + 1])
  <2>1. PICK n : n = Latest(job) + 1
    OBVIOUS
  <2>2. n \in Attempts
    BY <1>3, <1>5, <2>1 DEF Attempts
  <2>3. ASSUME NEW a \in Attempts PROVE dispatch[<<job, a>>] = IF a < n THEN "failed" ELSE "none"
    <3>0. a \in 1..MaxAttempts
      BY DEF Attempts
    <3>1. CASE a > Latest(job)
      <4>1. ~(a < n) /\ ~(a =< Latest(job))
        BY <1>3, <2>1, <3>0, <3>1
      <4> QED BY <1>3, <4>1
    <3>2. CASE a =< Latest(job)
      <4>1. Latest(job) # 0 /\ a < n /\ (a = Latest(job) \/ a < Latest(job))
        BY <1>3, <2>1, <3>0, <3>2
      <4>2. Latest(job) \in Attempts /\ dispatch[<<job, Latest(job)>>] = "failed"
        BY <1>3, <1>5, <4>1 DEF MayOpen, LatestState
      <4>3. dispatch[<<job, a>>] = "failed"
        BY <1>0, <1>1, <4>1, <4>2 DEF CalmInv, DispatchInv
      <4> QED BY <4>1, <4>3
    <3>3. a > Latest(job) \/ a =< Latest(job)
      BY <1>3, <3>0
    <3> QED BY <3>1, <3>2, <3>3
  <2> QED BY <1>4, <1>5, <2>1, <2>2, <2>3
<1>6. CASE LatestState(job) \in {"awaiting_session", "dispatching"}
           /\ \E phase \in {"ready", "poll"} : GoWith(c, phase, [call[c] EXCEPT !.attempt = Latest(job)])
  <2>1. Latest(job) \in Attempts /\ dispatch[<<job, Latest(job)>>] \in Open
    BY <1>3, <1>6 DEF LatestState, Open
  <2>2. PICK n : n = Latest(job)
    OBVIOUS
  <2> QED BY <1>4, <1>6, <2>1, <2>2
<1>7. CASE LatestState(job) = "completed" /\ Use(c, artifact[<<job, Latest(job)>>])
  <2>1. Latest(job) \in Attempts /\ dispatch[<<job, Latest(job)>>] = "completed"
    BY <1>3, <1>7 DEF LatestState
  <2>2. PICK answer : answer = artifact[<<job, Latest(job)>>]
    OBVIOUS
  <2>3. <<job, Latest(job)>> \in Dispatches
    BY <1>0, <1>1, <2>1, JobFacts
  <2>4. answer \in Answers(<<job, Latest(job)>>[1])
    BY <2>1, <2>2, <2>3 DEF CalmInv, TypeInv, RunOK
  <2>5. answer \in Answers(call[c].job)
    BY <1>1, <2>4
  <2>6. call[c].job = <<"builder", iteration>> => Built(iteration)'
    BY <1>0, <1>1, <2>1 DEF Built
  <2>7. PICK phase, k : GoWith(c, phase, k) /\ AtWork(phase, k)'
    BY <1>0, <1>7, <2>2, <2>5, <2>6, UseAtWork, AgentPhaseNames
  <2>8. AtWork(phase, k)
    BY <1>0, <2>7 DEF AtWork, MoveInv, Built
  <2> QED BY <1>0, <2>7, <2>8, QuietStep
<1> QED BY <1>1, <1>5, <1>6, <1>7 DEF RunnerLooks

-------------------------------------------------------------------------------
\* Every step of the call that steps the engine keeps CalmInv.
LEMMA EngineStepInv ==
    ASSUME CalmInv, TypeInv', NEW c \in Steppers, Apart(c), CallGoesOn(c)
    PROVE  CalmInv'
<1> DEFINE Same == UNCHANGED <<stage, resumeStage, iteration, verdict, dispatch>>
<1>0. c \in Callers /\ call[c] \in CallRecords /\ AtWork(pc[c], call[c])
  BY DEF CalmInv, TypeInv, CallsOK, Callers
<1>m. pc[c] # "idle" => resumeStage # "MERGE_READY"
  BY NotMergeReady
<1>1. CASE AdvanceReads(c)
  <2>1. Same /\ pc[c] = "advance"
    BY <1>1 DEF AdvanceReads, runVars
  <2>2. CASE Go(c, "write")
    <3>1. GoWith(c, "write", call[c])
      BY <1>0, <2>2, GoKeepsCall DEF CalmInv
    <3>2. AtWork("write", call[c])
      BY <1>0, <2>1, AgentPhaseNames DEF AtWork
    <3> QED BY <1>m, <2>1, <3>1, <3>2, QuietStep
  <2>3. CASE Return(c)
    BY <2>1, <2>3, QuietReturn
  <2> QED BY <1>1, <2>2, <2>3 DEF AdvanceReads
<1>2. CASE SaveContract(c)
  <2>1. Same /\ pc[c] = "save"
    BY <1>2 DEF SaveContract
  <2>2. CASE Go(c, "freeze")
    <3>1. GoWith(c, "freeze", call[c])
      BY <1>0, <2>2, GoKeepsCall DEF CalmInv
    <3>2. AtWork("freeze", call[c])
      BY <1>0, <2>1, AgentPhaseNames DEF AtWork
    <3> QED BY <1>m, <2>1, <3>1, <3>2, QuietStep
  <2>3. CASE Return(c)
    BY <2>1, <2>3, QuietReturn
  <2> QED BY <1>2, <2>2, <2>3 DEF SaveContract
<1>3. CASE FreezeContract(c)
  <2>1. Same /\ pc[c] = "freeze" /\ AdvanceTo(c, "PLAN_READY")
    BY <1>3 DEF FreezeContract
  <2>2. MoveInv(NoJob, "PLAN_READY")
    BY <1>0, <2>1 DEF AtWork, MoveInv
  <2> QED BY <1>m, <2>1, <2>2, QuietAdvance, StageNames
<1>4. CASE RunnerFails(c)
  <2>1. Same /\ pc[c] # "idle" /\ Fails(c)
    BY <1>4 DEF RunnerFails, runVars
  <2> QED BY <2>1, QuietFails
<1>5. CASE OpenDispatch(c)
  <2>1. /\ pc[c] = "open" /\ UNCHANGED <<stage, resumeStage, iteration, verdict>>
        /\ Mine(c) = <<call[c].job, call[c].attempt>> /\ Mine(c) \in Dispatches
    BY <1>5, OwnRow DEF OpenDispatch
  <2>2. dispatch[Mine(c)] = "none"
    <3>1. call[c].attempt \in Attempts /\ MaxAttempts \in Nat
      BY <2>1, OwnRow, Bounds
    <3>2. ~(call[c].attempt < call[c].attempt)
      BY <3>1 DEF Attempts
    <3> QED BY <1>0, <2>1, <3>1, <3>2 DEF AtWork
  <2>d. dispatch \in [Dispatches -> DispatchStates \cup {"none"}]
    BY DEF CalmInv, TypeInv, RunOK
  <2>s. "dispatching" \in DispatchStates /\ "dispatching" \in Open
    BY DEF DispatchStates, Open
  <2>3. dispatch' = [dispatch EXCEPT ![Mine(c)] = "dispatching"] /\ Go(c, "opened")
    BY <1>5, <2>2 DEF OpenDispatch
  <2>4. PICK k : k = call[c]
    OBVIOUS
  <2>5. GoWith(c, "opened", k)
    BY <1>0, <2>3, <2>4, GoKeepsCall DEF CalmInv
  <2>6. dispatch'[<<k.job, k.attempt>>] \in Open
    BY <2>1, <2>3, <2>d, <2>s, <2>4
  <2>7. AtWork("opened", k)'
    BY <1>0, <2>1, <2>4, <2>6, AgentPhaseNames DEF AtWork
  <2> QED BY <2>1, <2>3, <2>s, <2>5, <2>7, RowStep
<1>6. CASE SessionNotReady(c) \/ PollPending(c)
  <2>1. Same /\ Return(c)
    BY <1>6 DEF SessionNotReady, PollPending, runVars
  <2> QED BY <2>1, QuietReturn
<1>7. CASE SessionReady(c) \/ Send(c)
  <2>1. Same /\ pc[c] \in RowPhases
    BY <1>7, AgentPhaseNames DEF SessionReady, Send, runVars
  <2>2. PICK phase \in {"send", "sent"} : Go(c, phase)
    BY <1>7 DEF SessionReady, Send
  <2>3. GoWith(c, phase, call[c])
    BY <1>0, <2>2, GoKeepsCall DEF CalmInv
  <2>4. AtWork(phase, call[c])
    BY <1>0, <2>1, AgentPhaseNames DEF AtWork
  <2> QED BY <1>m, <2>1, <2>3, <2>4, QuietStep, AgentPhaseNames
<1>8. CASE \/ NoDirectory(c) \/ AwaitSession(c) \/ SessionDead(c) \/ SendFails(c) \/ PollFails(c)
           \/ SessionAsksHuman(c) \/ SendHeldOpen(c)
  <2>1. PICK s \in {"failed", "dispatching", "awaiting_session"} :
          /\ Resolve(c, s) /\ pc[c] \in RowPhases
          /\ Fails(c) \/ AdvanceTo(c, "BLOCKED") \/ Return(c)
    BY <1>8, AgentPhaseNames
       DEF NoDirectory, AwaitSession, SessionDead, SendFails, PollFails, SessionAsksHuman, SendHeldOpen
  <2>2. /\ dispatch' = [dispatch EXCEPT ![Mine(c)] = s] /\ s \in DispatchStates
        /\ UNCHANGED <<stage, resumeStage, iteration, verdict>>
    BY <2>1 DEF Resolve, DispatchStates, Open
  <2>3. PICK phase, k : GoWith(c, phase, k) /\ AtWork(phase, k)'
    BY <2>1, FreeOfRows DEF Fails, AdvanceTo, Return
  <2> QED BY <2>1, <2>2, <2>3, RowStep
<1>9. CASE PollCompleted(c)
  <2>1. /\ pc[c] \in RowPhases /\ pc[c] \in AgentPhases /\ UNCHANGED <<stage, resumeStage, iteration, verdict>>
        /\ dispatch' = [dispatch EXCEPT ![Mine(c)] = "completed"] /\ "completed" \in DispatchStates
    BY <1>9, AgentPhaseNames DEF PollCompleted, DispatchStates
  <2>2. PICK answer \in Answers(call[c].job) : Use(c, answer)
    BY <1>9 DEF PollCompleted
  <2>3. /\ Mine(c) = <<call[c].job, call[c].attempt>> /\ Mine(c) \in Dispatches
        /\ call[c].attempt \in Attempts
    BY <2>1, OwnRow
  <2>4. dispatch'[<<call[c].job, call[c].attempt>>] = "completed"
    BY <2>1, <2>3 DEF CalmInv, TypeInv, RunOK
  <2>5. call[c].job = <<"builder", iteration>> => Built(iteration)'
    BY <2>1, <2>3, <2>4 DEF Built
  <2>6. PICK phase, k : GoWith(c, phase, k) /\ AtWork(phase, k)'
    BY <2>1, <2>2, <2>5, UseAtWork
  <2> QED BY <2>1, <2>6, RowStep
<1>10. CASE ChecksDecide(c)
  <2>1. Same /\ pc[c] = "check"
    BY <1>10 DEF ChecksDecide, runVars
  <2>2. PICK answer \in Verdicts : GoWith(c, "settle", [call[c] EXCEPT !.answer = answer])
    BY <1>10, AnswerFacts DEF ChecksDecide
  <2>3. PICK k : k = [call[c] EXCEPT !.answer = answer]
    OBVIOUS
  <2>4. k.job = call[c].job /\ GoWith(c, "settle", k)
    BY <1>0, <2>2, <2>3, Records
  <2>5. AtWork("settle", k)
    BY <1>0, <2>1, <2>4, AgentPhaseNames DEF AtWork
  <2> QED BY <1>m, <2>1, <2>4, <2>5, QuietStep
<1>11. CASE ChecksNeedEvaluator(c)
  <2>1. Same /\ pc[c] = "check" /\ GoWith(c, "run", call[c])
    BY <1>0, <1>11, GoKeepsCall DEF ChecksNeedEvaluator, runVars, CalmInv
  <2>2. AtWork("run", call[c])
    BY <1>0, <2>1, AgentPhaseNames DEF AtWork
  <2> QED BY <1>m, <2>1, <2>2, QuietStep
<1>12. CASE InfraFailure(c)
  <2>1. Same /\ pc[c] = "infra"
    BY <1>12 DEF InfraFailure
  <2>2. PICK to \in {"BLOCKED", "FAILED_INFRA"} : AdvanceTo(c, to)
    BY <1>12 DEF InfraFailure
  <2>3. MoveInv(NoJob, to)
    BY DEF MoveInv
  <2> QED BY <1>m, <2>1, <2>2, <2>3, QuietAdvance, StageNames
<1> HIDE DEF Same
<1> QED
  BY <1>1, <1>2, <1>3, <1>4, <1>5, <1>6, <1>7, <1>8, <1>9, <1>10, <1>11, <1>12,
     EngineWrites, EnterBuildInv, RunnerLooksInv, SettleInv DEF CallGoesOn

\* Who does nothing stays at work on what he is at.
LEMMA AtWorkStays ==
    ASSUME UNCHANGED <<resumeStage, iteration, verdict, dispatch>>, NEW s,
           pc'[s] = pc[s], call'[s] = call[s], AtWork(pc[s], call[s])
    PROVE  AtWork(pc[s], call[s])'
BY DEF AtWork, MoveInv, Built

\* The operator writes CANCELLED beside the engine, and MERGED only when the
\* engine is at rest.
LEMMA OperatorStepInv ==
    ASSUME CalmInv, TypeInv', Cancel \/ ApproveMerge \/ CallGoesOn(Operator)
    PROVE  CalmInv'
<1>0. Operator \in Callers /\ Operator \notin Steppers /\ \A s \in Steppers : s \in Callers
  BY OperatorApart DEF Callers
<1>1. ASSUME NEW to \in {"CANCELLED", "MERGED"}, Operates(to) PROVE CalmInv'
  <2>1. UNCHANGED <<stage, resumeStage, iteration, verdict, dispatch>>
    BY <1>1 DEF Operates, runVars
  <2>2. PICK k : k = [NoCall EXCEPT !.to = to]
    OBVIOUS
  <2>3. k.to = to /\ GoWith(Operator, "write", k)
    BY <1>1, <2>2, StageNames, Records DEF Operates
  <2>4. /\ pc'[Operator] = "write" /\ call'[Operator] = k
        /\ \A s \in Steppers : pc'[s] = pc[s] /\ call'[s] = call[s]
    BY <1>0, <2>3 DEF GoWith, CalmInv, TypeInv, CallsOK
  <2>5. to = "MERGED" => stage = "MERGE_READY"
    BY <1>1 DEF Operates, ValidTransitions
  <2>6. OperatorInv'
    BY <2>1, <2>3, <2>4, <2>5 DEF OperatorInv
  <2>7. StageInv'
    BY <2>1, <2>4 DEF CalmInv, StageInv, Built
  <2>8. DispatchInv' /\ JudgedInv'
    BY <2>1 DEF CalmInv, DispatchInv, JudgedInv, Built
  <2>9. \A s \in Steppers : AtWork(pc[s], call[s])'
    BY <2>1, <2>4, AtWorkStays DEF CalmInv
  <2>10. Alone'
    BY <2>4 DEF CalmInv, Alone
  <2> QED BY <2>10, <2>6, <2>7, <2>8, <2>9 DEF CalmInv
<1>2. ASSUME CallGoesOn(Operator) PROVE AdvanceWrites(Operator)
  <2>1. pc[Operator] \in {"idle", "write"}
    BY DEF CalmInv, TypeInv, CallsOK
  <2> QED
    BY <1>2, <2>1
       DEF CallGoesOn, AdvanceReads, SaveContract, FreezeContract, EnterBuild, RunnerLooks,
           RunnerFails, OpenDispatch, NoDirectory, AwaitSession, SessionNotReady, SessionReady, SessionDead, SessionAsksHuman,
           Send, SendHeldOpen, SendFails, PollPending, PollFails, PollCompleted, ChecksDecide,
           ChecksNeedEvaluator, Settle, InfraFailure
<1>3. ASSUME AdvanceWrites(Operator) PROVE CalmInv'
  <2>1. PICK to : to = call[Operator].to
    OBVIOUS
  <2>2. to = "CANCELLED" \/ (to = "MERGED" /\ stage = "MERGE_READY")
    BY <1>3, <2>1 DEF AdvanceWrites, CalmInv, OperatorInv
  <2>3. stage' = to /\ resumeStage' = resumeStage /\ Return(Operator)
    BY <1>3, <2>1, <2>2 DEF AdvanceWrites, Resumable
  <2>4. UNCHANGED <<iteration, verdict, dispatch>>
    BY <1>3 DEF AdvanceWrites
  <2>5. pc'[Operator] = "idle" /\ \A s \in Steppers : pc'[s] = pc[s] /\ call'[s] = call[s]
    BY <1>0, <2>3 DEF Return, GoWith, CalmInv, TypeInv, CallsOK
  <2>6. OperatorInv'
    BY <2>5 DEF OperatorInv
  <2>7. StageInv'
    BY <2>2, <2>3, <2>4, <2>5 DEF CalmInv, StageInv, Built, Resumable
  <2>8. DispatchInv' /\ JudgedInv'
    BY <2>3, <2>4 DEF CalmInv, DispatchInv, JudgedInv, Built
  <2>9. \A s \in Steppers : AtWork(pc[s], call[s])'
    BY <2>3, <2>4, <2>5, AtWorkStays DEF CalmInv
  <2>10. Alone'
    BY <2>5 DEF CalmInv, Alone
  <2> QED BY <2>10, <2>6, <2>7, <2>8, <2>9 DEF CalmInv
<1> QED BY <1>1, <1>2, <1>3 DEF Cancel, ApproveMerge

\* CalmInv holds of a new run.
LEMMA InitInv == HarnessInit => CalmInv
<1> SUFFICES ASSUME HarnessInit PROVE CalmInv
  OBVIOUS
<1>1. TypeInv
  BY InitTyped
<1>2. StageInv /\ OperatorInv
  BY DEF HarnessInit, StageInv, OperatorInv, Callers
<1>3. \A job \in Jobs, a \in Attempts : dispatch[<<job, a>>] = "none"
  BY JobFacts DEF HarnessInit
<1>4. DispatchInv
  <2>1. "none" \notin Open
    BY DEF Open
  <2> QED BY <1>3, <2>1, JobFacts DEF DispatchInv
<1>5. JudgedInv
  BY DEF HarnessInit, JudgedInv
<1>6. \A s \in Steppers : AtWork(pc[s], call[s])
  BY AgentPhaseNames DEF HarnessInit, AtWork, Callers
<1>7. Alone
  BY DEF HarnessInit, Alone, Callers
<1> QED BY <1>1, <1>2, <1>4, <1>5, <1>6, <1>7 DEF CalmInv

\* Who goes on is not idle.
LEMMA GoesOnBusy ==
    ASSUME NEW c \in Callers, CallGoesOn(c)
    PROVE  pc[c] # "idle"
BY DEF CallGoesOn, AdvanceReads, AdvanceWrites, SaveContract, FreezeContract, EnterBuild, RunnerLooks,
       RunnerFails, OpenDispatch, NoDirectory, AwaitSession, SessionNotReady, SessionReady, SessionDead,
       SessionAsksHuman, Send, SendHeldOpen, SendFails, PollPending, PollFails, PollCompleted,
       ChecksDecide, ChecksNeedEvaluator, Settle, InfraFailure

\* That two steps have overlapped is not forgotten.
LEMMA OverlapIsKept ==
    ASSUME TypeInv, [HarnessNext]_vars, overlapped
    PROVE  overlapped'
<1>1. ASSUME NEW c \in Callers, CallGoesOn(c) PROVE overlapped' = overlapped
  BY <1>1 DEF CallGoesOn, AdvanceReads, AdvanceWrites, SaveContract, FreezeContract, EnterBuild, RunnerLooks,
       RunnerFails, OpenDispatch, NoDirectory, AwaitSession, SessionNotReady, SessionReady, SessionDead,
       SessionAsksHuman, Send, SendHeldOpen, SendFails, PollPending, PollFails, PollCompleted,
       ChecksDecide, ChecksNeedEvaluator, Settle, InfraFailure, Resolve, history
<1>2. ASSUME NEW c \in Callers, StepBegins(c) \/ CallDies(c) PROVE overlapped'
  BY <1>2 DEF StepBegins, Begins, CallDies, history
<1>3. CASE Cancel \/ ApproveMerge
  BY <1>3 DEF Cancel, ApproveMerge, Operates, Begins
<1>4. CASE UNCHANGED vars
  BY <1>4 DEF vars, history
<1> QED BY <1>1, <1>2, <1>3, <1>4 DEF HarnessNext

\* Every step keeps CalmInv until two steps overlap.
LEMMA NextInv ==
    ASSUME CalmInv, [HarnessNext]_vars, ~overlapped'
    PROVE  CalmInv'
<1>0. TypeInv'
  BY NextTyped DEF CalmInv
<1>a. ASSUME NEW c \in Steppers, pc[c] # "idle" PROVE Apart(c)
  BY <1>a DEF CalmInv, Alone, Apart
<1>1. ASSUME NEW c \in Callers, CallDies(c) PROVE CalmInv'
  <2>1. /\ c \in Steppers /\ Return(c) /\ UNCHANGED <<stage, resumeStage, iteration, verdict, dispatch>>
        /\ pc[c] # "idle"
    BY <1>1 DEF CallDies, runVars
  <2> QED BY <1>0, <1>a, <2>1, QuietReturn
<1>2. ASSUME NEW c \in Callers, CallGoesOn(c) PROVE CalmInv'
  <2>1. c \in Steppers \/ c = Operator
    BY OperatorApart
  <2> QED BY <1>0, <1>2, <1>a, <2>1, GoesOnBusy, EngineStepInv, OperatorStepInv
<1>3. CASE UNCHANGED vars
  <2>1. UNCHANGED <<stage, resumeStage, iteration, verdict, dispatch, pc, call>>
    BY <1>3 DEF vars, runVars
  <2>2. \A s \in Steppers : AtWork(pc[s], call[s])'
    BY <2>1 DEF CalmInv, AtWork, MoveInv, Built
  <2>3. StageInv' /\ OperatorInv' /\ DispatchInv' /\ JudgedInv' /\ Alone'
    BY <2>1 DEF CalmInv, StageInv, OperatorInv, DispatchInv, JudgedInv, Built, Alone
  <2> QED BY <1>0, <2>2, <2>3 DEF CalmInv
<1> QED BY <1>0, <1>1, <1>2, <1>3, StepBeginsInv, OperatorStepInv DEF HarnessNext

-------------------------------------------------------------------------------
\* The inductive invariant.
HarnessInv == AnyInv /\ (~overlapped => CalmInv)

\* It holds of a new run, and every step keeps it.
LEMMA HarnessInvHolds == HarnessSpec => []HarnessInv
<1>1. HarnessInit => HarnessInv
  BY AnyInit, InitInv DEF HarnessInv
<1>2. HarnessInv /\ [HarnessNext]_vars => HarnessInv'
  <2> SUFFICES ASSUME HarnessInv, [HarnessNext]_vars PROVE HarnessInv'
    OBVIOUS
  <2>1. AnyInv' /\ TypeInv
    BY AnyNext DEF HarnessInv, AnyInv
  <2>2. ASSUME ~overlapped' PROVE CalmInv'
    <3>1. ~overlapped
      BY <2>1, <2>2, OverlapIsKept
    <3>2. CalmInv
      BY <3>1 DEF HarnessInv
    <3> QED BY <2>2, <3>2, NextInv
  <2> QED BY <2>1, <2>2 DEF HarnessInv
<1> QED BY <1>1, <1>2, PTL DEF HarnessSpec

\* A dispatch that a pane has, unanswered and not given up, is open.
LEMMA BuildingIsOpen ==
    ASSUME AnyInv, NEW d \in Building
    PROVE  /\ d \in Dispatches /\ dispatch[d] # "none" /\ (d \in givenUp \/ dispatch[d] \in Open)
           /\ \E i \in Iterations, a \in Attempts : d = <<<<"builder", i>>, a>>
<1>1. /\ d \in Dispatches /\ d[1][1] = "builder" /\ dispatch[d] # "none" /\ artifact[d] = "none"
      /\ dispatch[d] \in DispatchStates \cup {"none"}
  BY DEF Building, AnyInv, TypeInv, RunOK
<1>2. PICK i \in Iterations, a \in Attempts : d = <<<<"builder", i>>, a>>
  <2>1. d[1] \in Jobs /\ d[2] \in Attempts /\ d = <<d[1], d[2]>>
    BY <1>1, JobFacts
  <2>2. PICK i \in Iterations : d[1] = <<"builder", i>>
    BY <1>1, <2>1, JobFacts
  <2> QED BY <2>1, <2>2
<1>3. dispatch[d] # "completed"
  <2>1. Answers(d[1]) = {"built"}
    BY <1>2, AnswerFacts
  <2> QED BY <1>1, <2>1 DEF AnyInv, TypeInv, RunOK
<1>4. dispatch[d] = "failed" => d \in givenUp
  BY <1>1 DEF AnyInv, AttemptsInv
<1> QED BY <1>1, <1>2, <1>3, <1>4 DEF DispatchStates

\* Two builders that have the prompt of one iteration are a given-up one and its
\* successor, whoever steps the run, and those of two iterations are too unless
\* steps of the run overlapped (TerminalAgentRunner.run, open_dispatch).
THEOREM BuildersAreAccountedFor == HarnessSpec => []BuildersAccountedFor
<1>1. ASSUME HarnessInv PROVE BuildersAccountedFor
  <2> SUFFICES ASSUME NEW d \in Building, NEW e \in Building, d # e
               PROVE  {d, e} \cap givenUp # {} \/ (d[1] # e[1] /\ overlapped)
    BY DEF BuildersAccountedFor
  <2>0. AnyInv
    BY <1>1 DEF HarnessInv
  <2>1. PICK i \in Iterations, a \in Attempts : d = <<<<"builder", i>>, a>>
    BY <2>0, BuildingIsOpen
  <2>2. PICK j \in Iterations, b \in Attempts : e = <<<<"builder", j>>, b>>
    BY <2>0, BuildingIsOpen
  <2>3. dispatch[d] # "none" /\ dispatch[e] # "none"
    BY <2>0, BuildingIsOpen
  <2>4. ASSUME i = j PROVE {d, e} \cap givenUp # {}
    <3>1. a \in 0..MaxAttempts /\ b \in 0..MaxAttempts /\ MaxAttempts \in Nat /\ a # b
      BY <2>1, <2>2, <2>4, Bounds
    <3>2. a < b \/ b < a
      BY <3>1
    <3>3. <<"builder", i>> \in Jobs
      BY JobFacts
    <3>4. d \in givenUp \/ e \in givenUp
      BY <2>0, <2>1, <2>2, <2>3, <2>4, <3>2, <3>3 DEF AnyInv, AttemptsInv
    <3> QED BY <3>4
  <2>5. ASSUME i # j, ~overlapped PROVE {d, e} \cap givenUp # {}
    <3>1. CalmInv
      BY <1>1, <2>5 DEF HarnessInv
    <3>2. (dispatch[d] \in Open => i = iteration) /\ (dispatch[e] \in Open => j = iteration)
      BY <2>1, <2>2, <3>1 DEF CalmInv, DispatchInv
    <3> QED BY <2>0, <2>5, <3>2, BuildingIsOpen
  <2>6. i # j => d[1] # e[1]
    BY <2>1, <2>2
  <2> QED BY <2>4, <2>5, <2>6
<1> QED BY <1>1, HarnessInvHolds, PTL

\* No iteration has a verdict before the answer of its own builder was read, or
\* that of an earlier one's if steps overlapped, whatever dies, is resumed or is
\* written over a cancelled run (_build, resume, _settle).
THEOREM VerdictsAreOfBuilds == HarnessSpec => []EvaluatedIsBuilt
<1>1. ASSUME HarnessInv PROVE EvaluatedIsBuilt
  <2> SUFFICES ASSUME NEW i \in Iterations, verdict[i] # "none"
               PROVE  \E j \in 1..i, a \in Attempts :
                        /\ artifact[<<<<"builder", j>>, a>>] = "built"
                        /\ j = i \/ overlapped
    BY DEF EvaluatedIsBuilt
  <2>0. AnyInv /\ i \in 1..i
    BY <1>1, Bounds DEF HarnessInv, Iterations
  <2>1. CASE overlapped
    <3>1. PICK j \in Iterations, a \in Attempts : j =< i /\ artifact[<<<<"builder", j>>, a>>] = "built"
      BY <2>0 DEF AnyInv, ReachedInv, BuiltBy
    <3>2. j \in 1..i
      BY <3>1, Bounds DEF Iterations
    <3> QED BY <2>1, <3>1, <3>2
  <2>2. CASE ~overlapped
    <3>1. PICK a \in Attempts : dispatch[<<<<"builder", i>>, a>>] = "completed"
      BY <1>1, <2>2 DEF HarnessInv, CalmInv, JudgedInv, Built
    <3>2. PICK d : d = <<<<"builder", i>>, a>>
      OBVIOUS
    <3>3. d \in Dispatches /\ d[1] = <<"builder", i>> /\ dispatch[d] = "completed"
      BY <3>1, <3>2, JobFacts
    <3>4. artifact[d] \in Answers(d[1]) /\ Answers(d[1]) = {"built"}
      BY <2>0, <3>3, AnswerFacts DEF AnyInv, TypeInv, RunOK
    <3> QED BY <2>0, <3>2, <3>4
  <2> QED BY <2>1, <2>2
<1> QED BY <1>1, HarnessInvHolds, PTL

\* A run is MERGE_READY or MERGED only if an evaluation passed, and until steps
\* overlap only on the strength of the latest verdict about its current
\* iteration (_settle, approve_merge).
THEOREM MergesArePassed == HarnessSpec => []MergeNeedsPass
<1>1. ASSUME HarnessInv PROVE MergeNeedsPass
  <2>1. stage \in {"MERGE_READY", "MERGED"} => passed # {}
    BY <1>1 DEF HarnessInv, AnyInv, ReachedInv, Resumable
  <2>2. ~overlapped /\ stage \in {"MERGE_READY", "MERGED"}
          => iteration \in Iterations /\ verdict[iteration] = "pass"
    BY <1>1 DEF HarnessInv, CalmInv, StageInv, Resumable
  <2>3. iteration \in Iterations => iteration > 0
    BY Bounds DEF Iterations
  <2> QED BY <2>1, <2>2, <2>3 DEF MergeNeedsPass
<1> QED BY <1>1, HarnessInvHolds, PTL
===============================================================================
