--------------------------- MODULE QueueEngineProofs ---------------------------
(***************************************************************************)
(* Proofs about QueueEngine, for any tasks, lanes, number of overlapping   *)
(* ticks and bounds.  The keys that can still be claimed for a task are    *)
(* the ones claimed already, the ones that ticks hold and the one that the *)
(* next tick would read: only retry_task adds to them.  Under one claim of *)
(* a key one prompt is typed.                                              *)
(***************************************************************************)
EXTENDS QueueEngine, QueueStoreProofs, FiniteSetTheorems

\* The task is being dispatched, or was when its lane was paused.
InDispatch(t) ==
    status[t] = "DISPATCHING" \/ (status[t] = "PAUSED" /\ pausedFrom[t] = "DISPATCHING")

\* A dispatched task has its key, so that no other attempt gets a new one.
KeyOK(t) ==
    /\ key[t] <= attempts[t]
    /\ InDispatch(t) => key[t] # 0

\* The claim of a tick that is about to type was granted, and nothing has been
\* typed under it.
Untyped(e) ==
    /\ \E g \in grants : g.task = job[e].task /\ g.key = job[e].key /\ g.claim = job[e].claim
    /\ \A p \in typed :
         ~(p.task = job[e].task /\ p.key = job[e].key /\ p.claim = job[e].claim)

\* What a tick read is not newer than the row, and what it has written or seen
\* since is still so.
JobOK(e) ==
    pc[e] # "idle" =>
        /\ job[e].attempt <= attempts[job[e].task]
        /\ job[e].key <= job[e].attempt + 1
        /\ pc[e] \in {"send", "typing", "storing"} => job[e].attempt < attempts[job[e].task]
        /\ pc[e] = "typing" => Untyped(e)
        /\ pc[e] \in {"proven", "verified"} => Verified(e)

\* A claim of a key is granted to one tick and types at most one prompt.
SendOK ==
    /\ \A p, q \in typed : p.task = q.task /\ p.key = q.key /\ p.claim = q.claim => p = q
    /\ \A p \in typed :
         \E g \in grants : g.task = p.task /\ g.key = p.key /\ g.claim = p.claim
    /\ \A x, y \in Engines :
         /\ pc[x] = "typing" /\ pc[y] = "typing"
         /\ job[x].task = job[y].task /\ job[x].key = job[y].key /\ job[x].claim = job[y].claim
         => x = y

\* Every key of t that has been claimed, or may be without another retry.
TypedOf(t) == {p \in typed : p.task = t}
GrantsOf(t) == {g \in grants : g.task = t}
AtWork(t) == {e \in Engines : pc[e] # "idle" /\ job[e].task = t}
Keys(t) == {g.key : g \in GrantsOf(t)} \cup {job[e].key : e \in AtWork(t)} \cup {NextKey(t)}

EngineInv ==
    /\ EngineTypeOK
    /\ StoreInv
    /\ \A t \in Tasks : KeyOK(t)
    /\ \A e \in Engines : JobOK(e)
    /\ SendOK
    /\ \A t \in Tasks : Cardinality(Keys(t)) <= 1 + retries[t]
    /\ CompletedOnlyWhenDone

\* What is shown of every step: it is one that the store may make, and keeps
\* the invariant.
Kept == GoodStep /\ EngineInv'

-------------------------------------------------------------------------------
\* What the methods of the store do to a task, as far as dispatch and completion
\* go: an attempt is counted on the way to DISPATCHING only, only the tasks in D
\* may get there anew, and only those in C become COMPLETED.
Calm(D, C) ==
    \A t \in Tasks :
        /\ \/ attempts'[t] = attempts[t]
           \/ attempts'[t] = attempts[t] + 1 /\ status'[t] = "DISPATCHING"
        /\ InDispatch(t)' => InDispatch(t) \/ t \in D
        /\ status'[t] = "COMPLETED" => status[t] = "COMPLETED" \/ t \in C

\* _transition_locked, for one task or several.
LEMMA TransitionedCalm ==
    ASSUME StoreInv, NEW new, NEW drop, NEW from, Transitioned(new, drop, from), NEW D, NEW C,
           \A t \in Tasks : new[t] = "DISPATCHING" => InDispatch(t) \/ t \in D,
           \A t \in Tasks : from[t] = "DISPATCHING" => status[t] = "DISPATCHING",
           \A t \in Tasks : new[t] = "COMPLETED" => status[t] = "COMPLETED" \/ t \in C
    PROVE  Calm(D, C)
<1> SUFFICES ASSUME NEW t \in Tasks
             PROVE  /\ \/ attempts'[t] = attempts[t]
                       \/ attempts'[t] = attempts[t] + 1 /\ status'[t] = "DISPATCHING"
                    /\ InDispatch(t)' => InDispatch(t) \/ t \in D
                    /\ status'[t] = "COMPLETED" => status[t] = "COMPLETED" \/ t \in C
  BY DEF Calm
<1>1. status'[t] = new[t]
  BY DEF Transitioned
<1>2. attempts'[t] = IF new[t] = "DISPATCHING" /\ status[t] # new[t] THEN attempts[t] + 1 ELSE attempts[t]
  BY DEF Transitioned
<1>3. pausedFrom'[t] = IF new[t] # "PAUSED" THEN "NULL"
                       ELSE IF status[t] = "PAUSED" THEN pausedFrom[t]
                       ELSE from[t]
  BY DEF Transitioned
<1> QED BY <1>1, <1>2, <1>3 DEF InDispatch

\* transition_task.
LEMMA TransitionCalm ==
    ASSUME StoreInv, NEW t \in Tasks, NEW to, NEW keep, Transition(t, to, keep),
           NEW D, to = "DISPATCHING" => t \in D, NEW C, to = "COMPLETED" => t \in C
    PROVE  Calm(D, C)
<1> DEFINE drop == IF keep THEN {} ELSE {t}
           new == One(t, to)
<1>1. Transitioned(new, drop, status)
  BY DEF Transition
<1>2. new[t] = to /\ \A u \in Tasks \ {t} : new[u] = status[u]
  BY DEF One, StoreInv, TypeOK
<1> HIDE DEF drop, new
<1> QED BY <1>1, <1>2, TransitionedCalm DEF InDispatch

\* A step that leaves the statuses alone.
LEMMA SameStatusCalm ==
    ASSUME UNCHANGED <<status, pausedFrom, attempts>> PROVE \A D, C : Calm(D, C)
BY DEF Calm, InDispatch

\* A method that writes one status itself.
LEMMA OneStatusCalm ==
    ASSUME StoreInv, NEW t \in Tasks, NEW s, s \notin {"DISPATCHING", "COMPLETED", "PAUSED"},
           \A u \in Tasks : status'[u] = IF u = t THEN s ELSE status[u],
           \A u \in Tasks \ {t} : pausedFrom'[u] = pausedFrom[u],
           UNCHANGED attempts
    PROVE  Calm({}, {})
BY DEF Calm, InDispatch

\* A lane is paused or resumed: what was being dispatched still is.
LEMMA LaneCalm ==
    ASSUME StoreInv, NEW l \in Lanes, PauseLane(l, "user") \/ ResumeLane(l)
    PROVE  Calm({}, {})
<1>1. CASE PauseLane(l, "user")
  <2> DEFINE new == PauseSweep(l, status)
  <2>1. Transitioned(new, {}, status)
    BY <1>1 DEF PauseLane
  <2>2. \A u \in Tasks : new[u] \in {"PAUSED", status[u]}
    BY DEF PauseSweep
  <2> HIDE DEF new
  <2> QED BY <2>1, <2>2, TransitionedCalm DEF InDispatch
<1>2. CASE ResumeLane(l)
  <2> DEFINE paused == In(l) \cap With({"PAUSED"})
             new == [u \in Tasks |-> IF u \in paused THEN pausedFrom[u] ELSE status[u]]
  <2>1. Transitioned(new, {}, status)
    BY <1>2 DEF ResumeLane
  <2>2. \A u \in Tasks : new[u] = status[u] \/ (status[u] = "PAUSED" /\ new[u] = pausedFrom[u])
    BY DEF With
  <2>3. \A u \in Tasks : pausedFrom[u] # "COMPLETED"
    BY DEF StoreInv, TypeOK, Pausable
  <2> HIDE DEF new
  <2> QED BY <2>1, <2>2, <2>3, TransitionedCalm DEF InDispatch
<1> QED BY <1>1, <1>2

\* A task is inserted or moved to another lane.
LEMMA PlacedCalm ==
    ASSUME StoreInv, NEW t \in Tasks, NEW l \in Lanes, SetTasks(l, t, FALSE) \/ MoveTask(t, l)
    PROVE  Calm({}, {})
<1>1. CASE SetTasks(l, t, FALSE)
  <2>1. status' = [All({}, "CANCELLED") EXCEPT ![t] = "QUEUED"] /\ UNCHANGED <<pausedFrom, attempts>>
    BY <1>1 DEF SetTasks
  <2>2. \A u \in Tasks : status'[u] = IF u = t THEN "QUEUED" ELSE status[u]
    BY <2>1 DEF All
  <2> QED BY <2>1, <2>2, OneStatusCalm
<1>2. CASE MoveTask(t, l)
  BY <1>2, SameStatusCalm DEF MoveTask
<1> QED BY <1>1, <1>2

\* The sweeps of a lane.
LEMMA SweepCalm ==
    ASSUME StoreInv, NEW L, Sweep(L) PROVE Calm({}, {})
<1> USE DEF StoreInv
<1>a. ASSUME NEW T, NEW to \in {"QUEUED", "BLOCKED"}, Transitioned(All(T, to), T, status)
      PROVE  Calm({}, {})
  <2>1. \A u \in Tasks : All(T, to)[u] \in {to, status[u]}
    BY DEF All
  <2> QED BY <1>a, <2>1, TransitionedCalm DEF InDispatch
<1>1. CASE ReconcileStaleClaims(L)
  <2>1. PICK T : Transitioned([t \in Tasks |-> IF t \notin T THEN status[t]
                                              ELSE IF status[t] = "PRECHECK" THEN "QUEUED"
                                              ELSE "DISPATCH_UNCERTAIN"], T, status)
    BY <1>1 DEF ReconcileStaleClaims
  <2> DEFINE new == [t \in Tasks |-> IF t \notin T THEN status[t]
                                     ELSE IF status[t] = "PRECHECK" THEN "QUEUED"
                                     ELSE "DISPATCH_UNCERTAIN"]
  <2>2. \A u \in Tasks : new[u] \in {"QUEUED", "DISPATCH_UNCERTAIN", status[u]}
    OBVIOUS
  <2>3. Transitioned(new, T, status)
    BY <2>1
  <2> HIDE DEF new
  <2> QED BY <2>2, <2>3, TransitionedCalm DEF InDispatch
<1>2. CASE ReconcileWaiting(L)
  BY <1>2, <1>a DEF ReconcileWaiting
<1>3. CASE ReconcileRefusals(L)
  BY <1>3, <1>a DEF ReconcileRefusals
<1>4. CASE ReevaluateBlocked(L)
  BY <1>4, <1>a DEF ReevaluateBlocked
<1>5. CASE ReconcileLanePause(L)
  BY <1>5, SameStatusCalm DEF ReconcileLanePause, taskVars
<1> QED BY <1>1, <1>2, <1>3, <1>4, <1>5 DEF Sweep

\* The methods that the engine calls, apart from transition_task.
LEMMA TaskCalm ==
    ASSUME StoreInv, NEW t \in Tasks,
           \/ ClaimNextTask(t) \/ MarkRunning(t) \/ DecideNeedsHuman(t)
           \/ \E bad \in BOOLEAN : RecordVerdict(t, bad)
           \/ \E to \in {"READY", "BLOCKED", "QUEUED"} : Decide(t, to)
           \/ \E to \in {"WAITING_SESSION", "BLOCKED", "CANCELLED"} : RecoverStale(t, to)
    PROVE  Calm({}, {})
<1> USE DEF StoreInv
<1>1. CASE ClaimNextTask(t)
  BY <1>1, OneStatusCalm DEF ClaimNextTask, One, TypeOK
<1>2. CASE MarkRunning(t)
  BY <1>2, OneStatusCalm DEF MarkRunning, One, TypeOK
<1>3. CASE DecideNeedsHuman(t)
  <2> DEFINE new == PauseSweep(session[t], One(t, "PAUSED"))
             from == One(t, "QUEUED")
  <2>1. Transitioned(new, {t}, from)
    BY <1>3 DEF DecideNeedsHuman
  <2>2. \A u \in Tasks : new[u] \in {"PAUSED", status[u]}
    BY DEF PauseSweep, One, TypeOK
  <2>3. \A u \in Tasks : from[u] \in {"QUEUED", status[u]}
    BY DEF One, TypeOK
  <2> HIDE DEF new, from
  <2> QED BY <2>1, <2>2, <2>3, TransitionedCalm DEF InDispatch
<1>4. CASE \E bad \in BOOLEAN : RecordVerdict(t, bad)
  BY <1>4, SameStatusCalm DEF RecordVerdict
<1>5. ASSUME NEW to \in {"READY", "BLOCKED", "QUEUED"}, Decide(t, to) PROVE Calm({}, {})
  BY <1>5, TransitionCalm DEF Decide
<1>6. ASSUME NEW to \in {"WAITING_SESSION", "BLOCKED", "CANCELLED"}, RecoverStale(t, to)
      PROVE  Calm({}, {})
  BY <1>6, TransitionCalm DEF RecoverStale
<1> QED BY <1>1, <1>2, <1>3, <1>4, <1>5, <1>6

\* transition_task to any status but the two that count.
LEMMA MoveCalm ==
    ASSUME StoreInv, NEW t \in Tasks, NEW to, to \notin {"DISPATCHING", "COMPLETED"}, NEW keep,
           Transition(t, to, keep)
    PROVE  GoodStep /\ Calm({}, {})
<1>1. to # "DISPATCHING" /\ to # "COMPLETED"
  OBVIOUS
<1>2. Calm({}, {})
  BY <1>1, TransitionCalm, Zenon
<1> QED BY <1>2, TransitionGood

\* mark_completed_with_evidence, of one task.
LEMMA CompleteCalm ==
    ASSUME StoreInv, NEW t \in Tasks, Complete(t) PROVE GoodStep /\ Calm({}, {t})
<1>1. PICK to : to = "COMPLETED" /\ to # "DISPATCHING" /\ Transition(t, to, TRUE)
  BY DEF Complete
<1>2. t \in {t}
  OBVIOUS
<1>3. Calm({}, {t})
  BY <1>1, <1>2, TransitionCalm, Zenon
<1> QED BY <1>1, <1>3, TransitionGood

\* DISPATCHING, of one task.
LEMMA DispatchCalm ==
    ASSUME StoreInv, NEW t \in Tasks, Transition(t, "DISPATCHING", TRUE) PROVE GoodStep /\ Calm({t}, {})
<1>1. PICK to : to # "COMPLETED" /\ Transition(t, to, TRUE)
  OBVIOUS
<1>2. t \in {t}
  OBVIOUS
<1>3. Calm({t}, {})
  BY <1>1, <1>2, TransitionCalm, Zenon
<1> QED BY <1>1, <1>3, TransitionGood

-------------------------------------------------------------------------------
\* The keys of a task are finitely many: none is above the attempts it can have.
LEMMA KeysFinite ==
    ASSUME EngineTypeOK, NEW t \in Tasks PROVE IsFiniteSet(Keys(t)) /\ Cardinality(Keys(t)) \in Nat
<1>1. \A g \in GrantsOf(t) : g.key \in 1..MaxAttempts
  BY DEF GrantsOf, EngineTypeOK, Grant
<1>2. \A e \in AtWork(t) : job[e].key \in 1..(MaxAttempts + 1)
  BY DEF AtWork, EngineTypeOK, Row
<1>3. NextKey(t) \in 0..(MaxAttempts + 1)
  BY QueueAssumption DEF NextKey, EngineTypeOK, TypeOK
<1>4. Keys(t) \subseteq 0..(MaxAttempts + 1)
  BY <1>1, <1>2, <1>3, QueueAssumption DEF Keys
<1>5. IsFiniteSet(0..(MaxAttempts + 1))
  BY FS_Interval, QueueAssumption
<1>6. IsFiniteSet(Keys(t))
  BY <1>4, <1>5, FS_Subset
<1> QED BY <1>6, FS_CardinalityType

\* No new key, and no more prompts are allowed than before.
LEMMA KeysShrink ==
    ASSUME EngineInv, NEW t \in Tasks, Keys(t)' \subseteq Keys(t), retries'[t] = retries[t]
    PROVE  Cardinality(Keys(t)') <= 1 + retries'[t]
<1>1. IsFiniteSet(Keys(t)) /\ Cardinality(Keys(t)) \in Nat
  BY KeysFinite DEF EngineInv
<1>2. IsFiniteSet(Keys(t)') /\ Cardinality(Keys(t)') <= Cardinality(Keys(t))
  BY <1>1, FS_Subset
<1>3. Cardinality(Keys(t)') \in Nat
  BY <1>2, FS_CardinalityType
<1>4. Cardinality(Keys(t)) <= 1 + retries[t] /\ retries[t] \in Nat
  BY EngineAssumption DEF EngineInv, EngineTypeOK
<1> QED BY <1>1, <1>2, <1>3, <1>4

\* The attempts of a task are numbers and never go down.
LEMMA AttemptsGrow ==
    ASSUME EngineInv, GoodStep, NEW D, NEW C, Calm(D, C), NEW t \in Tasks
    PROVE  attempts[t] \in Nat /\ attempts'[t] \in Nat /\ attempts'[t] >= attempts[t]
BY QueueAssumption DEF EngineInv, EngineTypeOK, TypeOK, GoodStep, Calm

\* A key stays what it is, and so does the next one: no attempt is counted for a
\* task that has no key yet.
LEMMA KeyKept ==
    ASSUME EngineInv, GoodStep, NEW D, NEW C, Calm(D, C),
           NEW t \in Tasks, t \notin D, key'[t] = key[t]
    PROVE  KeyOK(t)' /\ NextKey(t)' = NextKey(t)
<1>1. KeyOK(t) /\ key[t] \in Nat
  BY QueueAssumption DEF EngineInv, EngineTypeOK
<1>2. attempts[t] \in Nat /\ attempts'[t] \in Nat /\ attempts'[t] >= attempts[t]
  BY AttemptsGrow
<1>3. InDispatch(t)' => InDispatch(t)
  BY DEF Calm
<1>4. attempts'[t] = attempts[t] \/ InDispatch(t)'
  BY DEF Calm, InDispatch
<1> QED BY <1>1, <1>2, <1>3, <1>4 DEF KeyOK, NextKey

\* A tick that does nothing in this step.
LEMMA JobKept ==
    ASSUME EngineInv, GoodStep, NEW D, NEW C, Calm(D, C), NEW e \in Engines,
           pc'[e] = pc[e], job'[e] = job[e], done \subseteq done',
           pc[e] = "typing" /\ Untyped(e) => Untyped(e)'
    PROVE  JobOK(e)'
<1> SUFFICES ASSUME pc[e] # "idle" PROVE JobOK(e)'
  BY DEF JobOK
<1>1. JobOK(e) /\ job[e] \in Row
  BY DEF EngineInv, EngineTypeOK
<1>2. job[e].task \in Tasks /\ job[e].attempt \in Nat
  BY <1>1, QueueAssumption DEF Row
<1>3. /\ attempts[job[e].task] \in Nat /\ attempts'[job[e].task] \in Nat
      /\ attempts'[job[e].task] >= attempts[job[e].task]
  BY <1>2, AttemptsGrow
<1>4. Verified(e) => Verified(e)'
  BY DEF Verified
<1> QED BY <1>1, <1>2, <1>3, <1>4 DEF JobOK

\* The tick does not begin to type in this step.
StartsNoTyping(e) == pc'[e] = "typing" => pc[e] = "typing" /\ job'[e] = job[e]

\* What was granted and typed is not touched, and no tick begins to type.
LEMMA SendKept ==
    ASSUME EngineInv, UNCHANGED <<grants, typed>>, \A x \in Engines : StartsNoTyping(x)
    PROVE  SendOK'
<1>1. \A x, y \in Engines :
        /\ pc'[x] = "typing" /\ pc'[y] = "typing"
        /\ job'[x].task = job'[y].task /\ job'[x].key = job'[y].key /\ job'[x].claim = job'[y].claim
        => x = y
  BY DEF EngineInv, SendOK, StartsNoTyping
<1> QED BY <1>1 DEF EngineInv, SendOK

\* Only what the markers prove is completed.
LEMMA CompletionKept ==
    ASSUME EngineInv, NEW D, NEW C, Calm(D, C), done \subseteq done',
           \A t \in C : \E p \in done' : p.task = t
    PROVE  CompletedOnlyWhenDone'
BY DEF EngineInv, CompletedOnlyWhenDone, Calm

-------------------------------------------------------------------------------
\* The steps of the store that no tick notices.
LEMMA StoreStepKeeps ==
    ASSUME EngineInv, GoodStep, Calm({}, {}), UNCHANGED engineVars PROVE Kept
<1> USE DEF engineVars
<1>1. StoreInv'
  BY GoodStepKeeps DEF EngineInv
<1>2. EngineTypeOK'
  BY DEF EngineInv, EngineTypeOK, GoodStep
<1>3. ASSUME NEW t \in Tasks PROVE KeyOK(t)' /\ Cardinality(Keys(t)') <= 1 + retries'[t]
  <2>1. KeyOK(t)' /\ NextKey(t)' = NextKey(t)
    BY KeyKept
  <2>2. Keys(t)' \subseteq Keys(t)
    BY <2>1 DEF Keys, GrantsOf, AtWork
  <2> QED BY <2>1, <2>2, KeysShrink
<1>4. ASSUME NEW e \in Engines PROVE JobOK(e)'
  BY JobKept DEF Untyped
<1>5. CompletedOnlyWhenDone'
  BY CompletionKept
<1>6. SendOK'
  BY SendKept DEF StartsNoTyping
<1> QED BY <1>1, <1>2, <1>3, <1>4, <1>5, <1>6 DEF EngineInv, Kept

\* Tick e goes on in phase ph with row j, or ends.
TickTo(e, ph, j) ==
    /\ pc' = [pc EXCEPT ![e] = ph]
    /\ job' = [job EXCEPT ![e] = j]
    /\ \/ ph = "idle" /\ j = NoJob
       \/ ph \in Phases \ {"typing"} /\ j \in Row /\ j.key \in Keys(j.task) /\ JobOK(e)'

\* There is a marker for each of the tasks in C.
Shown(C) == \A t \in C : \E p \in done : p.task = t

\* The steps of a tick that change no key and type nothing, and may have
\* completed a task.
LEMMA TickStepKeeps ==
    ASSUME EngineInv, GoodStep, NEW C, Calm({}, C), Shown(C),
           NEW e \in Engines, NEW ph, NEW j, TickTo(e, ph, j),
           UNCHANGED <<key, grants, answered, typed, done, retries>>
    PROVE  Kept
<1> USE DEF TickTo, Shown
<1>1. StoreInv'
  BY GoodStepKeeps DEF EngineInv
<1>2. pc'[e] = ph /\ job'[e] = j /\ \A x \in Engines \ {e} : pc'[x] = pc[x] /\ job'[x] = job[x]
  BY DEF EngineInv, EngineTypeOK
<1>3. EngineTypeOK'
  <2>1. "idle" \notin Phases /\ NoJob \notin Row
    BY EngineAssumption DEF Phases
  <2>2. pc' \in [Engines -> Phases \cup {"idle"}] /\ job' \in [Engines -> Row \cup {NoJob}]
    BY DEF EngineInv, EngineTypeOK
  <2>3. \A x \in Engines : job'[x] = NoJob <=> pc'[x] = "idle"
    BY <1>2, <2>1 DEF EngineInv, EngineTypeOK
  <2> QED BY <2>2, <2>3 DEF EngineInv, EngineTypeOK, GoodStep
<1>4. ASSUME NEW t \in Tasks PROVE KeyOK(t)' /\ Cardinality(Keys(t)') <= 1 + retries'[t]
  <2>1. KeyOK(t)' /\ NextKey(t)' = NextKey(t)
    BY KeyKept
  <2>2. ASSUME NEW x \in AtWork(t)' PROVE job'[x].key \in Keys(t)
    BY <1>2, <2>2 DEF AtWork, Keys
  <2>3. Keys(t)' \subseteq Keys(t)
    BY <2>1, <2>2 DEF Keys, GrantsOf
  <2> QED BY <2>1, <2>3, KeysShrink
<1>5. ASSUME NEW x \in Engines PROVE JobOK(x)'
  <2>1. CASE x = e
    BY <1>2, <2>1 DEF JobOK
  <2>2. CASE x # e
    BY <1>2, <2>2, JobKept DEF Untyped
  <2> QED BY <2>1, <2>2
<1>6. CompletedOnlyWhenDone'
  BY CompletionKept
<1>7. SendOK'
  <2>1. ph # "typing"
    BY DEF Phases
  <2>2. \A x \in Engines : StartsNoTyping(x)
    BY <1>2, <2>1 DEF StartsNoTyping
  <2> QED BY <2>2, SendKept
<1> QED BY <1>1, <1>3, <1>4, <1>5, <1>6, <1>7 DEF EngineInv, Kept

\* A tick that ends, after what it wrote.
LEMMA FinishKeeps ==
    ASSUME EngineInv, GoodStep, NEW C, Calm({}, C), NEW e \in Engines, Finish(e),
           UNCHANGED <<key, grants, answered, typed, done, retries>>, Shown(C)
    PROVE  Kept
<1>1. TickTo(e, "idle", NoJob)
  BY DEF Finish, TickTo
<1> QED BY <1>1, TickStepKeeps

\* A tick that goes on with the row it has.
LEMMA GoKeeps ==
    ASSUME EngineInv, GoodStep, Calm({}, {}), NEW e \in Engines, pc[e] # "idle",
           NEW ph \in Phases \ {"send", "typing"}, Go(e, ph), ph = "storing" => pc[e] = "typing", ph \in {"proven", "verified"} => Verified(e),
           UNCHANGED <<key, grants, answered, typed, done, retries>>
    PROVE  Kept
<1>1. job[e] \in Row /\ job' = [job EXCEPT ![e] = job[e]] /\ JobOK(e)
  BY DEF Go, EngineInv, EngineTypeOK
<1>2. job[e].task \in Tasks /\ job[e].attempt \in Nat
  BY <1>1, QueueAssumption DEF Row
<1>3. job[e].key \in Keys(job[e].task)
  BY DEF Keys, AtWork
<1>4. pc' = [pc EXCEPT ![e] = ph] /\ pc'[e] = ph /\ job'[e] = job[e]
  BY DEF Go, EngineInv, EngineTypeOK
<1>5. JobOK(e)'
  <2>1. /\ attempts[job[e].task] \in Nat /\ attempts'[job[e].task] \in Nat
        /\ attempts'[job[e].task] >= attempts[job[e].task]
    BY <1>2, AttemptsGrow
  <2>2. Verified(e) => Verified(e)'
    BY <1>4 DEF Verified
  <2> QED BY <1>1, <1>2, <1>4, <2>1, <2>2 DEF JobOK
<1>6. PICK j \in Row : j = job[e]
  BY <1>1
<1>7. TickTo(e, ph, j)
  BY <1>1, <1>3, <1>4, <1>5, <1>6 DEF TickTo
<1>8. Shown({})
  BY DEF Shown
<1> QED BY <1>7, <1>8, TickStepKeeps

\* A tick that starts reads the row as it is.
LEMMA StartKeeps ==
    ASSUME EngineInv, NEW e \in Engines, NEW t \in Tasks, status[t] # "ABSENT",
           NEW ph \in Phases \ {"send", "typing", "storing", "proven", "verified"}, Start(e, t, ph)
    PROVE  Kept
<1>1. GoodStep /\ Calm({}, {})
  BY NextGood, SameStatusCalm DEF Start, vars, taskVars, EngineInv
<1>2. pc' = [pc EXCEPT ![e] = ph] /\ job' = [job EXCEPT ![e] = Read(t)]
      /\ UNCHANGED <<key, grants, answered, typed, done, retries>> /\ attempts' = attempts
  BY DEF Start, vars, taskVars
<1>3. /\ attempts[t] \in 0..MaxAttempts /\ key[t] \in 0..MaxAttempts /\ key[t] <= attempts[t]
      /\ session[t] \in Lanes /\ status[t] \in Status
  BY HasLane DEF EngineInv, EngineTypeOK, TypeOK, KeyOK
<1>4. NextKey(t) \in 1..(MaxAttempts + 1) /\ NextKey(t) <= attempts[t] + 1
  BY <1>3, QueueAssumption DEF NextKey
<1>5. Read(t) \in Row
  BY <1>3, <1>4, EngineAssumption DEF Read, Row
<1>6. Read(t).key \in Keys(Read(t).task)
  BY DEF Read, Keys
<1>7. JobOK(e)'
  <2>1. pc'[e] = ph /\ job'[e] = Read(t)
    BY <1>2 DEF EngineInv, EngineTypeOK
  <2>2. job'[e].task = t /\ job'[e].attempt = attempts[t] /\ job'[e].key = NextKey(t)
    BY <2>1 DEF Read
  <2> QED BY <1>2, <1>3, <1>4, <2>1, <2>2, QueueAssumption DEF JobOK
<1>8. PICK j \in Row : j = Read(t)
  BY <1>5
<1>9. TickTo(e, ph, j)
  BY <1>2, <1>6, <1>7, <1>8 DEF TickTo
<1>10. Shown({})
  BY DEF Shown
<1> QED BY <1>1, <1>2, <1>9, <1>10, TickStepKeeps

\* DISPATCHING and the key are written together: the key was one of the task's
\* already, and a new attempt has been counted.
LEMMA DispatchKeeps ==
    ASSUME EngineInv, NEW e \in Engines, Dispatch(e) PROVE Kept
<1>1. /\ pc[e] = "dispatch" /\ pc' = [pc EXCEPT ![e] = "send"]
      /\ UNCHANGED <<job, grants, answered, typed, done, retries>>
      /\ Transition(job[e].task, "DISPATCHING", TRUE)
      /\ key' = [key EXCEPT ![job[e].task] = job[e].key]
  BY DEF Dispatch, Go
<1>2. job[e] \in Row /\ JobOK(e)
  BY <1>1 DEF EngineInv, EngineTypeOK
<1>3. PICK t \in Tasks, k \in 1..(MaxAttempts + 1), a \in 0..MaxAttempts :
        job[e].task = t /\ job[e].key = k /\ job[e].attempt = a
  BY <1>2 DEF Row
<1>4. GoodStep /\ Calm({t}, {})
  <2>1. StoreInv /\ Transition(t, "DISPATCHING", TRUE)
    BY <1>1, <1>3 DEF EngineInv
  <2> QED BY <2>1, DispatchCalm
<1>5. attempts'[t] = attempts[t] + 1 /\ attempts[t] \in Nat /\ attempts'[t] \in 0..MaxAttempts
  <2>1. Allowed(t, "DISPATCHING") /\ Transitioned(One(t, "DISPATCHING"), {}, status)
    BY <1>1, <1>3 DEF Transition
  <2>2. status[t] # "DISPATCHING"
    BY <2>1 DEF Allowed, ValidTransitions
  <2>3. One(t, "DISPATCHING")[t] = "DISPATCHING"
    BY DEF One, EngineInv, StoreInv, TypeOK
  <2>4. attempts'[t] = attempts[t] + 1
    BY <2>1, <2>2, <2>3 DEF Transitioned
  <2> QED BY <1>4, <2>4, QueueAssumption DEF EngineInv, EngineTypeOK, TypeOK, GoodStep
<1>6. a <= attempts[t] /\ k <= a + 1
  BY <1>1, <1>2, <1>3 DEF JobOK
<1>7. k <= attempts'[t] /\ a < attempts'[t] /\ k \in 1..MaxAttempts
  BY <1>5, <1>6, QueueAssumption
<1>8. key' = [key EXCEPT ![t] = k]
  BY <1>1, <1>3
<1>9. StoreInv'
  BY <1>4, GoodStepKeeps DEF EngineInv
<1>10. EngineTypeOK'
  <2>1. key' \in [Tasks -> 0..MaxAttempts]
    BY <1>7, <1>8, QueueAssumption DEF EngineInv, EngineTypeOK
  <2>2. pc' \in [Engines -> Phases \cup {"idle"}]
    BY <1>1 DEF EngineInv, EngineTypeOK, Phases
  <2>3. \A x \in Engines : job'[x] = NoJob <=> pc'[x] = "idle"
    BY <1>1 DEF EngineInv, EngineTypeOK
  <2> QED BY <1>1, <1>4, <2>1, <2>2, <2>3 DEF EngineInv, EngineTypeOK, GoodStep
<1>11. ASSUME NEW u \in Tasks PROVE KeyOK(u)' /\ Cardinality(Keys(u)') <= 1 + retries'[u]
  <2>1. CASE u # t
    <3>1. key'[u] = key[u]
      BY <1>8, <2>1 DEF EngineInv, EngineTypeOK
    <3>2. KeyOK(u)' /\ NextKey(u)' = NextKey(u)
      BY <1>4, <2>1, <3>1, KeyKept
    <3>3. Keys(u)' \subseteq Keys(u)
      BY <1>1, <3>2 DEF Keys, GrantsOf, AtWork, EngineInv, EngineTypeOK
    <3> QED BY <1>1, <3>2, <3>3, KeysShrink
  <2>2. CASE u = t
    <3>1. key'[t] = k
      BY <1>8 DEF EngineInv, EngineTypeOK
    <3>2. KeyOK(t)' /\ NextKey(t)' = k
      BY <1>7, <3>1 DEF KeyOK, NextKey
    <3>3. k \in Keys(t)
      BY <1>1, <1>3 DEF Keys, AtWork
    <3>4. Keys(t)' \subseteq Keys(t)
      BY <1>1, <3>2, <3>3 DEF Keys, GrantsOf, AtWork, EngineInv, EngineTypeOK
    <3> QED BY <1>1, <2>2, <3>2, <3>4, KeysShrink
  <2> QED BY <2>1, <2>2
<1>12. ASSUME NEW x \in Engines PROVE JobOK(x)'
  <2>1. CASE x = e
    <3>1. pc'[e] = "send" /\ job'[e] = job[e]
      BY <1>1 DEF EngineInv, EngineTypeOK
    <3> QED BY <1>3, <1>5, <1>6, <1>7, <2>1, <3>1 DEF JobOK
  <2>2. CASE x # e
    <3>1. pc'[x] = pc[x] /\ job'[x] = job[x] /\ done \subseteq done'
      BY <1>1, <2>2 DEF EngineInv, EngineTypeOK
    <3> QED BY <1>1, <1>4, <3>1, JobKept DEF Untyped
  <2> QED BY <2>1, <2>2
<1>13. CompletedOnlyWhenDone'
  BY <1>1, <1>4, CompletionKept
<1>14. SendOK'
  <2>1. \A x \in Engines : StartsNoTyping(x)
    BY <1>1 DEF StartsNoTyping, EngineInv, EngineTypeOK
  <2> QED BY <1>1, <2>1, SendKept
<1> QED BY <1>4, <1>9, <1>10, <1>11, <1>12, <1>13, <1>14 DEF EngineInv, Kept

\* What the tick's own calls around the key have in common: the store is left
\* alone, the tick keeps its row but for the claim, and no key is new.
SendStep(e, ph) ==
    /\ UNCHANGED <<vars, key, done, retries>>
    /\ pc' = [pc EXCEPT ![e] = ph]
    /\ \A x \in Engines \ {e} : job'[x] = job[x]
    /\ job'[e].task = job[e].task /\ job'[e].key = job[e].key /\ job'[e].attempt = job[e].attempt
    /\ \A g \in grants' : g \in grants \/ (g.task = job[e].task /\ g.key = job[e].key)

\* Such a step keeps the invariant if it respects the claims.
LEMMA SendStepKeeps ==
    ASSUME EngineInv, NEW e \in Engines, pc[e] \in {"send", "typing", "storing"},
           NEW ph \in {"typing", "storing", "sent"}, SendStep(e, ph), EngineTypeOK', SendOK',
           ph = "typing" => Untyped(e)',
           \A x \in Engines \ {e} : pc[x] = "typing" /\ Untyped(x) => Untyped(x)'
    PROVE  Kept
<1>1. /\ UNCHANGED <<vars, key, done, retries>> /\ pc' = [pc EXCEPT ![e] = ph]
      /\ \A x \in Engines \ {e} : job'[x] = job[x]
      /\ job'[e].task = job[e].task /\ job'[e].key = job[e].key /\ job'[e].attempt = job[e].attempt
      /\ \A g \in grants' : g \in grants \/ (g.task = job[e].task /\ g.key = job[e].key)
  BY DEF SendStep
<1>2. pc'[e] = ph /\ \A x \in Engines \ {e} : pc'[x] = pc[x]
  BY <1>1 DEF EngineInv, EngineTypeOK
<1>3. GoodStep /\ Calm({}, {})
  BY <1>1, NextGood, SameStatusCalm DEF vars, taskVars, EngineInv
<1>4. StoreInv'
  BY <1>3, GoodStepKeeps DEF EngineInv
<1>5. ASSUME NEW u \in Tasks PROVE KeyOK(u)' /\ Cardinality(Keys(u)') <= 1 + retries'[u]
  <2>1. KeyOK(u)' /\ NextKey(u)' = NextKey(u)
    BY <1>1, <1>3, KeyKept
  <2>2. ASSUME NEW g \in GrantsOf(u)' PROVE g.key \in Keys(u)
    <3>1. CASE g \in grants
      BY <2>2, <3>1 DEF GrantsOf, Keys
    <3>2. CASE g \notin grants
      <4>1. g.key = job[e].key /\ e \in AtWork(u)
        BY <1>1, <2>2, <3>2 DEF GrantsOf, AtWork
      <4> QED BY <4>1 DEF Keys
    <3> QED BY <3>1, <3>2
  <2>3. ASSUME NEW x \in AtWork(u)' PROVE job'[x].key \in Keys(u)
    <3>1. x \in AtWork(u) /\ job'[x].key = job[x].key
      BY <1>1, <1>2, <2>3 DEF AtWork
    <3> QED BY <3>1 DEF Keys
  <2>4. Keys(u)' \subseteq Keys(u)
    BY <2>1, <2>2, <2>3 DEF Keys
  <2> QED BY <1>1, <2>1, <2>4, KeysShrink
<1>6. ASSUME NEW x \in Engines PROVE JobOK(x)'
  <2>1. CASE x = e
    <3>1. JobOK(e) /\ attempts' = attempts /\ ph \notin {"idle", "send", "proven", "verified"}
      BY <1>1 DEF EngineInv, vars, taskVars
    <3> QED BY <1>1, <1>2, <2>1, <3>1 DEF JobOK
  <2>2. CASE x # e
    BY <1>1, <1>2, <1>3, <2>2, JobKept
  <2> QED BY <2>1, <2>2
<1>7. CompletedOnlyWhenDone'
  BY <1>1, <1>3, CompletionKept
<1> QED BY <1>3, <1>4, <1>5, <1>6, <1>7 DEF EngineInv, Kept

\* A tick that sends holds a key and an attempt within the bounds.
LEMMA Sending ==
    ASSUME EngineInv, NEW e \in Engines, pc[e] \in {"send", "typing", "storing"}
    PROVE  /\ job[e] \in Row /\ job[e].task \in Tasks /\ job[e].lane \in Lanes
           /\ job[e].key \in 1..MaxAttempts /\ job[e].attempt + 1 \in 1..MaxAttempts
           /\ job[e].claim \in 0..MaxReclaims
<1>1. job[e] \in Row /\ JobOK(e)
  BY DEF EngineInv, EngineTypeOK
<1>2. /\ job[e].task \in Tasks /\ job[e].lane \in Lanes /\ job[e].key \in 1..(MaxAttempts + 1)
      /\ job[e].attempt \in 0..MaxAttempts /\ job[e].claim \in 0..MaxReclaims
  BY <1>1 DEF Row
<1>3. attempts[job[e].task] \in 0..MaxAttempts
  BY <1>2 DEF EngineInv, EngineTypeOK, TypeOK
<1>4. job[e].key <= job[e].attempt + 1 /\ job[e].attempt < attempts[job[e].task]
  BY <1>1 DEF JobOK
<1> QED BY <1>1, <1>2, <1>3, <1>4, QueueAssumption

\* A claim is a new one: nothing was typed under it and no other tick holds it.
LEMMA SendClaimsKeeps ==
    ASSUME EngineInv, NEW e \in Engines, SendClaims(e) PROVE Kept
<1>1. PICK n \in 0..MaxReclaims :
        /\ CanClaim(e, n) /\ grants' = grants \cup {GrantOf(e, n)}
        /\ job' = [job EXCEPT ![e] = [@ EXCEPT !.claim = n]]
  BY DEF SendClaims
<1>2. /\ pc[e] = "send" /\ pc' = [pc EXCEPT ![e] = "typing"]
      /\ UNCHANGED <<vars, key, answered, typed, done, retries>>
  BY DEF SendClaims
<1>3. PICK t \in Tasks, k \in 1..MaxAttempts :
        job[e].task = t /\ job[e].key = k /\ job[e] \in Row
  BY <1>2, Sending
<1>4. PICK j \in Row : j = [job[e] EXCEPT !.claim = n]
  BY <1>3 DEF Row
<1>5. j.task = t /\ j.key = k /\ j.claim = n /\ j.attempt = job[e].attempt
  BY <1>3, <1>4 DEF Row
<1>6. /\ job'[e] = j /\ \A x \in Engines \ {e} : job'[x] = job[x]
      /\ job' = [job EXCEPT ![e] = j]
  BY <1>1, <1>4 DEF EngineInv, EngineTypeOK
<1>7. pc'[e] = "typing" /\ \A x \in Engines \ {e} : pc'[x] = pc[x]
  BY <1>2 DEF EngineInv, EngineTypeOK
<1>8. PICK g \in Grant : g.task = t /\ g.key = k /\ g.claim = n /\ grants' = grants \cup {g}
  BY <1>1, <1>3 DEF Grant, GrantOf
<1>9. \A h \in grants : ~(h.task = t /\ h.key = k /\ h.claim = n)
  BY <1>1, <1>3 DEF CanClaim, Claimed
<1>10. EngineTypeOK'
  <2>1. grants' \subseteq Grant
    BY <1>8 DEF EngineInv, EngineTypeOK
  <2>2. pc' \in [Engines -> Phases \cup {"idle"}] /\ job' \in [Engines -> Row \cup {NoJob}]
    BY <1>2, <1>6 DEF EngineInv, EngineTypeOK, Phases
  <2>3. \A x \in Engines : job'[x] = NoJob <=> pc'[x] = "idle"
    BY <1>6, <1>7, EngineAssumption DEF EngineInv, EngineTypeOK
  <2>4. TypeOK'
    BY <1>2 DEF EngineInv, StoreInv, TypeOK, vars, taskVars
  <2> QED BY <1>2, <2>1, <2>2, <2>3, <2>4 DEF EngineInv, EngineTypeOK
<1>11. Untyped(e)'
  <2>1. \A p \in typed : ~(p.task = t /\ p.key = k /\ p.claim = n)
    BY <1>9 DEF EngineInv, SendOK
  <2> QED BY <1>2, <1>5, <1>6, <1>8, <2>1 DEF Untyped
<1>12. ASSUME NEW x \in Engines \ {e}, pc[x] = "typing"
       PROVE  Untyped(x) /\ Untyped(x)' /\ ~(job[x].task = t /\ job[x].key = k /\ job[x].claim = n)
  <2>1. Untyped(x)
    BY <1>12 DEF EngineInv, JobOK
  <2>2. job'[x] = job[x]
    BY <1>6
  <2> QED BY <1>2, <1>8, <1>9, <2>1, <2>2 DEF Untyped
<1>13. SendOK'
  <2>1. \A p \in typed' : \E h \in grants' : h.task = p.task /\ h.key = p.key /\ h.claim = p.claim
    BY <1>2, <1>8 DEF EngineInv, SendOK
  <2>2. ASSUME NEW x \in Engines, NEW y \in Engines, pc'[x] = "typing", pc'[y] = "typing",
               job'[x].task = job'[y].task, job'[x].key = job'[y].key, job'[x].claim = job'[y].claim
        PROVE  x = y
    <3>1. CASE x # e /\ y # e
      BY <1>6, <1>7, <2>2, <3>1 DEF EngineInv, SendOK
    <3>2. CASE x = e \/ y = e
      BY <1>5, <1>6, <1>7, <1>12, <2>2, <3>2
    <3> QED BY <3>1, <3>2
  <2> QED BY <1>2, <2>1, <2>2 DEF EngineInv, SendOK
<1>14. PICK ph \in {"typing", "storing", "sent"} : ph = "typing"
  OBVIOUS
<1>15. SendStep(e, ph)
  BY <1>2, <1>3, <1>5, <1>6, <1>8, <1>14 DEF SendStep
<1> QED BY <1>2, <1>10, <1>11, <1>12, <1>13, <1>14, <1>15, SendStepKeeps

\* A prompt is typed under a claim that its tick holds and that no prompt has.
LEMMA SendTypesKeeps ==
    ASSUME EngineInv, NEW e \in Engines, SendTypes(e) PROVE Kept
<1>1. /\ pc[e] = "typing" /\ pc' = [pc EXCEPT ![e] = "storing"]
      /\ UNCHANGED <<vars, job, key, grants, answered, done, retries>>
      /\ typed' = typed \cup {[task |-> job[e].task, lane |-> job[e].lane, key |-> job[e].key,
                               attempt |-> job[e].attempt + 1, claim |-> job[e].claim]}
  BY DEF SendTypes, Go
<1>2. Untyped(e)
  BY <1>1 DEF EngineInv, JobOK
<1>3. PICK t \in Tasks, l \in Lanes, k \in 1..MaxAttempts, a \in 1..MaxAttempts, n \in 0..MaxReclaims :
        job[e].task = t /\ job[e].lane = l /\ job[e].key = k /\ job[e].attempt + 1 = a /\ job[e].claim = n
  BY <1>1, Sending
<1>4. PICK p \in Prompt : p.task = t /\ p.key = k /\ p.claim = n /\ typed' = typed \cup {p}
  BY <1>1, <1>3 DEF Prompt
<1>5. pc'[e] = "storing" /\ \A x \in Engines \ {e} : pc'[x] = pc[x]
  BY <1>1 DEF EngineInv, EngineTypeOK
<1>6. EngineTypeOK'
  <2>1. typed' \subseteq Prompt /\ done' \subseteq typed'
    BY <1>1, <1>4 DEF EngineInv, EngineTypeOK
  <2>2. pc' \in [Engines -> Phases \cup {"idle"}]
    BY <1>1 DEF EngineInv, EngineTypeOK, Phases
  <2>3. \A x \in Engines : job'[x] = NoJob <=> pc'[x] = "idle"
    BY <1>1 DEF EngineInv, EngineTypeOK
  <2>4. TypeOK'
    BY <1>1 DEF EngineInv, StoreInv, TypeOK, vars, taskVars
  <2> QED BY <1>1, <2>1, <2>2, <2>3, <2>4 DEF EngineInv, EngineTypeOK
<1>7. ASSUME NEW x \in Engines \ {e}, pc[x] = "typing", Untyped(x) PROVE Untyped(x)'
  <2>1. ~(job[x].task = t /\ job[x].key = k /\ job[x].claim = n)
    BY <1>1, <1>3, <1>7 DEF EngineInv, SendOK
  <2> QED BY <1>1, <1>4, <1>7, <2>1 DEF Untyped
<1>8. SendOK'
  <2>1. \A q \in typed : ~(q.task = t /\ q.key = k /\ q.claim = n)
    BY <1>2, <1>3 DEF Untyped
  <2>2. \E g \in grants : g.task = t /\ g.key = k /\ g.claim = n
    BY <1>2, <1>3 DEF Untyped
  <2>3. \A q, r \in typed' : q.task = r.task /\ q.key = r.key /\ q.claim = r.claim => q = r
    BY <1>4, <2>1 DEF EngineInv, SendOK
  <2>4. \A q \in typed' : \E g \in grants' : g.task = q.task /\ g.key = q.key /\ g.claim = q.claim
    BY <1>1, <1>4, <2>2 DEF EngineInv, SendOK
  <2>5. \A x, y \in Engines :
          /\ pc'[x] = "typing" /\ pc'[y] = "typing"
          /\ job'[x].task = job'[y].task /\ job'[x].key = job'[y].key /\ job'[x].claim = job'[y].claim
          => x = y
    BY <1>1, <1>5 DEF EngineInv, SendOK
  <2> QED BY <2>3, <2>4, <2>5 DEF SendOK
<1>9. PICK ph \in {"typing", "storing", "sent"} : ph = "storing"
  OBVIOUS
<1>10. SendStep(e, ph)
  BY <1>1, <1>9 DEF SendStep
<1> QED BY <1>1, <1>6, <1>7, <1>8, <1>9, <1>10, SendStepKeeps

\* The result is stored.
LEMMA SendStoresKeeps ==
    ASSUME EngineInv, NEW e \in Engines, SendStores(e) PROVE Kept
<1>1. /\ pc[e] = "storing" /\ pc' = [pc EXCEPT ![e] = "sent"]
      /\ UNCHANGED <<vars, job, key, grants, typed, done, retries>>
      /\ answered' = answered \cup {KeyOf(e)}
  BY DEF SendStores, Go
<1>2. KeyOf(e) \in [task : Tasks, key : 1..MaxAttempts]
  BY <1>1, Sending DEF KeyOf
<1>3. EngineTypeOK'
  <2>1. answered' \subseteq [task : Tasks, key : 1..MaxAttempts]
    BY <1>1, <1>2 DEF EngineInv, EngineTypeOK
  <2>2. pc' \in [Engines -> Phases \cup {"idle"}]
    BY <1>1 DEF EngineInv, EngineTypeOK, Phases
  <2>3. \A x \in Engines : job'[x] = NoJob <=> pc'[x] = "idle"
    BY <1>1 DEF EngineInv, EngineTypeOK
  <2>4. TypeOK'
    BY <1>1 DEF EngineInv, StoreInv, TypeOK, vars, taskVars
  <2> QED BY <1>1, <2>1, <2>2, <2>3, <2>4 DEF EngineInv, EngineTypeOK
<1>4. SendOK'
  <2>1. \A x \in Engines : StartsNoTyping(x)
    BY <1>1 DEF StartsNoTyping, EngineInv, EngineTypeOK
  <2> QED BY <1>1, <2>1, SendKept
<1>5. \A x \in Engines \ {e} : Untyped(x) => Untyped(x)'
  BY <1>1 DEF Untyped
<1>6. PICK ph \in {"typing", "storing", "sent"} : ph = "sent"
  OBVIOUS
<1>7. SendStep(e, ph)
  BY <1>1, <1>6 DEF SendStep
<1> QED BY <1>1, <1>3, <1>4, <1>5, <1>6, <1>7, SendStepKeeps

\* A marker that an agent prints.
LEMMA AgentDoneKeeps ==
    ASSUME EngineInv, NEW p \in typed, AgentDone(p) PROVE Kept
<1>1. UNCHANGED <<vars, key, pc, job, grants, answered, typed, retries>> /\ done' = done \cup {p}
  BY DEF AgentDone
<1>2. GoodStep /\ Calm({}, {})
  BY <1>1, NextGood, SameStatusCalm DEF vars, taskVars, EngineInv
<1>3. StoreInv'
  BY <1>2, GoodStepKeeps DEF EngineInv
<1>4. EngineTypeOK'
  BY <1>1, <1>2 DEF EngineInv, EngineTypeOK, GoodStep
<1>5. ASSUME NEW t \in Tasks PROVE KeyOK(t)' /\ Cardinality(Keys(t)') <= 1 + retries'[t]
  <2>1. KeyOK(t)' /\ NextKey(t)' = NextKey(t)
    BY <1>1, <1>2, KeyKept
  <2>2. Keys(t)' \subseteq Keys(t)
    BY <1>1, <2>1 DEF Keys, GrantsOf, AtWork
  <2> QED BY <1>1, <2>1, <2>2, KeysShrink
<1>6. ASSUME NEW e \in Engines PROVE JobOK(e)'
  BY <1>1, <1>2, JobKept DEF Untyped
<1>7. CompletedOnlyWhenDone'
  BY <1>1, <1>2, CompletionKept
<1>8. SendOK'
  BY <1>1, SendKept DEF StartsNoTyping
<1> QED BY <1>2, <1>3, <1>4, <1>5, <1>6, <1>7, <1>8 DEF EngineInv, Kept

\* retry_task clears the key: one more key, and one more prompt is allowed.
LEMMA RetryKeeps ==
    ASSUME EngineInv, NEW t \in Tasks, RetryTask(t) PROVE Kept
<1>1. /\ Transition(t, "QUEUED", TRUE) /\ Retry(t) /\ retries[t] < MaxRetries
      /\ key' = [key EXCEPT ![t] = 0] /\ retries' = [retries EXCEPT ![t] = @ + 1]
      /\ UNCHANGED <<pc, job, grants, answered, typed, done>>
  BY DEF RetryTask, Retry
<1>2. GoodStep /\ Calm({}, {})
  <2>1. StoreInv
    BY DEF EngineInv
  <2>2. PICK to : to \notin {"DISPATCHING", "COMPLETED"} /\ Transition(t, to, TRUE)
    BY <1>1
  <2> QED BY <2>1, <2>2, MoveCalm
<1>3. StoreInv'
  BY <1>2, GoodStepKeeps DEF EngineInv
<1>4. key'[t] = 0 /\ retries'[t] = retries[t] + 1 /\ retries[t] \in Nat
      /\ \A u \in Tasks \ {t} : key'[u] = key[u] /\ retries'[u] = retries[u]
  BY <1>1, EngineAssumption DEF EngineInv, EngineTypeOK
<1>5. EngineTypeOK'
  <2>1. key' \in [Tasks -> 0..MaxAttempts] /\ retries' \in [Tasks -> 0..MaxRetries]
    BY <1>1, QueueAssumption, EngineAssumption DEF EngineInv, EngineTypeOK
  <2> QED BY <1>1, <1>2, <2>1 DEF EngineInv, EngineTypeOK, GoodStep
<1>6. \A u \in Tasks : GrantsOf(u)' = GrantsOf(u) /\ AtWork(u)' = AtWork(u)
  BY <1>1 DEF GrantsOf, AtWork
<1>7. ASSUME NEW u \in Tasks PROVE KeyOK(u)' /\ Cardinality(Keys(u)') <= 1 + retries'[u]
  <2>1. CASE u # t
    <3>1. KeyOK(u)' /\ NextKey(u)' = NextKey(u)
      BY <1>2, <1>4, <2>1, KeyKept
    <3>2. Keys(u)' \subseteq Keys(u)
      BY <1>1, <1>6, <3>1 DEF Keys
    <3> QED BY <1>4, <2>1, <3>1, <3>2, KeysShrink
  <2>2. CASE u = t
    <3>1. attempts[t] \in Nat /\ attempts'[t] \in Nat
      BY <1>2, AttemptsGrow
    <3>2. status'[t] = "QUEUED"
      BY <1>1 DEF Transition, Transitioned, One, EngineInv, StoreInv, TypeOK
    <3>3. KeyOK(t)'
      BY <1>4, <3>1, <3>2 DEF KeyOK, InDispatch
    <3>4. PICK k : k = NextKey(t)'
      OBVIOUS
    <3>5. Keys(t)' \subseteq Keys(t) \cup {k}
      BY <1>1, <1>6, <3>4 DEF Keys
    <3>6. IsFiniteSet(Keys(t)) /\ Cardinality(Keys(t)) \in Nat /\ Cardinality(Keys(t)) <= 1 + retries[t]
      BY KeysFinite DEF EngineInv
    <3>7. IsFiniteSet(Keys(t) \cup {k}) /\ Cardinality(Keys(t) \cup {k}) <= Cardinality(Keys(t)) + 1
      <4>1. /\ IsFiniteSet(Keys(t) \cup {k})
            /\ Cardinality(Keys(t) \cup {k}) = IF k \in Keys(t) THEN Cardinality(Keys(t))
                                               ELSE Cardinality(Keys(t)) + 1
        BY <3>6, FS_AddElement, Zenon
      <4> QED BY <3>6, <4>1
    <3>8. Cardinality(Keys(t) \cup {k}) \in Nat
      BY <3>7, FS_CardinalityType
    <3>9. IsFiniteSet(Keys(t)') /\ Cardinality(Keys(t)') <= Cardinality(Keys(t) \cup {k})
      BY <3>5, <3>7, FS_Subset
    <3>10. Cardinality(Keys(t)') \in Nat
      BY <3>9, FS_CardinalityType
    <3> QED BY <1>4, <2>2, <3>3, <3>6, <3>7, <3>8, <3>9, <3>10
  <2> QED BY <2>1, <2>2
<1>8. ASSUME NEW e \in Engines PROVE JobOK(e)'
  BY <1>1, <1>2, JobKept DEF Untyped
<1>9. CompletedOnlyWhenDone'
  BY <1>1, <1>2, CompletionKept
<1>10. SendOK'
  BY <1>1, SendKept DEF StartsNoTyping
<1> QED BY <1>2, <1>3, <1>5, <1>7, <1>8, <1>9, <1>10 DEF EngineInv, Kept

-------------------------------------------------------------------------------
\* The other methods that a tick calls on its task.
LEMMA MethodCalm ==
    ASSUME StoreInv, NEW t \in Tasks,
           \/ ClaimNextTask(t) \/ MarkRunning(t) \/ DecideNeedsHuman(t)
           \/ \E bad \in BOOLEAN : RecordVerdict(t, bad)
           \/ \E to \in {"READY", "BLOCKED", "QUEUED"} : Decide(t, to)
           \/ \E to \in {"WAITING_SESSION", "BLOCKED", "CANCELLED"} : RecoverStale(t, to)
    PROVE  GoodStep /\ Calm({}, {})
<1>1. GoodStep
  BY TaskStepGood DEF TaskStep
<1> QED BY <1>1, TaskCalm

\* The steps with which a tick starts.
LEMMA StartsKeep ==
    ASSUME EngineInv, NEW e \in Engines, NEW t \in Tasks,
           Tick(e, t) \/ TickClaim(e, t) \/ TickRecover(e, t) \/ TickStale(e, t)
    PROVE  Kept
<1>1. CASE Tick(e, t)
  <2>1. Start(e, t, NextPhase(status[t])) /\ NextPhase(status[t]) # "none"
    BY <1>1 DEF Tick
  <2>2. status[t] # "ABSENT" /\ NextPhase(status[t]) \in Phases \ {"send", "typing", "storing", "proven", "verified"}
    BY <2>1 DEF NextPhase, Phases
  <2>3. PICK ph \in Phases \ {"send", "typing", "storing", "proven", "verified"} : ph = NextPhase(status[t])
    BY <2>2
  <2> QED BY <2>1, <2>2, <2>3, StartKeeps
<1>2. CASE TickClaim(e, t)
  <2>1. StoreInv /\ ClaimNextTask(t) /\ UNCHANGED engineVars
    BY <1>2 DEF TickClaim, EngineInv
  <2>2. GoodStep /\ Calm({}, {})
    BY <2>1, MethodCalm
  <2> QED BY <2>1, <2>2, StoreStepKeeps
<1>3. CASE TickRecover(e, t) \/ TickStale(e, t)
  <2>1. PICK ph \in {"recover", "stale"} : Start(e, t, ph)
    BY <1>3 DEF TickRecover, TickStale
  <2>2. status[t] # "ABSENT"
    BY <1>3 DEF TickRecover, TickStale
  <2>3. ph \in Phases \ {"send", "typing", "storing", "proven", "verified"}
    BY DEF Phases
  <2> QED BY <2>1, <2>2, <2>3, StartKeeps
<1> QED BY <1>1, <1>2, <1>3

\* The steps with which a tick ends.
EndStep(e) ==
    \/ TickEnds(e) \/ Recover(e) \/ Review(e) \/ DispatchRefused(e) \/ Settle(e) \/ Check(e) \/ Stale(e)
    \/ UncertainCompleted(e) \/ UncertainRunning(e) \/ WaitingOver(e)

\* Whatever a tick's last step writes, it completes its task only if it has seen
\* the marker, and it does not dispatch it.
LEMMA EndsKeep ==
    ASSUME EngineInv, NEW e \in Engines, EndStep(e) PROVE Kept
<1> DEFINE t == job[e].task
<1>1. Finish(e) /\ pc[e] # "idle" /\ UNCHANGED <<key, grants, answered, typed, done, retries>>
  BY DEF EndStep, TickEnds, Recover, Review, DispatchRefused, Settle, Check, Stale,
         UncertainCompleted, UncertainRunning, WaitingOver
<1>2. StoreInv /\ job[e] \in Row /\ JobOK(e)
  BY <1>1 DEF EngineInv, EngineTypeOK
<1>3. t \in Tasks
  BY <1>2 DEF Row
<1>4. \/ UNCHANGED vars
      \/ Complete(t) /\ Verified(e)
      \/ \E to \in {"WAITING_SESSION", "BLOCKED", "DISPATCH_UNCERTAIN", "FAILED", "VERIFYING",
                    "RUNNING", "QUEUED"}, keep \in BOOLEAN : Transition(t, to, keep)
      \/ MarkRunning(t) \/ DecideNeedsHuman(t)
      \/ \E to \in {"READY", "BLOCKED", "QUEUED"} : Decide(t, to)
      \/ \E to \in {"WAITING_SESSION", "BLOCKED", "CANCELLED"} : RecoverStale(t, to)
  <2> HIDE DEF t
  <2>1. CASE TickEnds(e)
    BY <2>1 DEF TickEnds
  <2>2. CASE Recover(e)
    BY <2>2 DEF Recover, t
  <2>3. CASE Review(e)
    BY <2>3 DEF Review, t
  <2>4. CASE DispatchRefused(e)
    BY <2>4 DEF DispatchRefused, t
  <2>5. CASE Settle(e)
    BY <2>5 DEF Settle, t
  <2>6. CASE Check(e)
    BY <2>6 DEF Check, t
  <2>7. CASE Stale(e)
    BY <2>7 DEF Stale, StaleTargets, t
  <2>8. CASE UncertainCompleted(e)
    BY <1>1, <1>2, <2>8 DEF UncertainCompleted, JobOK, t
  <2>9. CASE UncertainRunning(e)
    BY <2>9 DEF UncertainRunning, t
  <2>10. CASE WaitingOver(e)
    BY <2>10 DEF WaitingOver, t
  <2> QED BY <2>1, <2>2, <2>3, <2>4, <2>5, <2>6, <2>7, <2>8, <2>9, <2>10 DEF EndStep
<1>5. PICK u \in Tasks : u = t
  BY <1>3
<1>6. Shown({})
  BY DEF Shown
<1>7. CASE UNCHANGED vars
  <2>1. GoodStep /\ Calm({}, {})
    BY <1>2, <1>7, NextGood, SameStatusCalm DEF vars, taskVars
  <2> QED BY <1>1, <1>6, <2>1, FinishKeeps
<1>8. CASE Complete(t) /\ Verified(e)
  <2>1. Shown({u})
    BY <1>5, <1>8 DEF Shown, Verified
  <2>2. GoodStep /\ Calm({}, {u})
    BY <1>2, <1>5, <1>8, CompleteCalm
  <2> QED BY <1>1, <2>1, <2>2, FinishKeeps
<1>9. ASSUME NEW to \in {"WAITING_SESSION", "BLOCKED", "DISPATCH_UNCERTAIN", "FAILED", "VERIFYING",
                         "RUNNING", "QUEUED"}, NEW keep \in BOOLEAN, Transition(t, to, keep)
      PROVE  Kept
  <2>1. to \notin {"DISPATCHING", "COMPLETED"}
    OBVIOUS
  <2>2. GoodStep /\ Calm({}, {})
    BY <1>2, <1>5, <1>9, <2>1, MoveCalm
  <2> QED BY <1>1, <1>6, <2>2, FinishKeeps
<1>10. CASE \/ MarkRunning(t) \/ DecideNeedsHuman(t)
            \/ \E to \in {"READY", "BLOCKED", "QUEUED"} : Decide(t, to)
            \/ \E to \in {"WAITING_SESSION", "BLOCKED", "CANCELLED"} : RecoverStale(t, to)
  <2>1. GoodStep /\ Calm({}, {})
    BY <1>2, <1>5, <1>10, MethodCalm
  <2> QED BY <1>1, <1>6, <2>1, FinishKeeps
<1> QED BY <1>4, <1>7, <1>8, <1>9, <1>10

\* The steps after which a tick goes on.
GoStep(e) ==
    \/ SendRefused(e) \/ SendTypesNothing(e) \/ Sent(e) \/ UncertainProven(e) \/ UncertainVerifying(e)

\* A tick goes on past RUNNING and VERIFYING only with a marker it has seen.
LEMMA GoesKeep ==
    ASSUME EngineInv, NEW e \in Engines, GoStep(e) PROVE Kept
<1> DEFINE t == job[e].task
<1>1. pc[e] # "idle" /\ UNCHANGED <<key, grants, answered, typed, done, retries>>
  BY DEF GoStep, SendRefused, SendTypesNothing, Sent, UncertainProven, UncertainVerifying
<1>2. StoreInv /\ job[e] \in Row /\ JobOK(e)
  BY <1>1 DEF EngineInv, EngineTypeOK
<1>3. PICK u \in Tasks : u = t
  BY <1>2 DEF Row
<1>4. {"storing", "sent", "refused", "settle", "proven", "verified"} \subseteq Phases \ {"send", "typing"}
  BY DEF Phases
<1>5. CASE SendRefused(e) \/ SendTypesNothing(e)
  <2>1. GoodStep /\ Calm({}, {})
    BY <1>2, <1>5, NextGood, SameStatusCalm DEF SendRefused, SendTypesNothing, vars, taskVars
  <2>2. PICK ph \in {"storing", "sent"} : Go(e, ph) /\ (ph = "storing" => pc[e] = "typing")
    BY <1>5 DEF SendRefused, SendTypesNothing
  <2>3. ph \in Phases \ {"send", "typing"} /\ ph \notin {"proven", "verified"}
    BY <1>4
  <2> QED BY <1>1, <2>1, <2>2, <2>3, GoKeeps
<1>6. CASE Sent(e)
  <2>1. PICK bad \in BOOLEAN : RecordVerdict(t, bad) /\ Go(e, IF bad THEN "refused" ELSE "settle")
    BY <1>6 DEF Sent
  <2>2. GoodStep /\ Calm({}, {})
    BY <1>2, <1>3, <2>1, MethodCalm
  <2>3. PICK ph \in {"refused", "settle"} : Go(e, ph)
    BY <2>1
  <2> QED BY <1>1, <1>4, <2>2, <2>3, GoKeeps
<1>7. CASE UncertainProven(e)
  <2>1. Verified(e) /\ MarkRunning(t) /\ Go(e, "proven")
    BY <1>7 DEF UncertainProven
  <2>2. GoodStep /\ Calm({}, {})
    BY <1>2, <1>3, <2>1, MethodCalm
  <2>3. PICK ph \in Phases \ {"send", "typing"} : ph = "proven"
    BY <1>4
  <2> QED BY <1>1, <2>1, <2>2, <2>3, GoKeeps
<1>8. CASE UncertainVerifying(e)
  <2>1. pc[e] = "proven" /\ Transition(t, "VERIFYING", TRUE) /\ Go(e, "verified")
    BY <1>8 DEF UncertainVerifying
  <2>2. PICK to : to \notin {"DISPATCHING", "COMPLETED"} /\ Transition(u, to, TRUE)
    BY <1>3, <2>1
  <2>3. GoodStep /\ Calm({}, {})
    BY <1>2, <2>2, MoveCalm
  <2>4. Verified(e)
    BY <1>1, <1>2, <2>1 DEF JobOK
  <2>5. PICK ph \in Phases \ {"send", "typing"} : ph = "verified"
    BY <1>4
  <2> QED BY <1>1, <2>1, <2>3, <2>4, <2>5, GoKeeps
<1> QED BY <1>5, <1>6, <1>7, <1>8 DEF GoStep

\* The operators of the lane, and the sweeps.
LEMMA OthersKeep ==
    ASSUME EngineInv, Operator \/ \E l \in Lanes : SweepStep(l) PROVE Kept
<1>1. StoreInv
  BY DEF EngineInv
<1>2. ASSUME NEW t \in Tasks, RetryTask(t) PROVE Kept
  BY <1>2, RetryKeeps
<1>3. ASSUME NEW l \in Lanes, PauseLane(l, "user") \/ ResumeLane(l), UNCHANGED engineVars
      PROVE  Kept
  <2>1. GoodStep
    BY <1>1, <1>3, LaneStepGood DEF LaneStep
  <2>2. Calm({}, {})
    BY <1>1, <1>3, LaneCalm
  <2> QED BY <1>3, <2>1, <2>2, StoreStepKeeps
<1>4. ASSUME NEW t \in Tasks, Skip(t) \/ Cancel(t), UNCHANGED engineVars PROVE Kept
  <2>1. PICK to : to \notin {"DISPATCHING", "COMPLETED"} /\ Transition(t, to, TRUE)
    BY <1>4 DEF Skip, Cancel
  <2>2. GoodStep /\ Calm({}, {})
    BY <1>1, <2>1, MoveCalm
  <2> QED BY <1>4, <2>2, StoreStepKeeps
<1>5. ASSUME NEW l \in Lanes, NEW t \in Tasks, SetTasks(l, t, FALSE) \/ MoveTask(t, l),
             UNCHANGED engineVars
      PROVE  Kept
  <2>1. GoodStep
    BY <1>1, <1>5, PlacementGood DEF PlacementStep
  <2>2. Calm({}, {})
    BY <1>1, <1>5, PlacedCalm
  <2> QED BY <1>5, <2>1, <2>2, StoreStepKeeps
<1>6. ASSUME NEW l \in Lanes, SweepStep(l) PROVE Kept
  <2>1. Sweep({l}) /\ UNCHANGED engineVars /\ {l} \in SUBSET Lanes
    BY <1>6 DEF SweepStep
  <2>2. GoodStep
    BY <1>1, <2>1, SweepsGood
  <2>3. Calm({}, {})
    BY <1>1, <2>1, SweepCalm
  <2> QED BY <2>1, <2>2, <2>3, StoreStepKeeps
<1> QED BY <1>2, <1>3, <1>4, <1>5, <1>6 DEF Operator

\* Every step of the ticks, the operator and the sweeps.
LEMMA EngineStepKeeps == ASSUME EngineInv, [EngineNext]_allVars PROVE Kept
<1>1. ASSUME NEW e \in Engines, TickStep(e) PROVE Kept
  <2>1. \/ \E t \in Tasks : Tick(e, t) \/ TickClaim(e, t) \/ TickRecover(e, t) \/ TickStale(e, t)
        \/ EndStep(e) \/ GoStep(e) \/ Dispatch(e) \/ SendClaims(e) \/ SendTypes(e) \/ SendStores(e)
    BY <1>1 DEF TickStep, EndStep, GoStep
  <2> QED BY <2>1, StartsKeep, EndsKeep, GoesKeep, DispatchKeeps,
              SendClaimsKeeps, SendTypesKeeps, SendStoresKeeps
<1>2. ASSUME NEW p \in typed, AgentDone(p) PROVE Kept
  BY <1>2, AgentDoneKeeps
<1>3. CASE UNCHANGED allVars
  <2>1. GoodStep /\ Calm({}, {})
    BY <1>3, NextGood, SameStatusCalm DEF allVars, vars, taskVars, EngineInv
  <2> QED BY <1>3, <2>1, StoreStepKeeps DEF allVars
<1> QED BY <1>1, <1>2, <1>3, OthersKeep DEF EngineNext

\* The invariant is one of the specification, whatever ticks overlap.
LEMMA EngineInvariant == EngineSpec => []EngineInv
<1>1. EngineInit => EngineInv
  <2> SUFFICES ASSUME EngineInit PROVE EngineInv
    OBVIOUS
  <2> USE DEF EngineInit, Init
  <2>1. StoreInv
    BY InitGood
  <2>2. EngineTypeOK
    BY <2>1, QueueAssumption, EngineAssumption DEF StoreInv, EngineTypeOK
  <2>3. ASSUME NEW t \in Tasks PROVE KeyOK(t) /\ Cardinality(Keys(t)) <= 1 + retries[t]
    <3>1. Keys(t) = {NextKey(t)}
      BY DEF Keys, GrantsOf, AtWork
    <3>2. Cardinality({NextKey(t)}) = 1
      BY FS_Singleton
    <3> QED BY <3>1, <3>2 DEF KeyOK, InDispatch
  <2>4. ASSUME NEW e \in Engines PROVE JobOK(e)
    BY DEF JobOK
  <2>5. SendOK /\ CompletedOnlyWhenDone
    BY DEF SendOK, CompletedOnlyWhenDone
  <2> QED BY <2>1, <2>2, <2>3, <2>4, <2>5 DEF EngineInv
<1>2. EngineInv /\ [EngineNext]_allVars => EngineInv'
  BY EngineStepKeeps DEF Kept
<1> QED BY <1>1, <1>2, PTL DEF EngineSpec

-------------------------------------------------------------------------------
\* Type correctness: a tick has a row exactly while it works, and no prompt
\* names an attempt beyond the ones that were counted.
THEOREM EngineTypeCorrect == EngineSpec => []EngineTypeOK
<1>1. EngineInv => EngineTypeOK
  BY DEF EngineInv
<1> QED BY <1>1, EngineInvariant, PTL

\* A task's prompt is typed once, plus once for every explicit retry and for every
\* reclaim of its unanswered key, with any number of overlapping ticks that crash
\* or are paused anywhere (_dispatch, claim_idempotency_key).
THEOREM PromptsAreAccountedFor == EngineSpec => []PromptsAccountedFor
<1>1. ASSUME EngineInv PROVE PromptsAccountedFor
  <2> SUFFICES ASSUME NEW t \in Tasks
               PROVE  Cardinality(TypedOf(t)) <= 1 + retries[t] + Cardinality(Reclaims(t))
    BY DEF PromptsAccountedFor, TypedOf
  <2> DEFINE First == {g \in GrantsOf(t) : g.claim = 0}
  <2>1. /\ IsFiniteSet(Keys(t)) /\ Cardinality(Keys(t)) \in Nat /\ Cardinality(Keys(t)) <= 1 + retries[t]
        /\ retries[t] \in Nat
    BY <1>1, KeysFinite, EngineAssumption DEF EngineInv, EngineTypeOK
  <2>2. IsFiniteSet(First) /\ Cardinality(First) <= Cardinality(Keys(t))
    <3> DEFINE f == [g \in First |-> g.key]
    <3>1. f \in [First -> Keys(t)]
      BY DEF Keys
    <3>2. \A g, h \in First : f[g] = f[h] => g = h
      BY <1>1 DEF GrantsOf, EngineInv, EngineTypeOK, Grant
    <3>3. f \in Injection(First, Keys(t))
      BY <3>1, <3>2 DEF Injection, IsInjective
    <3> HIDE DEF f, First
    <3> QED BY <2>1, <3>3, FS_Injection
  <2>3. IsFiniteSet(Reclaims(t))
    <3> DEFINE f == [g \in Reclaims(t) |-> <<g.key, g.claim>>]
               R == (1..MaxAttempts) \X (0..MaxReclaims)
    <3>1. f \in [Reclaims(t) -> R]
      BY <1>1 DEF Reclaims, EngineInv, EngineTypeOK, Grant
    <3>2. \A g, h \in Reclaims(t) : f[g] = f[h] => g = h
      BY <1>1 DEF Reclaims, EngineInv, EngineTypeOK, Grant
    <3>3. f \in Injection(Reclaims(t), R)
      BY <3>1, <3>2 DEF Injection, IsInjective
    <3>4. IsFiniteSet(R)
      <4>1. IsFiniteSet(1..MaxAttempts) /\ IsFiniteSet(0..MaxReclaims)
        BY FS_Interval, QueueAssumption, EngineAssumption
      <4> QED BY <4>1, FS_Product
    <3> HIDE DEF f, R
    <3> QED BY <3>3, <3>4, FS_Injection
  <2>4. Cardinality(First) \in Nat /\ Cardinality(Reclaims(t)) \in Nat
    BY <2>2, <2>3, FS_CardinalityType
  <2>5. First \cap Reclaims(t) = {} /\ GrantsOf(t) = First \cup Reclaims(t)
    <3>1. \A g \in grants : g.claim \in Nat
      BY <1>1, EngineAssumption DEF EngineInv, EngineTypeOK, Grant
    <3> QED BY <3>1 DEF GrantsOf, Reclaims
  <2> HIDE DEF First
  <2>6. IsFiniteSet(GrantsOf(t)) /\ Cardinality(GrantsOf(t)) = Cardinality(First) + Cardinality(Reclaims(t))
    <3>1. /\ IsFiniteSet(First \cup Reclaims(t))
          /\ Cardinality(First \cup Reclaims(t))
               = Cardinality(First) + Cardinality(Reclaims(t)) - Cardinality(First \cap Reclaims(t))
      BY <2>2, <2>3, FS_Union
    <3>2. Cardinality(First \cap Reclaims(t)) = 0
      BY <2>5, FS_EmptySet
    <3> QED BY <2>4, <2>5, <3>1, <3>2
  <2>7. IsFiniteSet(TypedOf(t)) /\ Cardinality(TypedOf(t)) <= Cardinality(GrantsOf(t))
    <3> DEFINE f == [p \in TypedOf(t) |-> [task |-> p.task, key |-> p.key, claim |-> p.claim]]
    <3>1. ASSUME NEW p \in TypedOf(t) PROVE f[p] \in GrantsOf(t)
      <4>1. PICK g \in grants : g.task = p.task /\ g.key = p.key /\ g.claim = p.claim
        BY <1>1 DEF TypedOf, EngineInv, SendOK
      <4>2. g = [task |-> p.task, key |-> p.key, claim |-> p.claim]
        BY <1>1, <4>1 DEF EngineInv, EngineTypeOK, Grant
      <4> QED BY <4>1, <4>2 DEF TypedOf, GrantsOf
    <3>2. f \in [TypedOf(t) -> GrantsOf(t)]
      BY <3>1
    <3>3. ASSUME NEW p \in TypedOf(t), NEW q \in TypedOf(t), f[p] = f[q] PROVE p = q
      <4>1. p.task = q.task /\ p.key = q.key /\ p.claim = q.claim
        BY <3>3
      <4> QED BY <1>1, <4>1 DEF TypedOf, EngineInv, SendOK
    <3>4. f \in Injection(TypedOf(t), GrantsOf(t))
      BY <3>2, <3>3 DEF Injection, IsInjective
    <3> HIDE DEF f
    <3> QED BY <2>6, <3>4, FS_Injection
  <2>8. Cardinality(TypedOf(t)) \in Nat
    BY <2>7, FS_CardinalityType
  <2> QED BY <2>1, <2>2, <2>4, <2>6, <2>7, <2>8
<1> QED BY <1>1, EngineInvariant, PTL

\* A task that is COMPLETED had a prompt whose agent printed the marker
\* (verify_completion_marker), however late the tick that read it wrote.
THEOREM CompletionIsShown == EngineSpec => []CompletedOnlyWhenDone
<1>1. EngineInv => CompletedOnlyWhenDone
  BY DEF EngineInv
<1> QED BY <1>1, EngineInvariant, PTL

===============================================================================
