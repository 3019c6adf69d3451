---------------------------- MODULE QueueStoreProofs ----------------------------
(***************************************************************************)
(* Proofs about QueueStore, for every set of tasks, lanes and dependencies *)
(* and every bound on the attempts.  Every action is shown to be a good    *)
(* step (GoodStep); the invariants follow from that.                       *)
(***************************************************************************)
EXTENDS QueueStore, TLAPS

\* The statuses that can be paused, hence the values of paused_from_status.
PauseSources == (Pausable \ {"WAITING_SESSION"}) \cup {"QUEUED"}
Proven == {"RUNNING", "VERIFYING"}

\* A task that runs has execution evidence, and so has one that was paused
\* while it ran; a paused task knows where it came from.
EvidenceKept ==
    \A t \in Tasks :
        /\ status[t] \in Proven => evidence[t]
        /\ status[t] = "PAUSED" => pausedFrom[t] # "NULL"
        /\ status[t] = "PAUSED" /\ pausedFrom[t] \in Proven => evidence[t]

StoreInv ==
    /\ TypeOK
    /\ EvidenceKept
    /\ OneTaskPerExecutionSession
    /\ \A t \in Tasks : bound[t] # NoLane => status[t] # "ABSENT"

\* What each action guarantees of every task.
FollowsTable(t) ==
    \/ status'[t] = status[t]
    \/ status[t] = "ABSENT" /\ status'[t] = "QUEUED"
    \/ status'[t] \in ValidTransitions(status[t])
    \/ status[t] = "COMPLETED" /\ status'[t] = "CANCELLED"

KeepsEvidence(t) ==
    /\ evidence[t] => evidence'[t]
    /\ status'[t] \in Proven => status'[t] = status[t] \/ evidence'[t]
    /\ status'[t] = "PAUSED" =>
         \/ status[t] = "PAUSED" /\ pausedFrom'[t] = pausedFrom[t]
         \/ pausedFrom'[t] \in PauseSources /\ (pausedFrom'[t] \in Proven => evidence[t])

\* A new binding is the only one that changes, and nobody alive has its lane.
BindsAlone(t) ==
    bound'[t] \notin {bound[t], NoLane} =>
        /\ status[t] \in Movable
        /\ \A u \in Tasks \ {t} : bound'[u] = bound[u]
        /\ \A u \in Tasks \ {t} : bound[u] = bound'[t] => status[u] \in Terminal

GoodStep ==
    /\ TypeOK'
    /\ \A t \in Tasks : FollowsTable(t) /\ KeepsEvidence(t) /\ BindsAlone(t)

-------------------------------------------------------------------------------
\* Facts about the table: it stays within the program's statuses, nothing
\* leaves a terminal status, and only PauseSources lead to PAUSED.
LEMMA Edges ==
    ASSUME NEW s, NEW to \in ValidTransitions(s)
    PROVE  /\ s \in Status \ Terminal /\ to \in Status
           /\ s # "ABSENT" /\ to # "ABSENT"
           /\ to = "PAUSED" => s \in PauseSources
BY DEF ValidTransitions, Status, Active, Terminal, PauseSources, Pausable

\* A PAUSED task may go back to each status it can have come from.
LEMMA PausedBack == PauseSources \subseteq ValidTransitions("PAUSED")
BY DEF ValidTransitions, PauseSources, Pausable

\* The sets of statuses the actions use.
LEMMA Statuses ==
    /\ "ABSENT" \notin Status /\ "ABSENT" \notin Terminal
    /\ Movable \subseteq Status /\ Migratable \subseteq Status
    /\ Movable \cap Terminal = {} /\ "PAUSED" \notin Migratable
    /\ {"QUEUED", "PRECHECK", "RUNNING", "CANCELLED"} \subseteq Status
    /\ "CANCELLED" \in Terminal /\ "COMPLETED" \in Terminal
    /\ "QUEUED" \notin Terminal /\ "PAUSED" \notin Terminal
BY DEF Status, Active, Terminal, Movable, Migratable

\* A good step keeps the invariant.
LEMMA GoodStepKeeps ==
    ASSUME StoreInv, GoodStep PROVE StoreInv'
<1> USE DEF StoreInv, GoodStep
<1>1. \A t \in Tasks : status[t] \in Terminal => status'[t] \in Terminal
  BY Edges, Statuses DEF FollowsTable
<1>2. \A t \in Tasks : status[t] # "ABSENT" => status'[t] # "ABSENT"
  BY Edges, Statuses DEF FollowsTable
<1>3. EvidenceKept'
  <2>1. \A t \in Tasks : status'[t] \in Proven => evidence'[t]
    BY DEF KeepsEvidence, EvidenceKept
  <2>2. \A t \in Tasks : status'[t] = "PAUSED" => pausedFrom'[t] # "NULL"
    BY DEF KeepsEvidence, EvidenceKept, PauseSources, Pausable
  <2>3. \A t \in Tasks : status'[t] = "PAUSED" /\ pausedFrom'[t] \in Proven => evidence'[t]
    BY DEF KeepsEvidence, EvidenceKept
  <2> QED
    BY <2>1, <2>2, <2>3 DEF EvidenceKept
<1>4. OneTaskPerExecutionSession'
  <2> SUFFICES ASSUME NEW t \in Tasks, NEW u \in Tasks, t # u,
                      bound'[t] = bound'[u], bound'[t] # NoLane
               PROVE  status'[t] \in Terminal \/ status'[u] \in Terminal
    BY DEF OneTaskPerExecutionSession
  <2>1. CASE bound'[t] = bound[t] /\ bound'[u] = bound[u]
    BY <1>1, <2>1 DEF OneTaskPerExecutionSession
  <2>2. CASE bound'[t] # bound[t]
    BY <1>1, <2>2 DEF BindsAlone
  <2>3. CASE bound'[u] # bound[u]
    BY <1>1, <2>3 DEF BindsAlone
  <2> QED
    BY <2>1, <2>2, <2>3
<1>5. \A t \in Tasks : bound'[t] # NoLane => status'[t] # "ABSENT"
  BY <1>2, Statuses DEF BindsAlone
<1> QED
  BY <1>3, <1>4, <1>5

-------------------------------------------------------------------------------
\* _transition_locked is a good step, for one task or for several, as long as
\* what a caller saves in paused_from_status is a status the task may resume.
LEMMA TransitionedGood ==
    ASSUME StoreInv, NEW new, NEW drop, NEW from,
           new = [t \in Tasks |-> new[t]],
           Transitioned(new, drop, from),
           \A t \in Tasks : new[t] = "PAUSED" /\ status[t] # "PAUSED" =>
               from[t] \in PauseSources /\ (from[t] \in Proven => evidence[t]),
           UNCHANGED <<session, evidence, refused, bound>>,
           lane' \in [Lanes -> {"absent", "open", "user", "coordinator"}]
    PROVE  GoodStep
<1> USE DEF StoreInv
<1>1. \A t \in Tasks : new[t] = status[t] \/ new[t] \in ValidTransitions(status[t])
  BY DEF Transitioned, Allowed
<1>2. \A t \in Tasks : new[t] \in Status \cup {"ABSENT"} /\ (new[t] = "ABSENT" <=> status[t] = "ABSENT")
  BY <1>1, Edges, Statuses DEF TypeOK
<1>3. status' = new
  BY DEF Transitioned
<1>4. TypeOK'
  <2>1. status' \in [Tasks -> Status \cup {"ABSENT"}]
    BY <1>2, <1>3
  <2>2. attempts' \in [Tasks -> 0..MaxAttempts]
    BY QueueAssumption DEF Transitioned, TypeOK
  <2>3. claimed' \in [Tasks -> BOOLEAN]
    BY Zenon DEF Transitioned
  <2>4. pausedFrom' \in [Tasks -> PauseSources \cup {"NULL"}]
    BY DEF Transitioned, TypeOK, PauseSources
  <2>5. \A t \in Tasks : session'[t] = NoLane <=> status'[t] = "ABSENT"
    BY <1>2, <1>3 DEF TypeOK
  <2> QED
    BY <2>1, <2>2, <2>3, <2>4, <2>5 DEF TypeOK, PauseSources
<1>5. ASSUME NEW t \in Tasks PROVE FollowsTable(t) /\ BindsAlone(t)
  BY <1>1, <1>3 DEF FollowsTable, BindsAlone
<1>6. ASSUME NEW t \in Tasks PROVE KeepsEvidence(t)
  <2>1. status'[t] \in Proven => status'[t] = status[t] \/ evidence[t]
    BY <1>3 DEF Transitioned, Allowed, Proven
  <2>2. status'[t] = "PAUSED" =>
            \/ status[t] = "PAUSED" /\ pausedFrom'[t] = pausedFrom[t]
            \/ pausedFrom'[t] \in PauseSources /\ (pausedFrom'[t] \in Proven => evidence[t])
    BY <1>3 DEF Transitioned
  <2> QED
    BY <2>1, <2>2 DEF KeepsEvidence
<1> QED
  BY <1>4, <1>5, <1>6 DEF GoodStep

\* Saving the status a task had is always right: only PauseSources reach PAUSED.
LEMMA SavesStatus ==
    ASSUME StoreInv, NEW new, NEW drop, Transitioned(new, drop, status)
    PROVE  \A t \in Tasks : new[t] = "PAUSED" /\ status[t] # "PAUSED" =>
               status[t] \in PauseSources /\ (status[t] \in Proven => evidence[t])
<1>1. \A t \in Tasks : new[t] = status[t] \/ new[t] \in ValidTransitions(status[t])
  BY DEF Transitioned, Allowed
<1> QED
  BY <1>1, Edges DEF StoreInv, EvidenceKept

\* transition_task is a good step.
LEMMA TransitionGood ==
    ASSUME StoreInv, NEW t \in Tasks, NEW to, NEW keep, Transition(t, to, keep)
    PROVE  GoodStep
<1> DEFINE drop == IF keep THEN {} ELSE {t}
<1>1. Transitioned(One(t, to), drop, status) /\ UNCHANGED <<session, evidence, refused, bound, lane>>
  BY DEF Transition
<1>2. One(t, to) = [u \in Tasks |-> One(t, to)[u]]
  BY DEF One, StoreInv, TypeOK
<1>3. lane' \in [Lanes -> {"absent", "open", "user", "coordinator"}]
  BY <1>1 DEF StoreInv, TypeOK
<1> HIDE DEF drop
<1> QED
  BY <1>1, <1>2, <1>3, SavesStatus, TransitionedGood

\* A lane row after a sweep, a pause or an _ensure_lane is one again.
LEMMA LaneTyped ==
    ASSUME StoreInv, NEW l \in Lanes
    PROVE  /\ Ensured(l) \in [Lanes -> {"absent", "open", "user", "coordinator"}]
           /\ \A o \in {"open", "user", "coordinator"} :
                [lane EXCEPT ![l] = o] \in [Lanes -> {"absent", "open", "user", "coordinator"}]
BY DEF StoreInv, TypeOK, Ensured

\* A task with a row has a lane.
LEMMA HasLane ==
    ASSUME StoreInv, NEW t \in Tasks, status[t] # "ABSENT" PROVE session[t] \in Lanes
BY DEF StoreInv, TypeOK

\* The transactions that move several tasks by _transition_locked and leave
\* the rest alone, but for the lane.
LEMMA SweepGood ==
    ASSUME StoreInv, NEW new, NEW drop,
           new = [t \in Tasks |-> new[t]],
           Transitioned(new, drop, status),
           UNCHANGED <<session, evidence, refused, bound>>,
           lane' \in [Lanes -> {"absent", "open", "user", "coordinator"}]
    PROVE  GoodStep
BY SavesStatus, TransitionedGood

\* Every operation on one task is a good step.
LEMMA TaskStepGood ==
    ASSUME StoreInv, NEW t \in Tasks, TaskStep(t) PROVE GoodStep
<1> USE DEF StoreInv
<1>1. CASE ClaimNextTask(t)
  <2>1. "PRECHECK" \in ValidTransitions(status[t])
    BY <1>1 DEF ClaimNextTask, NextDispatchable, ValidTransitions
  <2>2. status[t] = "QUEUED" /\ status' = [status EXCEPT ![t] = "PRECHECK"]
    BY <1>1 DEF ClaimNextTask, NextDispatchable, One
  <2>3. TypeOK'
    BY <1>1, <2>2, Statuses DEF ClaimNextTask, NextDispatchable, TypeOK
  <2>4. \A u \in Tasks : FollowsTable(u) /\ BindsAlone(u)
    BY <1>1, <2>1, <2>2 DEF ClaimNextTask, NextDispatchable, FollowsTable, BindsAlone, TypeOK
  <2>5. \A u \in Tasks : KeepsEvidence(u)
    BY <1>1, <2>2 DEF ClaimNextTask, NextDispatchable, KeepsEvidence, TypeOK, Proven
  <2> QED
    BY <2>3, <2>4, <2>5 DEF GoodStep
<1>2. ASSUME NEW to, Decide(t, to) PROVE GoodStep
  BY <1>2, TransitionGood DEF Decide
<1>3. CASE DecideNeedsHuman(t)
  <2> DEFINE new == PauseSweep(session[t], One(t, "PAUSED"))
             from == One(t, "QUEUED")
  <2>1. Transitioned(new, {t}, from) /\ UNCHANGED <<session, evidence, refused, bound>>
    BY <1>3 DEF DecideNeedsHuman
  <2>2. new = [u \in Tasks |-> new[u]]
    BY DEF PauseSweep
  <2>3. from[t] = "QUEUED" /\ \A u \in Tasks \ {t} : from[u] = status[u]
    BY DEF One, TypeOK
  <2>4. \A u \in Tasks : new[u] = status[u] \/ new[u] \in ValidTransitions(status[u])
    BY <2>1 DEF Transitioned, Allowed
  <2>5. new[t] = "PAUSED"
    BY DEF PauseSweep, One, TypeOK, Pausable
  <2>6. status[t] # "ABSENT"
    BY <1>3, <2>4, <2>5, Edges DEF DecideNeedsHuman
  <2>7. lane' \in [Lanes -> {"absent", "open", "user", "coordinator"}]
    BY <1>3, <2>6, HasLane, LaneTyped DEF DecideNeedsHuman
  <2> HIDE DEF new, from
  <2>8. \A u \in Tasks : new[u] = "PAUSED" /\ status[u] # "PAUSED" =>
               from[u] \in PauseSources /\ (from[u] \in Proven => evidence[u])
    BY <2>3, <2>4, Edges DEF EvidenceKept, PauseSources, Proven
  <2> QED
    BY <2>1, <2>2, <2>7, <2>8, TransitionedGood
<1>4. CASE MarkRunning(t)
  <2>1. "RUNNING" \in ValidTransitions(status[t]) /\ status' = [status EXCEPT ![t] = "RUNNING"]
    BY <1>4 DEF MarkRunning, One
  <2>2. status[t] # "ABSENT"
    BY <2>1, Edges
  <2>3. TypeOK'
    BY <1>4, <2>1, <2>2, Statuses DEF MarkRunning, TypeOK
  <2>4. \A u \in Tasks : FollowsTable(u) /\ BindsAlone(u)
    BY <1>4, <2>1 DEF MarkRunning, FollowsTable, BindsAlone, TypeOK
  <2>5. \A u \in Tasks : KeepsEvidence(u)
    BY <1>4, <2>1 DEF MarkRunning, KeepsEvidence, TypeOK, Proven
  <2> QED
    BY <2>3, <2>4, <2>5 DEF GoodStep
<1>5. ASSUME NEW bad \in BOOLEAN, RecordVerdict(t, bad) PROVE GoodStep
  BY <1>5 DEF RecordVerdict, GoodStep, TypeOK, FollowsTable, KeepsEvidence, BindsAlone
<1>6. CASE Complete(t)
  BY <1>6, TransitionGood DEF Complete
<1>7. CASE Invalidate(t)
  <2>1. status[t] = "COMPLETED" /\ status' = [status EXCEPT ![t] = "CANCELLED"]
    BY <1>7 DEF Invalidate, One
  <2>2. TypeOK'
    BY <1>7, <2>1, Statuses DEF Invalidate, TypeOK
  <2>3. \A u \in Tasks : FollowsTable(u) /\ BindsAlone(u)
    BY <1>7, <2>1 DEF Invalidate, FollowsTable, BindsAlone, TypeOK
  <2>4. \A u \in Tasks : KeepsEvidence(u)
    BY <1>7, <2>1 DEF Invalidate, KeepsEvidence, TypeOK, Proven
  <2> QED
    BY <2>2, <2>3, <2>4 DEF GoodStep
<1>8. ASSUME NEW to, RecoverStale(t, to) PROVE GoodStep
  BY <1>8, TransitionGood DEF RecoverStale
<1>9. CASE Retry(t) \/ Skip(t) \/ Cancel(t) \/ ReleaseClaim(t)
  BY <1>9, TransitionGood DEF Retry, Skip, Cancel, ReleaseClaim
<1>10. CASE ResumePreflight(t)
  <2>1. Transitioned(One(t, "QUEUED"), {t}, status) /\ UNCHANGED <<session, evidence, refused, bound>>
    BY <1>10 DEF ResumePreflight
  <2>2. One(t, "QUEUED") = [u \in Tasks |-> One(t, "QUEUED")[u]]
    BY DEF One, TypeOK
  <2>3. lane' \in [Lanes -> {"absent", "open", "user", "coordinator"}]
    BY <1>10, HasLane, LaneTyped DEF ResumePreflight
  <2> QED
    BY <2>1, <2>2, <2>3, SweepGood
<1>11. CASE ReleaseBinding(t)
  BY <1>11 DEF ReleaseBinding, GoodStep, TypeOK, FollowsTable, KeepsEvidence, BindsAlone
<1>12. CASE EngineStep(t)
  BY <1>12, TransitionGood DEF EngineStep
<1> QED
  BY <1>1, <1>2, <1>3, <1>4, <1>5, <1>6, <1>7, <1>8, <1>9, <1>10, <1>11, <1>12 DEF TaskStep

\* Every operation that places a task is a good step.
LEMMA PlacementGood ==
    ASSUME StoreInv, NEW t \in Tasks, NEW l \in Lanes, PlacementStep(t, l) PROVE GoodStep
<1> USE DEF StoreInv
<1>1. ASSUME NEW replace \in BOOLEAN, SetTasks(l, t, replace) PROVE GoodStep
  <2> DEFINE stale == IF replace THEN In(l) \cap With({"QUEUED"}) ELSE {}
  <2>1. /\ status[t] = "ABSENT"
        /\ status' = [All(stale, "CANCELLED") EXCEPT ![t] = "QUEUED"]
        /\ claimed' = [u \in Tasks |-> claimed[u] /\ u \notin stale]
        /\ session' = [session EXCEPT ![t] = l]
        /\ lane' = Ensured(l)
        /\ UNCHANGED <<pausedFrom, evidence, attempts, refused, bound>>
    BY <1>1 DEF SetTasks
  <2>2. \A u \in Tasks : u \in stale => status[u] = "QUEUED"
    BY DEF With
  <2> HIDE DEF stale
  <2>3. /\ status'[t] = "QUEUED"
        /\ \A u \in Tasks \ {t} : status'[u] = IF u \in stale THEN "CANCELLED" ELSE status[u]
    BY <2>1 DEF All
  <2>4. status' \in [Tasks -> Status \cup {"ABSENT"}]
    BY <2>1, Statuses DEF All, TypeOK
  <2>5. \A u \in Tasks : session'[u] = NoLane <=> status'[u] = "ABSENT"
    BY <2>1, <2>2, <2>3, QueueAssumption DEF TypeOK
  <2>6. claimed' \in [Tasks -> BOOLEAN]
    BY <2>1, Zenon
  <2>7. TypeOK'
    BY <2>1, <2>4, <2>5, <2>6, LaneTyped DEF TypeOK
  <2>8. "CANCELLED" \in ValidTransitions("QUEUED")
    BY DEF ValidTransitions
  <2>9. \A u \in Tasks : FollowsTable(u) /\ BindsAlone(u)
    BY <2>1, <2>2, <2>3, <2>8 DEF FollowsTable, BindsAlone
  <2>10. \A u \in Tasks : KeepsEvidence(u)
    BY <2>1, <2>3 DEF KeepsEvidence, Proven
  <2> QED
    BY <2>7, <2>9, <2>10 DEF GoodStep
<1>2. CASE HandoffTask(t, l)
  <2>1. status[t] # "ABSENT"
    BY <1>2 DEF HandoffTask, Leased
  <2> QED
    BY <1>2, <2>1, QueueAssumption
    DEF HandoffTask, GoodStep, TypeOK, FollowsTable, KeepsEvidence, BindsAlone
<1>3. CASE MoveTask(t, l)
  <2>1. status[t] # "ABSENT"
    BY <1>3, Statuses DEF MoveTask
  <2> QED
    BY <1>3, <2>1, LaneTyped, QueueAssumption
    DEF MoveTask, GoodStep, TypeOK, FollowsTable, KeepsEvidence, BindsAlone
<1>4. CASE BindTask(t, l)
  <2> DEFINE to == IF status[t] = "WAITING_SESSION" THEN "QUEUED" ELSE status[t]
  <2>1. /\ status[t] \in Movable /\ status[t] # "ABSENT"
        /\ \A u \in Tasks \ {t} : bound[u] = l => status[u] \in Terminal
        /\ status' = [status EXCEPT ![t] = to]
        /\ session' = [session EXCEPT ![t] = l]
        /\ bound' = [bound EXCEPT ![t] = l]
        /\ UNCHANGED <<claimed, pausedFrom, evidence, attempts, refused>>
    BY <1>4, Statuses DEF BindTask, One
  <2>2. lane' \in [Lanes -> {"absent", "open", "user", "coordinator"}]
    BY <1>4, LaneTyped DEF BindTask, TypeOK
  <2>3. to \in Status /\ to \notin {"ABSENT"} /\ (to = status[t] \/ to \in ValidTransitions(status[t]))
    BY <2>1, Statuses DEF ValidTransitions
  <2>4. to \in Proven \cup {"PAUSED"} => to = status[t]
    BY DEF Proven
  <2> HIDE DEF to
  <2>5. TypeOK'
    BY <2>1, <2>2, <2>3, QueueAssumption DEF TypeOK
  <2>6. \A u \in Tasks : FollowsTable(u) /\ BindsAlone(u)
    BY <2>1, <2>3 DEF FollowsTable, BindsAlone, TypeOK
  <2>7. \A u \in Tasks : KeepsEvidence(u)
    BY <2>1, <2>4 DEF KeepsEvidence, TypeOK
  <2> QED
    BY <2>5, <2>6, <2>7 DEF GoodStep
<1>5. CASE Reassign(t, l)
  <2>1. /\ status[t] \in Migratable /\ status[t] # "ABSENT"
        /\ status' = [status EXCEPT ![t] = "QUEUED"]
    BY <1>5, Statuses DEF Reassign, One
  <2>2. status[t] = "QUEUED" \/ "QUEUED" \in ValidTransitions(status[t])
    BY <2>1 DEF Migratable, ValidTransitions
  <2>3. TypeOK'
    BY <1>5, <2>1, LaneTyped, Statuses, QueueAssumption DEF Reassign, TypeOK
  <2>4. \A u \in Tasks : FollowsTable(u) /\ BindsAlone(u)
    BY <1>5, <2>1, <2>2 DEF Reassign, FollowsTable, BindsAlone, TypeOK
  <2>5. \A u \in Tasks : KeepsEvidence(u)
    BY <1>5, <2>1 DEF Reassign, KeepsEvidence, TypeOK, Proven
  <2> QED
    BY <2>3, <2>4, <2>5 DEF GoodStep
<1> QED
  BY <1>1, <1>2, <1>3, <1>4, <1>5 DEF PlacementStep

\* Every operation on a lane is a good step.
LEMMA LaneStepGood ==
    ASSUME StoreInv, NEW l \in Lanes, LaneStep(l) PROVE GoodStep
<1> USE DEF StoreInv
<1>1. CASE PauseLane(l, "user")
  <2>1. PauseSweep(l, status) = [t \in Tasks |-> PauseSweep(l, status)[t]]
    BY DEF PauseSweep
  <2>2. lane' \in [Lanes -> {"absent", "open", "user", "coordinator"}]
    BY <1>1, LaneTyped DEF PauseLane
  <2> QED
    BY <1>1, <2>1, <2>2, SweepGood DEF PauseLane
<1>2. CASE ResumeLane(l)
  <2> DEFINE paused == In(l) \cap With({"PAUSED"})
             new == [t \in Tasks |-> IF t \in paused THEN pausedFrom[t] ELSE status[t]]
  <2>1. Transitioned(new, {}, status) /\ UNCHANGED <<session, evidence, refused, bound>>
    BY <1>2 DEF ResumeLane
  <2>2. new = [t \in Tasks |-> new[t]]
    OBVIOUS
  <2>3. lane' \in [Lanes -> {"absent", "open", "user", "coordinator"}]
    BY <1>2, LaneTyped DEF ResumeLane
  <2> HIDE DEF new
  <2> QED
    BY <2>1, <2>2, <2>3, SweepGood
<1>3. ASSUME NEW S, ClearTasks(l, S) PROVE GoodStep
  <2> DEFINE new == All(In(l) \cap With(S), "CANCELLED")
  <2>1. Transitioned(new, {}, status) /\ UNCHANGED <<session, evidence, refused, bound, lane>>
    BY <1>3 DEF ClearTasks
  <2>2. new = [t \in Tasks |-> new[t]]
    BY DEF All
  <2>3. lane' \in [Lanes -> {"absent", "open", "user", "coordinator"}]
    BY <2>1 DEF TypeOK
  <2> HIDE DEF new
  <2> QED
    BY <2>1, <2>2, <2>3, SweepGood
<1>4. ASSUME NEW new \in Lanes, RenameSession(l, new) PROVE GoodStep
  BY <1>4, QueueAssumption
  DEF RenameSession, GoodStep, TypeOK, FollowsTable, KeepsEvidence, BindsAlone
<1> QED
  BY <1>1, <1>2, <1>3, <1>4 DEF LaneStep

\* Every sweep is a good step.
LEMMA SweepsGood ==
    ASSUME StoreInv, NEW L \in SUBSET Lanes, Sweep(L) PROVE GoodStep
<1> USE DEF StoreInv
<1>a. ASSUME NEW T, NEW to, Transitioned(All(T, to), T, status),
             UNCHANGED <<session, evidence, refused, bound, lane>>
      PROVE  GoodStep
  <2>1. All(T, to) = [t \in Tasks |-> All(T, to)[t]]
    BY DEF All
  <2>2. lane' \in [Lanes -> {"absent", "open", "user", "coordinator"}]
    BY <1>a DEF TypeOK
  <2> QED
    BY <1>a, <2>1, <2>2, SweepGood
<1>1. CASE ReconcileStaleClaims(L)
  <2>1. PICK T : Transitioned([t \in Tasks |-> IF t \notin T THEN status[t]
                                              ELSE IF status[t] = "PRECHECK" THEN "QUEUED"
                                              ELSE "DISPATCH_UNCERTAIN"], T, status)
    BY <1>1 DEF ReconcileStaleClaims
  <2> DEFINE new == [t \in Tasks |-> IF t \notin T THEN status[t]
                                     ELSE IF status[t] = "PRECHECK" THEN "QUEUED"
                                     ELSE "DISPATCH_UNCERTAIN"]
  <2>2. new = [t \in Tasks |-> new[t]]
    OBVIOUS
  <2>3. UNCHANGED <<session, evidence, refused, bound, lane>>
    BY <1>1 DEF ReconcileStaleClaims
  <2>4. lane' \in [Lanes -> {"absent", "open", "user", "coordinator"}]
    BY <2>3 DEF TypeOK
  <2> HIDE DEF new
  <2> QED
    BY <2>1, <2>2, <2>3, <2>4, SweepGood DEF new
<1>2. CASE ReconcileWaiting(L)
  BY <1>2, <1>a DEF ReconcileWaiting
<1>3. CASE ReconcileRefusals(L)
  BY <1>3, <1>a DEF ReconcileRefusals
<1>4. CASE ReevaluateBlocked(L)
  BY <1>4, <1>a DEF ReevaluateBlocked
<1>5. CASE ReconcileLanePause(L)
  BY <1>5 DEF ReconcileLanePause, taskVars, GoodStep, TypeOK, FollowsTable, KeepsEvidence, BindsAlone
<1> QED
  BY <1>1, <1>2, <1>3, <1>4, <1>5 DEF Sweep

\* The whole next-state relation, and a stuttering step too.
LEMMA NextGood ==
    ASSUME StoreInv, [Next]_vars PROVE GoodStep
<1>1. CASE UNCHANGED vars
  BY <1>1 DEF vars, taskVars, StoreInv, GoodStep, TypeOK, FollowsTable, KeepsEvidence, BindsAlone
<1>2. CASE \E L \in {Lanes} \cup {{l} : l \in Lanes} : Sweep(L)
  BY <1>2, SweepsGood
<1> QED
  BY <1>1, <1>2, TaskStepGood, PlacementGood, LaneStepGood DEF Next

\* The store starts in the invariant.
LEMMA InitGood == Init => StoreInv
BY QueueAssumption DEF Init, StoreInv, TypeOK, EvidenceKept, OneTaskPerExecutionSession, Proven, Status, Active, Terminal

\* The invariant is one of the specification.
LEMMA StoreInvariant == Spec => []StoreInv
<1>1. StoreInv /\ [Next]_vars => StoreInv'
  BY NextGood, GoodStepKeeps
<1> QED
  BY <1>1, InitGood, PTL DEF Spec

-------------------------------------------------------------------------------
\* Type correctness: a row has a lane from its insertion on, and
\* paused_from_status is only ever a status that can be paused.
THEOREM TypeCorrect == Spec => []TypeOK
<1>1. StoreInv => TypeOK
  BY DEF StoreInv
<1> QED
  BY <1>1, StoreInvariant, PTL

\* resume_lane is never refused because of a task of the lane, whatever was
\* paused, moved, claimed or swept before.
THEOREM ResumeAlwaysAllowed == Spec => []ResumeNeverRefused
<1>1. StoreInv => ResumeNeverRefused
  <2> SUFFICES ASSUME StoreInv, NEW t \in With({"PAUSED"}) PROVE Allowed(t, pausedFrom[t])
    BY DEF ResumeNeverRefused
  <2>1. t \in Tasks /\ status[t] = "PAUSED"
    BY DEF With
  <2>2. pausedFrom[t] \in PauseSources
    BY <2>1 DEF StoreInv, TypeOK, EvidenceKept, PauseSources
  <2> QED
    BY <2>1, <2>2, PausedBack DEF StoreInv, EvidenceKept, Allowed, Proven
<1> QED
  BY <1>1, StoreInvariant, PTL

\* No two live tasks are ever bound to one execution session.
THEOREM ExclusiveBinding == Spec => []OneTaskPerExecutionSession
<1>1. StoreInv => OneTaskPerExecutionSession
  BY DEF StoreInv
<1> QED
  BY <1>1, StoreInvariant, PTL

===============================================================================
