-------------------------- MODULE ProjectCoordinator --------------------------
(***************************************************************************)
(* project_coordinator.py: reads a project's events behind a durable       *)
(* cursor of the bus, decides about each one and publishes the decision on *)
(* the same bus.  Nothing excludes two drains of one project, and a drain  *)
(* may die at any point: the idempotency key of a decision, the monotonic  *)
(* cursor and the order of the steps are all there is.                     *)
(*                                                                         *)
(* Decisions are told apart as far as they can differ for one event:       *)
(* "hold", and "act" for whatever action its content calls for.            *)
(***************************************************************************)
EXTENDS EventBus

CONSTANTS
    Handled,        \* the keys of events whose content calls for a decision:
                    \* HANDLED_EVENT_TYPES, or a payload that cannot be read
    Drains,         \* drain calls in progress, of one or several coordinators
    BatchSize

VARIABLES
    cursor,         \* event_cursors.last_seq of the coordinator
    paused,         \* the project is paused, or cannot be read
    everPaused,     \* it has been (history)
    pc,             \* "idle", "snapshot" or "deciding"
    acted,          \* the cursor a drain read first
    batch,          \* the events it read and has not decided about yet
    highest,        \* the highest seq it has decided about
    found           \* the project state it read: paused?
drainVars == <<pc, acted, batch, highest, found>>
coordVars == <<busVars, cursor, paused, everPaused, drainVars>>

\* action_idempotency_key: the source event and the action.
Decision(e, action) == [source |-> e, action |-> action]
Decisions == [source : Seqs, action : {"hold", "act"}]

ASSUME CoordinatorAssumption ==
    /\ BatchSize \in Nat \ {0}
    /\ Handled \subseteq Keys
    /\ \A k \in Keys : k \notin Decisions

CoordTypeOK ==
    /\ BusTypeOK
    /\ log \in Seq(Keys \cup Decisions)
    /\ cursor \in 0..Len(log)
    /\ paused \in BOOLEAN /\ everPaused \in BOOLEAN
    /\ pc \in [Drains -> {"idle", "snapshot", "deciding"}]
    /\ acted \in [Drains -> 0..cursor]
    /\ batch \in [Drains -> SUBSET (1..Len(log))]
    /\ highest \in [Drains -> 0..Len(log)]
    /\ found \in [Drains -> BOOLEAN]

CoordInit ==
    /\ BusInit
    /\ cursor = 0
    /\ paused = FALSE /\ everPaused = FALSE
    /\ pc = [d \in Drains |-> "idle"]
    /\ acted = [d \in Drains |-> 0]
    /\ batch = [d \in Drains |-> {}]
    /\ highest = [d \in Drains |-> 0]
    /\ found = [d \in Drains |-> FALSE]

-------------------------------------------------------------------------------
\* drain: the cursor is read first ...
Snapshot(d) ==
    /\ pc[d] = "idle"
    /\ pc' = [pc EXCEPT ![d] = "snapshot"]
    /\ acted' = [acted EXCEPT ![d] = cursor]
    /\ UNCHANGED <<busVars, cursor, paused, everPaused, batch, highest, found>>

\* ... then the batch (read_since), and the project if there is one.
Unread == {e \in 1..Len(log) : e > cursor /\ e <= cursor + BatchSize}

ReadBatchThenCursor(d) ==
    /\ pc[d] = "snapshot"
    /\ Unread # {}
    /\ pc' = [pc EXCEPT ![d] = "deciding"]
    /\ batch' = [batch EXCEPT ![d] = {e \in 1..Len(log) : e > acted[d] /\ e <= acted[d] + BatchSize}]
    /\ acted' = [acted EXCEPT ![d] = cursor]
    /\ found' = [found EXCEPT ![d] = paused]
    /\ UNCHANGED <<busVars, cursor, paused, everPaused, highest>>

ReadBatch(d) ==
    /\ pc[d] = "snapshot"
    /\ Unread # {}
    /\ pc' = [pc EXCEPT ![d] = "deciding"]
    /\ batch' = [batch EXCEPT ![d] = Unread]
    /\ found' = [found EXCEPT ![d] = paused]
    /\ UNCHANGED <<busVars, cursor, paused, everPaused, acted, highest>>

\* decide: the coordinator's own output is none of its business; a paused
\* project holds, and so does an event at or below what this drain knows to be
\* acted on; a type that is not handled is no business of its either.
Decided(d, e) ==
    CASE log[e] \in Decisions -> "noop"
      [] log[e] \notin Decisions /\ (found[d] \/ e <= acted[d]) -> "hold"
      [] log[e] \in Handled /\ ~found[d] /\ e > acted[d] -> "act"
      [] OTHER -> "noop"

\* One event, the oldest of the batch: the decision is published unless it is
\* "noop" or was published before.
Decide(d, e) ==
    LET k == Decision(e, Decided(d, e)) IN
    \/ Decided(d, e) = "noop" /\ UNCHANGED busVars
    \/ Decided(d, e) # "noop" /\ IsPublished(k) /\ UNCHANGED busVars
    \/ Decided(d, e) # "noop" /\ Publish(k)

DecideNext(d) ==
    /\ pc[d] = "deciding"
    /\ \E e \in batch[d] :
       /\ \A f \in batch[d] : e <= f
       /\ Decide(d, e)
       /\ batch' = [batch EXCEPT ![d] = @ \ {e}]
       /\ highest' = [highest EXCEPT ![d] = e]
    /\ UNCHANGED <<cursor, paused, everPaused, pc, acted, found>>

Ended(d) ==
    /\ pc' = [pc EXCEPT ![d] = "idle"]
    /\ acted' = [acted EXCEPT ![d] = 0]
    /\ batch' = [batch EXCEPT ![d] = {}]
    /\ highest' = [highest EXCEPT ![d] = 0]
    /\ found' = [found EXCEPT ![d] = FALSE]

\* commit_cursor, after the whole batch: a lower seq is ignored.
CommitEarly(d) ==
    /\ pc[d] = "deciding"
    /\ cursor' = Len(log)
    /\ Ended(d)
    /\ UNCHANGED <<busVars, paused, everPaused>>

CommitRewinds(d) ==
    /\ pc[d] = "deciding" /\ batch[d] = {}
    /\ cursor' = highest[d]
    /\ Ended(d)
    /\ UNCHANGED <<busVars, paused, everPaused>>

Commit(d) ==
    /\ pc[d] = "deciding" /\ batch[d] = {}
    /\ cursor' = IF highest[d] > cursor THEN highest[d] ELSE cursor
    /\ Ended(d)
    /\ UNCHANGED <<busVars, paused, everPaused>>

\* Nothing to read, an exception, or a crash.
DrainEnds(d) ==
    /\ pc[d] # "idle"
    /\ Ended(d)
    /\ UNCHANGED <<busVars, cursor, paused, everPaused>>

\* The operator pauses and resumes the project.
TogglePause ==
    /\ paused' = ~paused
    /\ everPaused' = TRUE
    /\ UNCHANGED <<busVars, cursor, drainVars>>

DrainStep(d) ==
    Snapshot(d) \/ ReadBatch(d) \/ DecideNext(d) \/ Commit(d) \/ DrainEnds(d)

CoordNext ==
    \/ \E k \in Keys : Publish(k) /\ UNCHANGED <<cursor, paused, everPaused, drainVars>>
    \/ \E d \in Drains : DrainStep(d)
    \/ TogglePause

CoordSpec == CoordInit /\ [][CoordNext]_coordVars

-------------------------------------------------------------------------------
\* The event is no business of the coordinator's, or there is a decision about it.
Covered(e) ==
    log[e] \notin Handled \/ \E action \in {"hold", "act"} : IsPublished(Decision(e, action))

\* "Cursor advances only after every event in the batch has a published
\* decision" (drain): nothing behind the cursor was skipped, whatever drains
\* overlap or die.
NothingSkipped == \A e \in 1..cursor : Covered(e)

\* "using its newer cursor would turn an already decided event into a different
\* HOLD action" (drain): an event is never held because of the drain's own
\* cursor, only because the project was paused.
HeldOnlyWhenPaused == (\E e \in Seqs : IsPublished(Decision(e, "hold"))) => everPaused
===============================================================================
