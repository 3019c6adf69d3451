--------------------------- MODULE StoreTransactions ---------------------------
(***************************************************************************)
(* QueueStore takes every store method as one step.  This module looks     *)
(* inside: queue_store.py gives every call its own SQLite connection, and  *)
(* the sqlite3 module opens a transaction only at the first write.         *)
(*                                                                         *)
(* A plain caller (transition_task and most methods) therefore reads the   *)
(* row outside of any transaction, checks the move against what it read    *)
(* and then writes the row by its id.  A locked caller (claim_next_task,   *)
(* recover_stale_active_task, resume_resolved_preflight, handoff_task)     *)
(* says BEGIN IMMEDIATE first: no one else writes until it has committed.  *)
(* A call that fails, or waits for the lock too long, is rolled back.      *)
(***************************************************************************)
EXTENDS TaskStates

CONSTANTS Tasks, Plain, Locked, NoCaller

ASSUME CallerAssumption ==
    /\ Plain \cap Locked = {}
    /\ NoCaller \notin Plain \cup Locked

Callers == Plain \cup Locked

VARIABLES
    status,
    writer,     \* the caller that has the write lock
    call        \* per caller: the task, the status it read and the one it wants
vars == <<status, writer, call>>

Idle == [task |-> NoCaller]
Calls == [task : Tasks, saw : Status, to : Status]

TypeOK ==
    /\ status \in [Tasks -> Status \cup {"ABSENT"}]
    /\ writer \in Locked \cup {NoCaller}
    /\ call \in [Callers -> Calls \cup {Idle}]

Init ==
    /\ status = [t \in Tasks |-> "ABSENT"]
    /\ writer = NoCaller
    /\ call = [c \in Callers |-> Idle]

\* set_tasks
Insert(t) ==
    /\ status[t] = "ABSENT" /\ writer = NoCaller
    /\ status' = [status EXCEPT ![t] = "QUEUED"]
    /\ UNCHANGED <<writer, call>>

\* The SELECT, and is_valid_transition on its row.
SelectUnchecked(c, t, to) ==
    /\ call[c] = Idle
    /\ call' = [call EXCEPT ![c] = [task |-> t, saw |-> status[t], to |-> to]]
    /\ UNCHANGED status

Select(c, t, to) ==
    /\ call[c] = Idle
    /\ to \in ValidTransitions(status[t])
    /\ call' = [call EXCEPT ![c] = [task |-> t, saw |-> status[t], to |-> to]]
    /\ UNCHANGED status

PlainRead(c, t, to) == c \in Plain /\ Select(c, t, to) /\ UNCHANGED writer

\* BEGIN IMMEDIATE and the SELECT after it.
LockedReadDeferred(c, t, to) ==
    /\ c \in Locked
    /\ Select(c, t, to) /\ UNCHANGED writer

LockedRead(c, t, to) ==
    /\ c \in Locked /\ writer = NoCaller
    /\ Select(c, t, to) /\ writer' = c

\* UPDATE queue_tasks SET status = ? WHERE id = ?, and the commit.
Write(c) ==
    /\ call[c] # Idle
    /\ writer \in {c, NoCaller}
    /\ status' = [status EXCEPT ![call[c].task] = call[c].to]
    /\ call' = [call EXCEPT ![c] = Idle]
    /\ writer' = NoCaller

\* The caller raises or dies: SQLite rolls back and frees the lock.
Rollback(c) ==
    /\ call[c] # Idle
    /\ call' = [call EXCEPT ![c] = Idle]
    /\ writer' = IF writer = c THEN NoCaller ELSE writer
    /\ UNCHANGED status

Next ==
    \/ \E t \in Tasks : Insert(t)
    \/ \E c \in Callers, t \in Tasks, to \in Status : PlainRead(c, t, to) \/ LockedRead(c, t, to)
    \/ \E c \in Callers : Write(c) \/ Rollback(c)

Spec == Init /\ [][Next]_vars

-------------------------------------------------------------------------------
\* What a locked caller checked is still so when it writes, with plain callers
\* around it too: a claim is never given to a task that is no longer QUEUED, and
\* a stale-active recovery never overwrites a completion (claim_next_task,
\* recover_stale_active_task).
LockedSeesCurrent == \A c \in Locked : call[c] # Idle => status[call[c].task] = call[c].saw

\* The tasks of which some plain caller holds a read that is no longer true.
Overtaken == {t \in Tasks : \E c \in Plain : call[c] # Idle /\ call[c].task = t /\ call[c].saw # status[t]}

Lifecycle == INSTANCE TaskLifecycle WITH overtaken <- Overtaken

\* Overlapping calls leave the table of moves only through a plain caller whose
\* read another call has overtaken: as long as no plain read of a task is stale,
\* a terminal status is final and the edge that was checked is the edge that is
\* taken (transition_task, claim_next_task).
OnlyTheOvertakenStray == Lifecycle!RacySpec

\* transition_task is "the ONLY way any task's status ever changes -- validates
\* against VALID_TRANSITIONS, raising InvalidTransitionError rather than silently
\* applying an impossible transition (e.g. ... a stale engine tick trying to
\* complete an already-CANCELLED task)" (its docstring, queue_store.py:2580).
LifecycleKept == Lifecycle!Spec
===============================================================================
