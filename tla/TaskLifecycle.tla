----------------------------- MODULE TaskLifecycle -----------------------------
(***************************************************************************)
(* Two promises about the status of a task, whatever the callers of        *)
(* queue_store.py do.                                                      *)
(*                                                                         *)
(* Spec is what transition_task's docstring says: a task is created        *)
(* QUEUED and its status changes only along VALID_TRANSITIONS, so a        *)
(* terminal status is final.  RacySpec is what the transactions give: the  *)
(* table may be left only while a caller holds a read of the task that     *)
(* another write has overtaken.                                            *)
(***************************************************************************)
EXTENDS TaskStates

CONSTANT Tasks

VARIABLES
    status,
    overtaken   \* the tasks some caller has read and that have changed since

Init == status = [t \in Tasks |-> "ABSENT"] /\ overtaken = {}

\* set_tasks inserts a row.
Created(t) == status[t] = "ABSENT" /\ status'[t] = "QUEUED"

\* An edge of the table.
Moved(t) == status'[t] \in ValidTransitions(status[t])

Legal(t) == status'[t] = status[t] \/ Created(t) \/ Moved(t)

Next ==
    /\ status' \in [Tasks -> Status \cup {"ABSENT"}]
    /\ \A t \in Tasks : Legal(t)

RacyNext ==
    /\ status' \in [Tasks -> Status \cup {"ABSENT"}]
    /\ \A t \in Tasks :
        /\ Legal(t) \/ t \in overtaken
        /\ t \in overtaken' => t \in overtaken \/ status'[t] # status[t]

Spec == Init /\ [][Next]_status

RacySpec == Init /\ [][RacyNext]_<<status, overtaken>>
===============================================================================
