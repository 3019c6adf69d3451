------------------------------ MODULE TaskStates ------------------------------
(***************************************************************************)
(* The statuses of a queue task and the moves queue_store.py allows        *)
(* between them (VALID_TRANSITIONS).  "ABSENT" is the status of a task     *)
(* that has not been inserted yet.                                         *)
(***************************************************************************)

Terminal == {"COMPLETED", "SKIPPED", "CANCELLED"}

\* _ACTIVE_STATUSES: a task that occupies its lane.
Active == {"PRECHECK", "READY", "DISPATCHING", "DISPATCH_UNCERTAIN", "RUNNING",
           "VERIFYING", "WAITING_SESSION", "PAUSED", "BLOCKED", "FAILED"}

Status == {"QUEUED"} \cup Active \cup Terminal

\* MOVABLE_STATUSES: what move_task_to_session and bind_task_to_session accept.
Movable == {"QUEUED", "BLOCKED", "PAUSED", "WAITING_SESSION"}

\* _MIGRATABLE_STATUSES: what reassign_task accepts.
Migratable == {"QUEUED", "WAITING_SESSION", "BLOCKED", "FAILED"}

\* LEASE_STATES: where a claim token can be renewed, released or handed off.
Leased == {"PRECHECK", "DISPATCHING", "RUNNING", "VERIFYING"}

\* What _pause_lane_locked sweeps into PAUSED.
Pausable == {"PRECHECK", "READY", "DISPATCHING", "DISPATCH_UNCERTAIN", "RUNNING",
             "VERIFYING", "WAITING_SESSION"}

\* active_owner_for: a task in one of these is not retried.
InFlight == {"PRECHECK", "READY", "DISPATCHING", "RUNNING", "VERIFYING"}

ValidTransitions(s) ==
    CASE s = "QUEUED" -> {"PRECHECK", "BLOCKED", "COMPLETED", "DISPATCHING", "SKIPPED",
                          "CANCELLED", "PAUSED"}
      [] s = "PRECHECK" -> {"READY", "QUEUED", "BLOCKED", "WAITING_SESSION", "PAUSED", "CANCELLED"}
      [] s = "READY" -> {"DISPATCHING", "WAITING_SESSION", "BLOCKED", "CANCELLED", "PAUSED"}
      [] s = "DISPATCHING" -> {"RUNNING", "DISPATCH_UNCERTAIN", "QUEUED", "WAITING_SESSION",
                               "BLOCKED", "FAILED", "COMPLETED", "CANCELLED", "PAUSED"}
      [] s = "DISPATCH_UNCERTAIN" -> {"RUNNING", "CANCELLED", "PAUSED"}
      [] s = "RUNNING" -> {"VERIFYING", "WAITING_SESSION", "BLOCKED", "FAILED", "CANCELLED",
                           "PAUSED"}
      [] s = "VERIFYING" -> {"COMPLETED", "RUNNING", "WAITING_SESSION", "BLOCKED", "FAILED",
                             "CANCELLED", "PAUSED"}
      [] s = "BLOCKED" -> {"QUEUED", "SKIPPED", "CANCELLED", "COMPLETED"}
      [] s = "FAILED" -> {"QUEUED", "SKIPPED", "CANCELLED"}
      [] s = "WAITING_SESSION" -> {"QUEUED", "CANCELLED"}
      [] s = "PAUSED" -> {"QUEUED", "PRECHECK", "READY", "DISPATCHING", "DISPATCH_UNCERTAIN",
                          "RUNNING", "VERIFYING", "WAITING_SESSION", "CANCELLED", "COMPLETED"}
      [] OTHER -> {}
===============================================================================
