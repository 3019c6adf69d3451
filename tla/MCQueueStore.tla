----------------------------- MODULE MCQueueStore -----------------------------
(* QueueStore on small instances.                                           *)
EXTENDS QueueStore, TLC

Symmetry == Permutations(Tasks) \cup Permutations(Lanes)
NoDependencies == [t \in Tasks |-> {}]

\* All statuses are explored while one lane has the tasks.  With tasks in two
\* lanes the refusals, the statuses that no placement reads, and the pauses of a task
\* that is neither QUEUED nor RUNNING are left out.
Explored ==
    \/ \E l \in Lanes : lane[l] = "absent" /\ \A t \in Tasks : l \notin {session[t], bound[t]}
    \/ \A t \in Tasks :
         /\ ~refused[t]
         /\ pausedFrom[t] \in {"NULL", "QUEUED", "RUNNING"}
         /\ status[t] \notin {"READY", "DISPATCH_UNCERTAIN", "VERIFYING", "FAILED", "SKIPPED",
                           "CANCELLED"}
===============================================================================
