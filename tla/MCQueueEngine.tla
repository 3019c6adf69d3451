----------------------------- MODULE MCQueueEngine -----------------------------
(* QueueEngine on small instances.                                           *)
EXTENDS QueueEngine, TLC

Symmetry == Permutations(Tasks) \cup Permutations(Engines) \cup Permutations(Lanes)

\* A key is reclaimed or the task is retried, not both.
Explored == \A t \in Tasks : retries[t] + Cardinality(Reclaims(t)) <= 1

NoDependencies == [t \in Tasks |-> {}]
===============================================================================
