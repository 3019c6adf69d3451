----------------------------- MODULE MCVerifyQueue -----------------------------
(* VerifyQueue on small instances.                                           *)
EXTENDS VerifyQueue, TLC

CONSTANT v1

NoDependencies == [t \in Tasks |-> {}]
ByV1 == [t \in Tasks |-> v1]
HoldAll == [t \in Tasks |-> "hold"]
===============================================================================
