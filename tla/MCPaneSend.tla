------------------------------ MODULE MCPaneSend ------------------------------
(* PaneSend on a small instance: attempts are interchangeable.             *)
EXTENDS PaneSend, TLC

AttemptSymmetry == Permutations(Attempts)
===============================================================================
