----------------------------- MODULE MCHarnessRun -----------------------------
(* HarnessRun on small instances.                                            *)
EXTENDS HarnessRun
===============================================================================
