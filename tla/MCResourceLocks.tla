---------------------------- MODULE MCResourceLocks ----------------------------
(* ResourceLocks on a small instance.                                       *)
EXTENDS ResourceLocks
===============================================================================
