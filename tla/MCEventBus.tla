------------------------------ MODULE MCEventBus ------------------------------
(* EventBus on small instances.                                              *)
EXTENDS EventBus
===============================================================================
