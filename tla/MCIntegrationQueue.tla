-------------------------- MODULE MCIntegrationQueue --------------------------
(* IntegrationQueue on small instances.                                      *)
EXTENDS IntegrationQueue
===============================================================================
