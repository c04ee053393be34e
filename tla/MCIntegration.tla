---------------------------- MODULE MCIntegration ----------------------------
(* Integration.tla on small instances. *)
EXTENDS Integration
==============================================================================
