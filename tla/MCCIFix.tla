------------------------------ MODULE MCCIFix ------------------------------
(* CIFix.tla on small instances. *)
EXTENDS CIFix
=============================================================================
