----------------------------- MODULE MCSelfHeal -----------------------------
(* SelfHeal.tla on small instances. *)
EXTENDS SelfHeal
==============================================================================
