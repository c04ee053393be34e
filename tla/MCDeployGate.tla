---------------------------- MODULE MCDeployGate ----------------------------
(* DeployGate.tla on small instances. *)
EXTENDS DeployGate, TLC

Symmetry == Permutations(Actors) \cup Permutations(Requests)
==============================================================================
