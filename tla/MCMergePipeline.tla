--------------------------- MODULE MCMergePipeline ---------------------------
(* MergePipeline.tla on small instances. *)
EXTENDS MergePipeline
==============================================================================
