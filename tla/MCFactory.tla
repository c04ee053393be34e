------------------------------ MODULE MCFactory ------------------------------
(* Factory.tla on small instances. *)
EXTENDS Factory, TLC

\* Processes, tasks and unit ids are interchangeable (runs without liveness).
Symmetry == Permutations(Procs) \cup Permutations(Tasks) \cup Permutations(Units)
==============================================================================
