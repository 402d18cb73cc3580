-------------------------- MODULE MCDriftDetector --------------------------
(* Symmetry for model checking DriftDetector, where no liveness is checked. *)
EXTENDS DriftDetector, TLC

Symmetry == Permutations(Defer) \cup Permutations(Config) \cup Permutations(Managed)
=============================================================================
