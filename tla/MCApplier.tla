----------------------------- MODULE MCApplier -----------------------------
(* Bounds and symmetry for model checking Applier.                         *)
EXTENDS Applier, TLC

Symmetry == Permutations(Req) \cup Permutations(Body)
=============================================================================
