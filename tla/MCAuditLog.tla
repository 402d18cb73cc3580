----------------------------- MODULE MCAuditLog -----------------------------
(* Symmetry for model checking AuditLog.                                   *)
EXTENDS AuditLog, TLC

Symmetry == Permutations(Writer)
=============================================================================
