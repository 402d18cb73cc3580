SPECIFICATION Spec
CONSTANTS
    Req = {r1, r2}
    Body = {a}
    Foreign = Foreign
    Kinds = {"insert-first", "reapply", "rollback"}
    StructuralDiff = TRUE
    AuditMayFail = FALSE
    Faults = FALSE
    r1 = r1
    r2 = r2
    a = a
INVARIANT RestoreAdvances
