SPECIFICATION Spec
CONSTANTS
    Req = {r1, r2, r3}
    Body = {a, b}
    Foreign = Foreign
    Kinds = {"insert-first", "mutation", "reapply", "rollback"}
    StructuralDiff = FALSE
    AuditMayFail = FALSE
    Faults = TRUE
    r1 = r1
    r2 = r2
    r3 = r3
    a = a
    b = b
SYMMETRY Symmetry
INVARIANTS CheckHolds HistoryIsLinear AppliedWasAccepted InSync RowsTellTheTruth
PROPERTIES Implements
