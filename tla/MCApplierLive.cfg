SPECIFICATION FairSpec
CONSTANTS
    Req = {r1, r2}
    Body = {a, b}
    Foreign = Foreign
    Kinds = {"insert-first", "mutation", "reapply", "rollback"}
    StructuralDiff = TRUE
    AuditMayFail = TRUE
    Faults = TRUE
    r1 = r1
    r2 = r2
    a = a
    b = b
PROPERTY EveryRequestEnds
