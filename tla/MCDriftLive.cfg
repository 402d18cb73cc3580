SPECIFICATION FairSpec
CONSTANTS
    Config = {a, b}
    Managed = {m, n}
    m = m
    n = n
    None = None
    Defer = {d1}
    ClockSteps = FALSE
    MayFail = FALSE
    MaxRows = 3
    a = a
    b = b
    d1 = d1
INVARIANT OneEventUntilDeferred
PROPERTY LastingDriftReported
