SPECIFICATION FairSpec
CONSTANTS
    Worker = {"drift"}
    Modules = {v1, v2}
    v1 = v1
    v2 = v2
    None = None
    Initial = 1
    Cap = 3
    Addr = {a1}
    a1 = a1
    Shard <- MCShard
    Login = {l1}
    l1 = l1
    FreeFailures = 2
    BackoffCap = 1
    PurgeEvery = 2
    StaleAfter = 1
    MaxTime = 1
INVARIANTS PanicsAreReported BackoffSchedule
PROPERTIES ShutdownEnds CapabilitiesCatchUp
