SPECIFICATION MCSpec
CONSTANTS
    u1 = u1
    t1 = t1
    p = p
    q = q
    User = {u1}
    Password = {p, q}
    None = None
    Token = {t1}
    Owner <- MCOwner
    Request = {r1, r2}
    r1 = r1
    r2 = r2
    TTL = 1
    MaxTime = 1
    MaxSessions = 2
    Addr = {a1, a2}
    Shard <- OneShard
    Login = {l1, l2}
    a1 = a1
    a2 = a2
    l1 = l1
    l2 = l2
    FreeFailures = 2
    BackoffCap = 3
    PurgeEvery = 4
    StaleAfter = 1
    MaxSeconds = 5
SYMMETRY Symmetry
CHECK_DEADLOCK FALSE
INVARIANTS ServedWhenEntitled OldPasswordSessionsEnd BackoffHolds
