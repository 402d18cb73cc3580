SPECIFICATION FairSpec
CONSTANTS
    d1 = d1
    d2 = d2
    c1 = c1
    c2 = c2
    c3 = c3
    p1 = p1
    p2 = p2
    p3 = p3
    p4 = p4
    Daemon = {d1, d2}
    Call = {c1, c2, c3}
    DaemonOf <- MCDaemonOf
    Pid = {p1, p2, p3, p4}
    NoPid = NoPid
    NoCall = NoCall
    FileLock = FALSE
    PidReuse = FALSE
INVARIANTS RowIsOwned
PROPERTIES RowKeptWhileInside Implements EveryCallAnswered StaleRowReaped
