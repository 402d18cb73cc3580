SPECIFICATION Spec
CONSTANTS
    Config = {a, b, c}
    Managed = {m}
    m = m
    None = None
    Defer = {d1, d2}
    ClockSteps = TRUE
    MayFail = TRUE
    MaxRows = 3
    a = a
    b = b
    c = c
    d1 = d1
    d2 = d2
SYMMETRY Symmetry
INVARIANTS EventsAreAudited HashIsOpen
