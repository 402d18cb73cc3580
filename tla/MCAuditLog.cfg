SPECIFICATION Spec
CONSTANTS
    w1 = w1
    w2 = w2
    Writer = {w1, w2}
    Seed = Seed
    RandomRange = 2
    MsPerSecond = 2
    ClockSteps = TRUE
    PageSize = 2
    MaxMs = 2
    MaxRows = 3
SYMMETRY Symmetry
INVARIANTS IntactIffInOrder PagingIsExact
