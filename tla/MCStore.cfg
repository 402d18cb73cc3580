SPECIFICATION Spec
CONSTANTS
    Ids = {"h1", "h2", "h3"}
    Bodies = {"b1", "b2", "b3"}
    Hash <- MCHash
    Correlations = {"c1", "c2"}
    Sources = {"s1"}
    None = None
    MaxVersion = 2
    Times = {1, 2}
    MaxQueue = 2
CHECK_DEADLOCK FALSE
INVARIANTS OnlyStricter ReadsAgree HistoryIsWhole
