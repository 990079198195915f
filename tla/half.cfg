CONSTANTS
    Workers = {"fep", "td", "te"}
    Kind = {"split", "single", "again"}
    MaxIter = 2
SPECIFICATION MCSpec
INVARIANTS BothHalves SplitResult
PROPERTIES CallEnds
CHECK_DEADLOCK FALSE
