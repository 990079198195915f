CONSTANTS
    Workers = {"te"}
    Kind = {"split", "again"}
    MaxIter = 2
SPECIFICATION Spec
INVARIANTS HalvesDone
CHECK_DEADLOCK FALSE
