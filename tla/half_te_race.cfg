CONSTANTS
    Workers = {"te"}
    Kind = {"split"}
    MaxIter = 2
SPECIFICATION Spec
INVARIANTS HalvesDone
CHECK_DEADLOCK FALSE
