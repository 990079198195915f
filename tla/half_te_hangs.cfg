CONSTANTS
    Workers = {"te"}
    Kind = {"split"}
    MaxIter = 2
SPECIFICATION MCSpec
PROPERTIES AnyCallEnds
CHECK_DEADLOCK FALSE
