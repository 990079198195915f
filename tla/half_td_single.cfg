CONSTANTS
    Workers = {"td"}
    Kind = {"split", "single"}
    MaxIter = 2
SPECIFICATION Spec
INVARIANTS ResultIsOwn
CHECK_DEADLOCK FALSE
