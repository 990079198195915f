CONSTANTS
    Rntis = {"u1", "u2"}
    Pids = {0, 2}
    Mlimit = 2
    MaxMsg3 = 3
    MaxErrors = 2
SPECIFICATION MCSpec
INVARIANTS Heard UeFound
PROPERTIES NoDuplicate Settled
