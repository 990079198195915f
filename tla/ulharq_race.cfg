CONSTANTS
    Rntis = {"u1"}
    Pids = {0, 2}
    Mlimit = 2
    MaxMsg3 = 3
    MaxErrors = 2
SPECIFICATION Spec
INVARIANTS Received
