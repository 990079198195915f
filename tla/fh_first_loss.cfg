CONSTANTS
    Symbols = 3
    Last = 3
    PrachSubframes = {3}
    MaxLost = 1
    MaxNet = 4
    Peek = TRUE
    Paced = TRUE
SPECIFICATION Spec
INVARIANTS InfoComplete
CHECK_DEADLOCK FALSE
