CONSTANTS
    Symbols = 3
    Last = 3
    PrachSubframes = {1, 3}
    MaxLost = 0
    MaxNet = 4
    Peek = TRUE
    Paced = FALSE
SPECIFICATION Spec
INVARIANTS InfoComplete
CHECK_DEADLOCK FALSE
