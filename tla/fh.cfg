CONSTANTS
    Symbols = 3
    Last = 3
    PrachSubframes = {1, 3}
    MaxLost = 2
    MaxNet = 4
    Peek = TRUE
    Paced = TRUE
SPECIFICATION MCSpec
INVARIANTS MixedCaught
PROPERTIES AllDelivered QuietEnds
CHECK_DEADLOCK FALSE
