CONSTANTS
    Symbols = 2
    Last = 3
    PrachSubframes = {1, 3}
    MaxLost = 0
    MaxNet = 4
    Peek = FALSE
    Paced = TRUE
SPECIFICATION MCSpec
PROPERTIES AllDelivered
CHECK_DEADLOCK FALSE
