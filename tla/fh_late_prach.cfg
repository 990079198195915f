CONSTANTS
    Symbols = 3
    Last = 3
    PrachSubframes = {1}
    MaxLost = 0
    MaxNet = 2
    Peek = TRUE
    Paced = FALSE
SPECIFICATION MCSpec
PROPERTIES AllDelivered
CHECK_DEADLOCK FALSE
