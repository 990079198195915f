CONSTANTS
    Single = FALSE
    Polled = FALSE
    Paced = TRUE
SPECIFICATION MCSpec
PROPERTIES KillReturns
CHECK_DEADLOCK FALSE
