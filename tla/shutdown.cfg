CONSTANTS
    Single = FALSE
    Polled = TRUE
    Paced = TRUE
SPECIFICATION MCSpec
INVARIANTS SignalsLive
PROPERTIES KillReturns
CHECK_DEADLOCK FALSE
