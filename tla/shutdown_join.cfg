CONSTANTS
    Single = TRUE
    Polled = TRUE
    Paced = TRUE
SPECIFICATION Spec
INVARIANTS JoinsCreated
CHECK_DEADLOCK FALSE
