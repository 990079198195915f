CONSTANTS
    NumFrame = 2
    PrachSubframe = {1, 6}
    MaxPoll = 2
    MaxCount = 1
SPECIFICATION MCSpec
INVARIANTS PacedHandover
PROPERTIES SlotsImplemented SubframesServed
CHECK_DEADLOCK FALSE
