CONSTANTS
    NumThread = 2
    NumUE = 4
    NumSubframe = 2
    CountMod = 8
    Schedules <- MCSchedules
SPECIFICATION MCSpec
PROPERTIES ClearsUnscheduled
CHECK_DEADLOCK FALSE
