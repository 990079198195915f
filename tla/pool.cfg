CONSTANTS
    NumThread = 2
    NumUE = 5
    NumSubframe = 2
    CountMod = 8
    Schedules <- MCSchedules
SPECIFICATION MCSpec
INVARIANTS NoSharedUE QuietOutsideRound IInv FreshSubframe FlagsRemembered
PROPERTIES CountedOnce BarrierComplete RoundImplemented BarrierPassed
CHECK_DEADLOCK FALSE
