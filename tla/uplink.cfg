CONSTANTS
    NumTurbo = 2
    NumUE = 2
    NumPid = 2
SPECIFICATION MCSpec
INVARIANTS FeedbackNotMissed FeedbackQuiet OneDecoder
PROPERTIES CollectedFresh UplinkServed
