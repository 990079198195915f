CONSTANTS
    DLMlimit = 4
    RoundMod = 256
    Overlap = TRUE
SPECIFICATION DLSpec
INVARIANTS SentAtMostMlimit
