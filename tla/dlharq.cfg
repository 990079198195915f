CONSTANTS
    DLMlimit = 4
    RoundMod = 256
    Overlap = FALSE
SPECIFICATION DLSpec
INVARIANTS AckEndsPacket IdleIsRoundZero SentAtMostMlimit RoundCountsSent
PROPERTIES DroppedAtLimit NoPacketOverwritten
