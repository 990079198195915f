CONSTANTS
    NumSubframe = 3
    NumFrame = 2
    TxAhead = 2
    WriteAhead = 1
    UE <- MCUE
    Plans <- MCPlans
    DLSlot <- MCTddSlots
SPECIFICATION MCSpec
INVARIANTS Built BufferQuiet
PROPERTIES ParsedBeforePdsch AirIsCurrent RadioServed
