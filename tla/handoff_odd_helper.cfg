CONSTANTS
    NumFrame = 1
    PrachSubframe = {1}
    MaxPoll = 1
    MaxCount = 1
SPECIFICATION Spec
INVARIANTS GeneratedIsOwn
