SPECIFICATION Spec

CONSTANTS
    NumberOfButtons = 4
    NumberOfLeds = 2
    QueueSize = 3
    StateLeds = FALSE
    DfuOverSmp = FALSE
    UserPins = {"Switch"}
    ChipActivity = {}

INVARIANTS
    DimsOnlyWhilePressed
