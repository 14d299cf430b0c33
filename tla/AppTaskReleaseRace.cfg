SPECIFICATION Spec

CONSTANTS
    NumberOfButtons = 4
    NumberOfLeds = 2
    QueueSize = 3
    StateLeds = FALSE
    DfuOverSmp = FALSE
    UserPins = {"Function"}
    ChipActivity = {}

PROPERTIES
    ReleaseCancelsReset
