SPECIFICATION FairSpec

CONSTANTS
    NumberOfButtons = 4
    NumberOfLeds = 2
    QueueSize = 2
    StateLeds = TRUE
    DfuOverSmp = TRUE
    UserPins = {"Function"}
    ChipActivity = {"network", "identify"}

INVARIANTS
    BlinkKeepsGoing

PROPERTIES
    FactoryResetResolves
    HoldingResets
