SPECIFICATION FairSpec

CONSTANTS
    NumberOfButtons = 2
    NumberOfLeds = 2
    QueueSize = 3
    StateLeds = FALSE
    DfuOverSmp = FALSE
    UserPins = {"Switch"}
    ChipActivity = {"fabric", "advertising"}

INVARIANTS
    DimmerFlagMatchesTimer

PROPERTIES
    HoldingDims
    ReleaseOpensWindow
