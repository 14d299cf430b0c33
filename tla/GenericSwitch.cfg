SPECIFICATION FairSpec

CONSTANTS
    SwitchEndpoint = 1
    QueueSize = 3
    MaxFabrics = 2
    OpenFails = FALSE
    MaxPresses = 4

INVARIANTS
    TypeOK
    NoUnknownEndpoint
    EveryPressCounted
    NeverForgotten

PROPERTIES
    LastFabricReopens
    PressSettled
