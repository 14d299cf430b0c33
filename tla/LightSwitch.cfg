SPECIFICATION FairSpec

CONSTANTS
    NumberOfButtons = 2
    NumberOfLeds = 2
    QueueSize = 2
    StateLeds = FALSE
    DfuOverSmp = FALSE
    UserPins = {"Switch"}
    ChipActivity = {"fabric"}
    d1 = d1
    Device = {d1}
    Requests = {"Toggle", "On", "Level"}
    ShellRequests = {}
    Faults = {"request", "other", "connect"}
    TableChanges = TRUE
    MaxData = 2
    WorkSize = 2
    MaxRequests = 2
    MaxRecoveries = 2
    MaxReleases = 1

INVARIANTS
    TypeOK
    TogglesAreReleases
    NoLeak
    AppliedAtMostOnce
    RecoveriesWithinRequests

PROPERTIES
    ContextsReleased

CHECK_DEADLOCK FALSE
