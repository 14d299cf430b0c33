SPECIFICATION FairSpec

CONSTANTS
    QueueSize = 3
    Network = "thread"
    InitFails = TRUE
    ChipActivity = {"advertising", "network", "reboot"}

INVARIANTS
    TypeOK
    ArmedHasTimer
    TimerOnlyWhileArmed
    BlinkKeepsGoing

PROPERTIES
    ImplementsResetButton HeldButtonIsAnswered

\* An error in Init ends the program.
CHECK_DEADLOCK FALSE
