SPECIFICATION Spec

CONSTANTS
    d1 = d1
    d2 = d2
    Device = {d1, d2}
    Requests = {"Toggle", "Level"}
    ShellRequests = {"On"}
    Faults = {"request", "connect", "notify", "other", "invoke"}
    TableChanges = TRUE
    MaxData = 2
    WorkSize = 1
    MaxRequests = 2
    MaxRecoveries = 1

INVARIANTS
    TypeOK
    NoUseAfterFree
    NeverBothWays
    AppliedAsSent

\* The user may stop asking.
CHECK_DEADLOCK FALSE
