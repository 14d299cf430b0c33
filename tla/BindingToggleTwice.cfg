SPECIFICATION Spec

CONSTANTS
    d1 = d1
    d2 = d2
    Device = {d1, d2}
    Requests = {"Toggle"}
    ShellRequests = {}
    Faults = {"request"}
    TableChanges = FALSE
    MaxData = 3
    WorkSize = 2
    MaxRequests = 1
    MaxRecoveries = 2

INVARIANTS
    AppliedAtMostOnce

\* The user may stop asking.
CHECK_DEADLOCK FALSE
