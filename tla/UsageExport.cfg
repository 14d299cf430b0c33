SPECIFICATION Spec

CONSTANTS
    Days = {1, 2}
    Metered = TRUE
    Amounts = {0, 1}
    MaxReadings = 3

INVARIANTS
    RowsAreDaily

\* The export ends.
CHECK_DEADLOCK FALSE
