CONSTANTS
    Readers = {}
    MaxVersion = 1
    MaxRuns = 1
    Managed = TRUE
    MaxReconnects = 1
SPECIFICATION SpecR
INVARIANTS SettledListIsCurrent
CHECK_DEADLOCK FALSE
