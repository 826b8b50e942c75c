CONSTANTS
    Settings = {s1}
    Flags = {TRUE, FALSE}
    Conns = {c1, c2, c3}
    Ups = {u1, u2}
    None = None
    Scenarios <- Operations
    AuthUnrecorded = TRUE
SPECIFICATION Spec
INVARIANTS NoLeakedConnection ServedConsistently RemovedStaysRemoved
CHECK_DEADLOCK FALSE
