\* Two reads overlap and two changes: one while a pass is listing and one while
\* its follow-up is, each possibly before the handler is attached.
CONSTANTS
    Readers = {r1, r2}
    MaxVersion = 2
    MaxRuns = 3
    Managed = TRUE
SPECIFICATION FairSpec
INVARIANTS FreshListIsCurrent AwaitedReadIsCurrent
PROPERTIES RequestsAreMet
CHECK_DEADLOCK FALSE
