CONSTANTS
    Requests = {r1, r2}
    Life = life
    None = None
    MaxAttempts = 3
    MaxDeaths = 1
    MaxEvictions = 1
    MaxLife = 2
SPECIFICATION FairSpec
INVARIANTS RunsAtMostOnce
PROPERTIES RecoveryCompletes
CHECK_DEADLOCK FALSE
