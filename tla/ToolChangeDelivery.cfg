CONSTANTS
    Listens = {l1}
    Agent = agent
    Binders = {1, 2}
    Conns = {1, 2}
    Cap = 1
    MaxGen = 2
    MaxSessions = 2
    Scenarios <- Deliveries
SPECIFICATION FairSpec
INVARIANTS OwedIsHeld
PROPERTIES StreamKeepsUp
CHECK_DEADLOCK FALSE
