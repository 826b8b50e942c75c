CONSTANTS
    Proxies = {p1, p2}
    Daemons = {d1, d2}
    None = None
SPECIFICATION FairSpec
INVARIANTS NoHerd ServingIsReachable
PROPERTIES ResolveReturns
CHECK_DEADLOCK FALSE
