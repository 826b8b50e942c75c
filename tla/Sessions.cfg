\* Three calls; one server that the agent and the catalog both have, with different settings.
SPECIFICATION PartsSpec
CONSTANTS
    Servers = {"a"}
    Importable = {"a"}
    Listed = {"a"}
    Kind <- LoginKind
    MaxSaves = 2
    MaxLogins = 1
    MaxConnects = 2
    MaxRounds = 3
    MaxOutside = 1
    Calls = {p1, p2, p3}
    None = None
    MaxRemovals = 1
    MaxBreaks = 1
INVARIANTS
    ConnsAreOwned
    NothingOutlivesTheRun
    LoginsAreKept
    ChecksAreSeen
PROPERTIES
    CallsAreAnswered
    RemovedIsServed
