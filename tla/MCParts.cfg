SPECIFICATION PartsSpec
CONSTANTS
    Readers = {"r1"}
    MaxVersion = 1
    MaxRuns = 1
    Managed = TRUE
    MaxReconnects = 1
    Writers = {w1, w2}
    Sizes = {1, 2}
    Budget = 2
    TTL = 2
    MaxNow = 3
    MaxWrites = 3
    MaxFailures = 1
    MaxRestarts = 1
    Tools = {t1, t2}
    Shapes = {"", "s"}
    Aliases = {"", "x"}
    Written <- WrittenContents
    EditAttempts = 2
    MaxEdits = 2
    MaxSets = 1
    MaxOps = 1
    Servers = {s1, s2}
    Hold = 2
    MaxTime = 3
    MaxDetaches = 1
    Callers = {c1, c2}
    Logins = {"start_auth", "mini_auth"}
    MaxTokens = 2
    MaxProviders = 2
    MaxEvents = 2
    ServerSettings <- LoginSettings
    Edits <- LoginEdits
    Networks <- LoginNetworks
    Lists <- NameLists
    MaxTurns = 4
    AgentConfigs <- AgentsFound
    MiniServers <- ServersOfMini
    CatalogPicks <- CatalogServers
    SentenceWindow = 2
    WordWindow = 2
SYMMETRY CallersAreAlike
INVARIANTS
    DiskIsTracked
    RulesFollowFile
    StartupIsTold
    ReauthOnlyWhenNeeded
    RetiredIsSilent
    ChangesSurviveReconnect
    LoginIsBound
    ImportIsSound
    NothingIsHidden
    NamesAreReachable
PROPERTIES
    ChallengeWaits
CHECK_DEADLOCK FALSE
