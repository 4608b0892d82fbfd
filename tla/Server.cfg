SPECIFICATION Spec
CONSTANTS
    h1 = h1
    h2 = h2
    DbChanges = 2
    DbFaults = 2
    ScStarts = 3
    ScCalls = 3
    ApHandlers <- Handlers
    ApV4 <- NetworksV4
    ApV6 <- NetworksV6
    ApQuota = 1
    ApClients = 3
    ApEvents = 4
    SwVisitors = {v1, v2}
    SwUsers = 3
    SwStarts = 3
    AcClients = {1, 2}
    AcBytes = 2
    AcDays = 2
    AcEvents = 2
    FwHandlers <- Handlers
    FwPeers = {p1}
    FwEvents = 2
    FwFaults = 1
    HsConns = {c1, c2}
    HsTalkers = {c1}
    HsMax = 1
    HsRequests = 2
    HsBody = 3
    AsHandlers <- Handlers
    AsForms = 2
    AsPad = 12
    AsSources = {s1, s2}
    AsKeys = 1
    AsLimit = 1
    AsWindow = 2
    AsTime = 2
    AsScrapes = 3
    CkHandlers <- Handlers
    CkRequests = 4
    Parts = {"database", "secrets", "addresses", "setup", "activity", "firewall", "http", "settings", "metrics", "keys"}
SYMMETRY Symmetry
INVARIANTS
    SchemaIsComplete
    RestartServesABackup
    ReadReturnsTheSecret
    PeersAreInTheRange
    HostIsWrittenByAnAdmin
    TotalsAreRealTraffic
    
    NothingIsSmuggled
    MetricsAreGuarded
    HandedOutOnce
CHECK_DEADLOCK FALSE
