SPECIFICATION Spec
CONSTANTS
    h1 = h1
    h2 = h2
    DbChanges = 2
    DbFaults = 2
    ScStarts = 3
    ScCalls = 3
    ApHandlers <- Handlers
    ApV4 <- NetworksV4
    ApV6 <- NetworksV6
    ApQuota = 1
    ApClients = 3
    ApEvents = 4
    SwVisitors = {v1, v2}
    SwUsers = 3
    SwStarts = 3
    AcClients = {1, 2}
    AcBytes = 2
    AcDays = 2
    AcEvents = 2
    FwHandlers = {h1}
    FwPeers = {p1}
    FwEvents = 3
    FwFaults = 1
    HsConns = {c1, c2}
    HsTalkers = {c1}
    HsMax = 1
    HsRequests = 2
    HsBody = 3
    AsHandlers <- Handlers
    AsForms = 2
    AsPad = 12
    AsSources = {s1, s2}
    AsKeys = 1
    AsLimit = 1
    AsWindow = 2
    AsTime = 2
    AsScrapes = 3
    CkHandlers <- Handlers
    CkRequests = 4
    Parts = {"firewall"}
INVARIANTS LockdownHolds
CHECK_DEADLOCK FALSE
