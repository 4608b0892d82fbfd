SPECIFICATION Spec
CONSTANTS
    Datagrams = {1, 2, 3}
    Length <- Lengths
    Room <- Rooms
    Half = 2
    Offsets = 1
    Resolvers = 2
    Tries = 2
    QueueSize = 2
    WaitLimit = 0
    AssembleTime = 2
    NetLife = 1
    Gaps = {0, 3}
    MaxNow = 5
    QsHandlers = {h1, h2}
    QsEngines = 3
    QsEvents = 3
    PxHandlers = {h1, h2}
    PxTasks = 2
    PxEvents = 2
    PxFaults = 1
    PsClients = {"c1", "c2"}
    PsProtocols = {"dns"}
    PsMax = 1
    PsRelays = 3
    PsPackets = 3
    PsFaults = 1
    SdCalls = {1, 2}
    SdRequests = 4
    SdTasks = 3
    PbTasks = {t1, t2}
    PbSizes = {1, 2, 4}
    PbBytes = 3
    PbRate = 2
    PbPermits = 1
    PbSeconds = 1
    QhConns = {k1, k2}
    QhFragments <- Fragments
    QhHello = 1500
    QhSizes = {100, 1200}
    QhFlights = {700, 1600}
    QhCids = {0, 20}
    QhMax = 1
    QhDatagrams = 4
    QhTtl = 2
    CtPads = {0, 15, 40, 71}
    CtLong <- LongPads
    CtPayloads = {32, 92, 100}
    CtNames = {0, 7}
    CtHosts = {14}
    CtSeqs = {16, 23}
    CtBytes = {0, 1, 10, 255}
    Parts = {"tunnel", "engine", "proxy", "sessions", "sip", "budget", "quic", "cover"}
INVARIANTS
    WholeDatagramArrives
    
    
    SessionHasItsRelay
    
    CeilingBetweenResets
    
    CoverFramesTheDatagram
    
PROPERTIES
    Refines
CHECK_DEADLOCK FALSE
