SPECIFICATION FairSpec
CONSTANTS
    Handlers = {h1}
    Cron = Cron
    Main = Main
    InitClients = 1
    FirewallEnabled = FALSE
    Expiries = {"future"}
    MaxRequests = 1
    MaxCrashes = 1
    PsClients = {"c1", "c2"}
    PsProtocols = {"dns"}
    PsMax = 1
    PsRelays = 3
    PsPackets = 3
    PsFaults = 1
    PhCallers = {c1, c2}
    PhSilent = {s1}
    PhCalls = 3
    PhFaults = 1
PROPERTIES
    ExpiredRowIsRetired
    SilentSessionExpires
    CallReturns
CHECK_DEADLOCK FALSE
