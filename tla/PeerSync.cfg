SPECIFICATION Spec
CONSTANTS
    h1 = h1
    h2 = h2
    Cron = Cron
    Main = Main
    Handlers <- MCHandlers
    InitClients = 1
    FirewallEnabled = TRUE
    Expiries = {"future"}
    MaxRequests = 2
    MaxCrashes = 1
INVARIANTS   BootRegenerates
CONSTRAINT TwoEvents
SYMMETRY Symmetry
CHECK_DEADLOCK FALSE
