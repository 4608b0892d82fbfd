SPECIFICATION Spec
CONSTANTS
    h1 = h1
    h2 = h2
    Cron = Cron
    Main = Main
    Handlers <- MCHandlers
    InitClients = 1
    FirewallEnabled = FALSE
    Expiries = {"none"}
    MaxRequests = 2
    MaxCrashes = 0
INVARIANT RotatedKeyRefused
SYMMETRY Symmetry
CHECK_DEADLOCK FALSE
