SPECIFICATION Spec
CONSTANTS
    Handlers = {h1, h2}
    MaxAttempts = 1
    MaxRequests = 2
    MaxFaults = 2
    MaxChildren = 5
SYMMETRY Symmetry
CHECK_DEADLOCK FALSE
INVARIANTS SpawnsAreBudgeted LastReconcileWins LiveChildServesTheFile
