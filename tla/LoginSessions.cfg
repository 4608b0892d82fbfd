SPECIFICATION Spec
CONSTANTS
    h1 = h1
    h2 = h2
    Handlers <- MCHandlers
    Timeout = 0
    MaxNow = 2
    MaxRequests = 4
    MaxRestarts = 1
SYMMETRY Symmetry
INVARIANT RevocationIsComplete
PROPERTY ConsumedCodeIsRefused
CHECK_DEADLOCK FALSE
