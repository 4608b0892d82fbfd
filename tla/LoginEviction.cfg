SPECIFICATION Spec
CONSTANTS
    h1 = h1
    h2 = h2
    Handlers <- MCHandlers
    Timeout = 0
    MaxNow = 1
    MaxRequests = 4
    MaxRestarts = 0
INVARIANT OldLoginsAreEvicted
CHECK_DEADLOCK FALSE
