SPECIFICATION FairSpec
CONSTANTS
    Handlers = {h1}
    MaxAttempts = 1
    MaxRequests = 2
    MaxFaults = 1
    MaxChildren = 4
CHECK_DEADLOCK FALSE
PROPERTIES RequestsReturn
