SPECIFICATION Spec
CONSTANTS
    Handlers = {h1, h2}
    MaxAttempts = 1
    MaxRequests = 2
    MaxFaults = 0
    MaxChildren = 3
CHECK_DEADLOCK FALSE
PROPERTIES ClearedProcessIsGone
