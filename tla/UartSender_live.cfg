CONSTANTS
    event_loop = event_loop
    NULL = NULL
    Callers <- MCCallers
    SendQueueLength = 1
    MaxPk = 1
    MaxCalls = 3
SPECIFICATION FairSpec
PROPERTY WaitsEnd
