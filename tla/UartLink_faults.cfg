CONSTANTS
    event_loop = event_loop
    NULL = NULL
    Callers <- MCCallers
    SendQueueLength = 1
    MaxPk = 2
    MaxCalls = 3
    RxQueueLength = 1
    HeaderBits = 3
    Faults <- AllFaults
    MaxFaultKinds = 2
SPECIFICATION LinkSpec
CONSTRAINT ThirdCallFaults
INVARIANTS
    LinkTypes
    
    
CHECK_DEADLOCK FALSE
