CONSTANTS
    event_loop = event_loop
    callback_task = callback_task
    NULL = NULL
    Callers <- MCCallers
    SendQueueLength = 1
    MaxPk = 2
    MaxCalls = 2
SPECIFICATION Spec
SYMMETRY CallerSymmetry
INVARIANTS
    TypeOK
    ResultIsTruth
    PanicNeedsLateOrOverlap
PROPERTIES
    NoGapAfterGiveUp
    NoStaleErrorCut
