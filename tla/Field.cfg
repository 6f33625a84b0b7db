CONSTANTS
    Nodes = {1, 2, 3}
    Pingers = {1}
    Traffic <- MCTraffic
    TrySteps = 1
    RxLength = 2
    BusFaults = {"frame", "short", "lateack", "latepong", "latecall", "callback"}
    MaxOps = 2
    MaxBusFaults = 1
    Tasks = {"t1", "t2"}
    Messages <- MCSends
    Ponger = "ponger"
    Pinger = "pinger"
    TryAgain = 1
    MaxPackets = 2
    MaxEspOps = 2
    MaxOdd = 1
    MaxPending = 1
    Peers = {1, 2, 3}
    NMAX_PAKET = 2
    QUEUE_SIZE = 1
    MaxTotal = 2
    MaxIncoming = 3
    Macs = {"m1", "m2"}
    Updaters = {"wifi", "app"}
    MaxNodes = 2
    OldBound = 2
    MaxUpdates = 3
    WIFI_MAXIMUM_RETRY = 1
    MqttErrors = 1
    LoopLength = 2
    MaxLink = 3
    MaxClient = 4
    PING_TIMEOUT = 2
    PONG_TIMEOUT = 3
    ERRORS = 1
    CounterBound = 4
SPECIFICATION FieldSpec
INVARIANTS
    FieldTypes
    
    
    ReportsAreTrue
 
CHECK_DEADLOCK FALSE
