CONSTANTS
    phone = phone
    panel = panel
    event_loop = event_loop
    callback_task = callback_task
    Peers <- MCPeers
    Senders <- MCSenders
    EventLoop = event_loop
    Descriptors <- MCDescriptors
    MaxConns = 3
    MaxData = 2
SPECIFICATION Spec
CONSTRAINT Undisturbed
SYMMETRY PeerSymmetry
INVARIANTS
    TypeOK
    ListMatchesSockets
    NothingAbandoned
PROPERTIES
    SocketsStayApart
    EventDataIntact
CHECK_DEADLOCK FALSE
