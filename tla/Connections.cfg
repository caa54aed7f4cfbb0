SPECIFICATION ConnectionsSpec
CONSTANTS
    QueueLen = 3
    MaxSegment = 2
    Wnd = 2
    Endings = {"close", "abort", "fin", "rst", "timer"}
    KeepsFunction = TRUE
    Debug = FALSE
    Blocking = {TRUE, FALSE}
    Roles = {"server", "client"}
    Gives = {"atOnce", "later", "never"}
    BsdEndings = {"fin", "reset", "abort"}
    RecvSize = 2
    SendSize = 3
    MaxBytes = 5
CHECK_DEADLOCK FALSE
INVARIANTS
    LwIpSafe
    BsdSafe
PROPERTIES
    DataMoves
