CONSTANTS
    PeerA = PeerA
    PeerB = PeerB
    Peers <- TwoPeers
    BufferSize = 10
    MinUpdateSize = 4
    Chunks <- BothSend
    Apart = TRUE
    Lost = {}
    Lossy = {}
    MaxFaults = 0
    MaxRestarts = 0
SPECIFICATION SerialSpec
CHECK_DEADLOCK FALSE
INVARIANTS
    FlowControlled
    ReadAsWritten
PROPERTIES
    PeersConnectAndContentArrives
