CONSTANTS
    p1 = p1
    p2 = p2
    Peers <- TwoPeers
    MaxPeers = 1
    MaxStreams = 2
SPECIFICATION FairSpec
CHECK_DEADLOCK FALSE
INVARIANTS TypeOK NoLostSlot
PROPERTIES ClosedPeerRemoved StopsReceiving
