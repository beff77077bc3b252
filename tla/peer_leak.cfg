CONSTANTS
    p1 = p1
    p2 = p2
    Peers <- OnePeer
    MaxPeers = 1
    MaxStreams = 1
SPECIFICATION FairSpec
CHECK_DEADLOCK FALSE
PROPERTIES ClosedPeerUnsubscribed
