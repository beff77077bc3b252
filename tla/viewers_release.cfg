CONSTANTS
    a = a
    b = b
    Sessions <- TwoSessions
    MaxOffers <- TwiceAndOnce
    MaxPeers = 2
    MaxPackets = 2
SPECIFICATION Spec
CHECK_DEADLOCK FALSE
INVARIANTS ReadsLivePacket

