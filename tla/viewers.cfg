CONSTANTS
    a = a
    b = b
    Sessions <- TwoSessions
    MaxOffers <- TwiceAndOnce
    MaxPeers = 1
    MaxPackets = 1
SPECIFICATION FairSpec
CHECK_DEADLOCK FALSE
INVARIANTS RunningPeerIsFound EndedSessionLeaves
PROPERTIES ClosedPeerEnds
