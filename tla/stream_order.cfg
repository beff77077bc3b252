CONSTANTS
    w1 = w1
    w2 = w2
    s1 = s1
    s2 = s2
    Writers <- TwoWriters
    Subscribers <- OneSubscriber
    BufferSize = 2
    ChanSize = 1
    MaxWrites = 3
SPECIFICATION Spec
CHECK_DEADLOCK FALSE
INVARIANTS TypeOK InOrder
PROPERTIES HandedInOrder IsBroadcast
