CONSTANTS
    w1 = w1
    w2 = w2
    s1 = s1
    s2 = s2
    Writers <- OneWriter
    Subscribers <- OneSubscriber
    BufferSize = 1
    ChanSize = 1
    MaxWrites = 2
SPECIFICATION Spec
CHECK_DEADLOCK FALSE
INVARIANTS WriterNeverPanics
