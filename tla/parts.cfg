CONSTANTS
    ConfiguredRetries = 3
    Writers = {w1}
    Subscribers = {s1, s2}
    BufferSize = 3
    ChanSize = 3
    MaxWrites = 3
    c1 = c1
    c2 = c2
    SigClients = {c1, c2}
    SigCapacity = 1
    SigMaxOffers = 2
    PthNames = {a}
    PthSessions = {s1, s2, s3}
    PthMaxObjects = 2
    PrcIds = {i1}
    PrcMax = 3
    CfgIds = {i1, i2}
    CfgBodies = {b1, b2}
    CfgHlsValues = {0, 30}
    CfgMaxBoots = 2
    CctvRuns = {r1, r2, r3}
    CctvMaxLists = 3
    KcMaxRequests = 3
    KcMaxConcurrent = 2
    KcMaxAttempts = 2
SPECIFICATION PartsSpec
CHECK_DEADLOCK FALSE
INVARIANTS
    TypeOK OneSession ConnectedIsPlaying
    PartsTypeOK PthPacketsArrive PrcCommandsAreKnown
PROPERTIES
    StopEndsSession FailureHandled RoomyGapless SigClientsServed CfgPathsPersist CctvNeverOlder KcClientsServed
