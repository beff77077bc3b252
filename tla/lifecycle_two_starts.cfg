CONSTANTS
    u1 = u1
    u2 = u2
    NoSource = NoSource
    Sources <- TwoSources
    ConfigSource = NoSource
    ConfigOnDemand = FALSE
    Kinds <- StartOnly
    MaxRequests = 2
    MaxConcurrent = 2
    MaxCrashes = 0
SPECIFICATION OnDemandSpec
CHECK_DEADLOCK FALSE
INVARIANTS OneConnection
