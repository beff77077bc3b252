CONSTANTS
    u1 = u1
    u2 = u2
    NoSource = NoSource
    Sources <- TwoSources
    ConfigSource = NoSource
    ConfigOnDemand = FALSE
    Kinds <- StreamApi
    MaxRequests = 3
    MaxConcurrent = 2
    MaxCrashes = 1
SPECIFICATION Spec
SYMMETRY SourceSymmetry
CHECK_DEADLOCK FALSE
INVARIANTS StreamPerRow ClientServesRow AlwaysOnHasClient StoppedClientLeaves
