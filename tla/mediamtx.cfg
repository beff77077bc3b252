CONSTANTS
    pathA = pathA
    r1 = r1
    r2 = r2
    c1 = c1
    c2 = c2
    s1 = s1
    p1 = p1
    p2 = p2
    MpClients = {x1, x2, x3}
    MpConfs <- PathConfs
    MpMaxStreams = 2
    PmNames = {pathA}
    PmConfMaps <- ConfMaps
    PmClients = {x1}
    PmMaxPaths = 2
    PmMaxReloads = 1
    MstReaders <- Readers
    MstQueue = 1
    MstMaxUnits = 3
    CorEdits <- Edits
    CorMaxEdits = 2
    ConClients <- Conns
    RtsIds = {x1, x2}
    RtsKickers = {k1}
    WrtIds <- Sessions
    WrtPatches <- Patches
    RecSetups <- Setups
    RecSteps <- Steps
    RecMaxUnits = 4
    RecBuffer = 2
    RecFileFaults = {"header", "close"}
    RecMaxFaults = 1
    PcoTracks = {t1}
    PcoMaxChanges = 2
    SrcMaxRuns = 2
SPECIFICATION MtxSpec
CHECK_DEADLOCK FALSE
INVARIANTS
    MtxTypeOK MpPathServes PmTableIsTrue MstAllAccounted CorResourcesFit MtxSessionsLeave PcoEndsClean
PROPERTIES
    RecFilesAreTrue MtxNobodyWaits
