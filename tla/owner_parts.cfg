SPECIFICATION OwnerPartsSpec
CONSTANTS
    s1 = s1
    s2 = s2
    x1 = x1
    x2 = x2
    Order <- BrowserOrder
    Sources = {x1, x2}
    NoSource = NoSource
    CommandLimit = 2
    ByteLimit = 3
    BytesOf <- StrokesAreHeavy
    MaxCommands = 4
    Managers = {m1, m2}
    m1 = m1
    m2 = m2
    CreationAutosave = TRUE
    MaxEdits = 2
    MaxRequests = 2
    MaxRejections = 1
    MaxFailures = 1
    MaxWithdrawals = 1
    shared = shared
    TileKeys = {ka, kb}
    Payloads = {shared}
    PayloadOf <- LayersShareTheirPixels
    NoKey = NoKey
    TileHandles = {h1, h2}
    NoHandle = NoHandle
    Assets = {a1}
    Spaces = {srgb, linear}
    Untracked = Untracked
    PyramidHandles = {g1, g2, g3}
    NoWork = NoWork
INVARIANTS
    OwnerPartsTypeOK
    ReplayableForEver
    LeasesAreExact
    ReplayRestores
    FreshnessAgrees
    ReservationsEnd
    PyramidsFollowRequests
PROPERTIES
    LimitsKeepTheNewest
    CompletedIsOnDisk
    FileNeverGoesBack
    EveryRequestEnds
CHECK_DEADLOCK FALSE
