INIT Init
NEXT Next
CONSTANTS
    a = a
    b = b
    c = c
    d = d
    s1 = s1
    s2 = s2
    k = k
    cpu = cpu
    gpu = gpu
    w1 = w1
    w2 = w2
    gui = gui
    other = other
    Tasks = {a, b, c, d}
    Scopes = {s1}
    Keys = {k}
    NoKey = NoKey
    Resources = {cpu, gpu}
    ScopeOf <- OneScope
    Interactive = {b}
    KeyOf <- PairNeedsK
    AdoptionHeld = {a}
    ResourceOf <- DeviceForBandC
    ConcurrencyOf <- NoOwnLimit
    BytesOf <- Weights
    Workers = {w1, w2}
    ReserveInteractive = TRUE
    ResourceLimit <- SingleDevice
    MaxAccepted = 2
    MaxRetainedBytes = 4
    Clients = {gui, other}
    Owner = gui
    Calls <- OtherCancels
    NoThread = NoThread
    NoTask = NoTask
SYMMETRY WorkerSymmetry
INVARIANTS
    TypeOK
    LeaseExclusion
    LimitsRespected
    NoLostWakeup
