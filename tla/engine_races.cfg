INIT Init
NEXT Next
CONSTANTS
    a = a
    b = b
    c = c
    d = d
    s1 = s1
    s2 = s2
    k = k
    cpu = cpu
    gpu = gpu
    w1 = w1
    w2 = w2
    gui = gui
    other = other
    Tasks = {a, b}
    Scopes = {s1, s2}
    Keys = {k}
    NoKey = NoKey
    Resources = {cpu}
    ScopeOf <- ScopeOfA
    Interactive = {b}
    KeyOf <- AllNeedK
    AdoptionHeld = {a}
    ResourceOf <- OneResource
    ConcurrencyOf <- NoOwnLimit
    BytesOf <- UnitBytes
    Workers = {w1, w2}
    ReserveInteractive = TRUE
    ResourceLimit <- LimitTwo
    MaxAccepted = 2
    MaxRetainedBytes = 2
    Clients = {gui, other}
    Owner = gui
    Calls <- OtherClosesAndCancels
    NoThread = NoThread
    NoTask = NoTask
SYMMETRY WorkerSymmetry
INVARIANTS
    CancelOrAdopt
    ActivatedOnce
    RegistersBeforeSettlement
    NothingLeftBehind
PROPERTIES
    ClosedScopeStartsNothing
