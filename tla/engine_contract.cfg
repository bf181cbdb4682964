SPECIFICATION Spec
CONSTANTS
    a = a
    b = b
    c = c
    d = d
    s1 = s1
    s2 = s2
    k = k
    cpu = cpu
    gpu = gpu
    w1 = w1
    w2 = w2
    gui = gui
    other = other
    Tasks = {a, b}
    Scopes = {s1}
    Keys = {k}
    NoKey = NoKey
    Resources = {cpu}
    ScopeOf <- OneScope
    Interactive = {b}
    KeyOf <- AllNeedK
    AdoptionHeld = {a}
    ResourceOf <- OneResource
    ConcurrencyOf <- NoOwnLimit
    BytesOf <- UnitBytes
    Workers = {w1, w2}
    ReserveInteractive = TRUE
    ResourceLimit <- LimitTwo
    MaxAccepted = 1
    MaxRetainedBytes = 2
    Clients = {gui, other}
    Owner = gui
    Calls <- OwnerSubmitsOtherShutsDown
    NoThread = NoThread
    NoTask = NoTask
PROPERTIES
    KeepsContract
    ShutdownDrains
