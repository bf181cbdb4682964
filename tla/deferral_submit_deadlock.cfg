INIT Init
NEXT Next
CONSTANTS
    w1 = w1
    w2 = w2
    c1 = c1
    c2 = c2
    work1 = work1
    work2 = work2
    fin1 = fin1
    fin2 = fin2
    Tasks = {work1, fin1}
    Finalizers = {fin1}
    Workers = {w1, w2}
    Clients = {c1, c2}
    NoThread = NoThread
    NoTask = NoTask
    MaxAccepted = 1
    Calls = {"submit", "cancel"}
INVARIANTS
    SubmitNeverBlocks
