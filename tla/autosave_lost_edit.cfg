SPECIFICATION Spec
CONSTANTS
    Managers = {m1}
    m1 = m1
    CreationAutosave = FALSE
    MaxEdits = 2
    MaxRequests = 2
    MaxRejections = 0
    MaxFailures = 0
    MaxWithdrawals = 0
INVARIANT
    LastChangeSaved
CHECK_DEADLOCK FALSE
