SPECIFICATION Spec
CONSTANTS
    Managers = {m1}
    m1 = m1
    CreationAutosave = TRUE
    MaxEdits = 1
    MaxRequests = 2
    MaxRejections = 0
    MaxFailures = 0
    MaxWithdrawals = 0
PROPERTY
    BlankNeverOverwrites
CHECK_DEADLOCK FALSE
