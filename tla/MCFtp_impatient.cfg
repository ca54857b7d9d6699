SPECIFICATION Spec
CONSTANTS
    c1 = c1
    c2 = c2
    c3 = c3
    NoClient = NoClient
    Clients = {c1, c2}
    Impatient = {c1}
    Unreadable = TRUE
    MaxFds = 5
    MaxPipeline = 2
    MaxChunks = 2
INVARIANTS TypeOK DeathHasCause
PROPERTY LeaksHaveCause
CHECK_DEADLOCK FALSE
