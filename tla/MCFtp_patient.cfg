SPECIFICATION FairSpec
CONSTANTS
    c1 = c1
    c2 = c2
    c3 = c3
    NoClient = NoClient
    Clients = {c1, c2, c3}
    Impatient = {}
    Unreadable = FALSE
    MaxFds = 5
    MaxPipeline = 1
    MaxChunks = 2
INVARIANT AnsweredBeforeNext
PROPERTIES EveryClientServed CommandsAnswered
