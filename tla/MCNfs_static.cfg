SPECIFICATION Spec
CONSTANTS
    a = a
    b = b
    reader = reader
    lister = lister
    prober = prober
    None = None
    Names = {a, b}
    Stable = {a}
    Readers = {}
    Listers = {}
    Probers = {prober}
    COUNT = 2
    Faults = TRUE
    MaxReply = 1
    MaxSize = 1
    MaxFiles = 3
    MaxCalls = 2
INVARIANTS StableFilesSeen ListingComplete
