SPECIFICATION FairSpec
CONSTANTS
    a = a
    b = b
    reader = reader
    lister = lister
    prober = prober
    None = None
    Names = {a, b}
    Stable = {a}
    Readers = {reader}
    Listers = {lister}
    Probers = {}
    COUNT = 2
    Faults = FALSE
    MaxReply = 2
    MaxSize = 3
    MaxFiles = 2
    MaxCalls = 1
INVARIANTS TypeOK ReadsPrefix ReadsToEnd
PROPERTIES ReaderFinishes ListingEnds
