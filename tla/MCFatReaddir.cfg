SPECIFICATION Spec
CONSTANTS
    BYTE_PER_CLUSTER = 7
    DIR_ENTRY_SIZE = 2
    n1 = n1
    n2 = n2
    n3 = n3
    Names = {n1, n2, n3}
    Foreigner = Foreigner
    Spelled = {n1, Foreigner}
    MaxClusters = 2
    PerCall = 2
INVARIANT ListedOnce
PROPERTY ListingEnds
