SPECIFICATION DiskSpec
CONSTANTS
    CLUSTER_COUNT = 5
    ROOT_CLUSTER_START = 1
    BYTE_PER_CLUSTER = 5
    DIR_ENTRY_SIZE = 2
    UINT_RANGE = 64
    n1 = n1
    n2 = n2
    long = long
    Names = {n1, n2}
    LongNames = {long}
    WriteOffsets = {0, 63}
    WriteSizes = {6}
    TruncateSizes = {0, 6, 66}
    HeapBytes = {3}
    LINKS_PER_CLUSTER = 2
    CrashIn = {"format", "create", "grow"}
    MaxCrashes = 1
SYMMETRY Symmetry
VIEW NoReply
INVARIANTS DiskTypeOK DiskCurrent CrashDamageLocal EntriesReachable
