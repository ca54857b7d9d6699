SPECIFICATION Spec
CONSTANTS
    CLUSTER_COUNT = 5
    ROOT_CLUSTER_START = 1
    BYTE_PER_CLUSTER = 8
    DIR_ENTRY_SIZE = 4
    UINT_RANGE = 64
    n1 = n1
    n2 = n2
    long = long
    Names = {n1, n2}
    LongNames = {}
    WriteOffsets = {0, 14}
    WriteSizes = {2, 9}
    TruncateSizes = {}
    HeapBytes = {}
SYMMETRY Symmetry
INVARIANT ShortageReturnsENOMEM
