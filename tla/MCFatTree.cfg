SPECIFICATION TreeSpec
CONSTANTS
    CLUSTER_COUNT = 6
    ROOT_CLUSTER_START = 1
    BYTE_PER_CLUSTER = 8
    DIR_ENTRY_SIZE = 4
    UINT_RANGE = 64
    n1 = n1
    n2 = n2
    long = long
    Names = {n1, n2}
    LongNames = {}
    WriteOffsets = {0, 63}
    WriteSizes = {9}
    TruncateSizes = {0, 8, 16}
    HeapBytes = {}
SYMMETRY Symmetry
INVARIANTS TypeOK DotsCorrect NoCrossLink ChainsEnd SizeCovered TreeConnected
PROPERTIES LossOnlyByFailedInsertion ImplementsFsTree
