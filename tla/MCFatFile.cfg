SPECIFICATION Spec
CONSTANTS
    BYTE_PER_CLUSTER = 2
    ClusterTotal = 3
    OwnBytes = {0, 1, 2}
    Foreign = 9
    Buffers <- MCBuffers
    Offsets = {0, 1, 5}
    Sizes = {0, 1, 2, 5}
    Reads <- MCReads
INVARIANT NoForeignBytes
PROPERTY ImplementsByteFile
