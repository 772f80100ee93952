SPECIFICATION Spec
CONSTANTS
    HeapSize = 64
    BlockSize = 4
    MallocSizes = {5, 6}
    MaxMembers = 2
    AlignedRequests <- OnePage
    ReallocSizes = {}
    MaxLive = 3
INVARIANTS
    PointersHaveBlocks
