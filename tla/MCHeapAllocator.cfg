SPECIFICATION Spec
CONSTANTS
    HeapSize = 48
    BlockSize = 4
    MallocSizes = {4, 8}
    MaxMembers = 2
    AlignedRequests <- Pages
    ReallocSizes = {4, 12}
    MaxLive = 4
INVARIANTS
    TypeOK
    NoOverlap
    PointersHaveBlocks
    MagicMatchesList
    Coalesced
PROPERTIES
    BoundedLoss
\* A null dereference ends the behaviour.
CHECK_DEADLOCK FALSE
