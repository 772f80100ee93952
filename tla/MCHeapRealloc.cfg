SPECIFICATION Spec
CONSTANTS
    HeapSize = 32
    BlockSize = 4
    MallocSizes = {4, 8, 12}
    MaxMembers = 2
    AlignedRequests = {}
    ReallocSizes = {4, 8}
    MaxLive = 3
INVARIANTS
    NeverFaults
\* A null dereference ends the behaviour.
CHECK_DEADLOCK FALSE
