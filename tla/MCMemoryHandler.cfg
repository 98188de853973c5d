SPECIFICATION Spec
CONSTANTS
    PageSize = 4
    Heap <- SmallHeap
    TraceSizes <- Sizes
INVARIANTS
    MemoryTypeOK
    TracesInBlocks
    TracesIntact
CHECK_DEADLOCK FALSE
