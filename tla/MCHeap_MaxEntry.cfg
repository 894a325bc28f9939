CONSTANTS
    BitsLong = 4
    HeapEntry = 8
    HeapPageSize = 8
    HeapHeaderSize = 4
    MaxHeapEntry = 4
    Sizes <- MCSizes

INIT Init
NEXT Next

INVARIANT ObjectWithinMaxHeapEntry
