CONSTANTS
    BitsLong = 4
    NWords = 2
    Orders = {0, 1, 2, 3}
    AllocPos <- MCAlignedPos

INIT Init
NEXT Next

INVARIANT TypeOK
PROPERTY RefinesRegionAlloc
