CONSTANTS
    BitsLong = 4
    NWords = 2
    Orders = {0, 1, 2, 3}
    AllocPos <- MCAnyPos

INIT Init
NEXT Next

PROPERTY RefinesRegionAlloc
