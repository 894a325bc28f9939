CONSTANTS
    MaxOpen = 3
    BlockSize = 2
    NDirect = 2
    NBlocks = 6
    MaxSize = 6
    MaxWrites = 2
    Lens = {1, 3}
    Offsets <- MCOffsets
    Huge = 100
    KeyBufSize = 2
    RtcValues <- MCRtcValues
    MaxLines = 2

SPECIFICATION Spec

PROPERTIES
    FilesMeetSpec
