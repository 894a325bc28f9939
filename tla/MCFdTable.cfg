CONSTANTS
    MaxOpen = 3
    BlockSize = 2
    NDirect = 2
    NBlocks = 4
    MaxSize = 4
    MaxWrites = 2
    Lens = {1, 3}
    Offsets <- MCOffsets
    Huge = 100
    KeyBufSize = 2
    RtcValues <- MCRtcValues
    MaxLines = 1

SPECIFICATION Spec

INVARIANTS
    TypeOK
    FileBlocksOwned
    FileReadReturnsData
PROPERTY RtcRunsAtWrittenFrequency
VIEW FdView
