CONSTANTS
    BlockSize = 48
    InodesPerGroup = 6
    BlocksPerGroup = 10
    InodeSize = 12
    SizeofInode = 12
    NDirect = 12
    NInodes = 6
    NBlocks = 10
    RootIno = 2
    JunkName = "junk"
    Names <- MCNames
    UserNameLen <- MCNameLen
    WriteLens <- MCWriteLens
    InitDisk <- MCInitDisk
INIT Init
NEXT Next
VIEW DiskView
INVARIANTS
    TypeOK
    BlocksExclusive
    DirectoryEntriesConsistent
    ParentChainReachesRoot
    InodeAccessInRecord
