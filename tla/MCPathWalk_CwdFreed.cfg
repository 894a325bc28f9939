CONSTANTS
    Cells = {1, 2, 3, 4, 5, 6}
    RootIno = 2
    DirInos = {2, 3, 5}
    Entries <- MCEntries
    Names = {"a", "b", "f", "z"}
    NameLen <- MCNameLen
    Paths <- MCPathsEmpty
    FnameLen = 4
    AboveRoot = FALSE

INIT Init
NEXT Next

INVARIANTS
    CurChainIntact
