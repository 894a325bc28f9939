CONSTANTS
    NumProc = 3
    NumSess = 2
    MaxPending = 1
    Sigs = {1, 5}
    NullCtrlC = FALSE

SPECIFICATION Spec

INVARIANTS
    TypeOK
    SessionChains
    CurIsRunnableLeaf
    SchedFindsNext
    UserMemoryIsolated

PROPERTIES
    ShellRestarts
    StackFaultIsFatal

VIEW ProcView
