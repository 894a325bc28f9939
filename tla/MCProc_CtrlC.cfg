CONSTANTS
    NumProc = 4
    NumSess = 2
    MaxPending = 1
    Sigs = {2}
    NullCtrlC = FALSE

SPECIFICATION Spec

PROPERTIES
    CtrlCSignalsForeground

VIEW ProcView
