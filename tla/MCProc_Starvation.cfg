CONSTANTS
    NumProc = 3
    NumSess = 2
    MaxPending = 1
    Sigs = {2}
    NullCtrlC = FALSE

SPECIFICATION Spec

PROPERTIES
    EveryProcessRuns

VIEW ProcView
