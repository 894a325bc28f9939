CONSTANTS
    NumRx = 4
    MaxCalls = 2
    MaxEvents = 5
    Foreign <- MCForeign
    ReallocFails = TRUE

SPECIFICATION Spec

\* The system stops when a realloc(NULL) after a failed one faults in the
\* handler, which the fault handler returns to forever.
CHECK_DEADLOCK FALSE

INVARIANTS
    TypeOK
    RxRingInSync
