CONSTANTS
    NumRx = 4
    MaxCalls = 2
    MaxEvents = 3
    Foreign <- MCShortOnly
    ReallocFails = FALSE

SPECIFICATION Spec

\* The system stops when a failed realloc makes the handler fault forever.
CHECK_DEADLOCK FALSE

PROPERTY
    IpFromOwnOffer

