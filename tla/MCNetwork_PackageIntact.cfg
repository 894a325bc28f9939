CONSTANTS
    NumRx = 4
    MaxCalls = 2
    MaxEvents = 5
    Foreign <- MCForeign
    ReallocFails = TRUE
SPECIFICATION Spec
CHECK_DEADLOCK FALSE
PROPERTY
    PackageIntact
