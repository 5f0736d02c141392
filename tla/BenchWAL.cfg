SPECIFICATION Spec
CONSTANTS
    MaxBody = 2
    MaxAppends = 3
    MaxCrashes = 2
INVARIANTS
    TypeOK
    ReplayUpToTear
    AckedBeforeTear
PROPERTIES
    ErrorMeansTear
    ImplementsLog
