SPECIFICATION Spec
CONSTANTS
    MaxBody = 1
    MaxAppends = 2
    MaxCrashes = 1
INVARIANT
    AckedIsDurable
