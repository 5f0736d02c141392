SPECIFICATION Spec
CONSTANTS
    Nil = Nil
    Server = {n1, n2, n3}
    Value = {v}
    MaxElections = 2
    MaxLog = 2
    MaxCalls = 0
    MaxKills = 0
SYMMETRY Symmetry
VIEW LiveView
CHECK_DEADLOCK FALSE
INVARIANTS
    LogMatching
    LeaderCompleteness
    AppliedInLog
    NextIndexInBounds
PROPERTY
    ImplementsNodeLog
