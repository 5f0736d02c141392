SPECIFICATION FairSpec
CONSTANTS
    Client = {c1, c2}
    Key = {k}
    Nothing = Nothing
    Torn = Torn
    MaxWrites = 2
    MaxCrashes = 1
INVARIANTS
    TypeOK
    AckedIsLogged
    VisibleIsLogged
    NeverOlderThanAcked
    RefusedLeavesNoTrace
PROPERTIES
    ShutdownCompletes
    RequestAnswered
