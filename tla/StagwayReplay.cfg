SPECIFICATION Spec
CONSTANTS
    Client = {c1, c2}
    Key = {k}
    Nothing = Nothing
    Torn = Torn
    MaxWrites = 2
    MaxCrashes = 0
INVARIANT
    ReplayRestoresMemTable
