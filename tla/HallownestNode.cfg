SPECIFICATION Spec
CONSTANTS
    Client = {c1, c2}
    Foreign = {11, 12}
    Cap = 1
    MaxWrites = 2
CHECK_DEADLOCK FALSE
INVARIANTS
    TypeOK
    PutIsLogPrefix
    SettlesOnLog
PROPERTIES
    EveryHandlerReturns
    NodeStops
