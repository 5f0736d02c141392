SPECIFICATION FairSpec
CONSTANTS
    Nil = Nil
    Server = {n1}
    Value = {v}
    MaxElections = 2
    MaxLog = 2
    MaxCalls = 100
    MaxKills = 0
CHECK_DEADLOCK FALSE
PROPERTY
    AcceptedIsCommitted
