SPECIFICATION RestartSpec
CONSTANTS
    Nil = Nil
    Server = {n1, n2, n3}
    Value = {v}
    MaxElections = 2
    MaxLog = 1
    MaxCalls = 0
    MaxKills = 0
    MaxRestarts = 1
SYMMETRY Symmetry
CHECK_DEADLOCK FALSE
INVARIANT
    CommittedSurvivesCrash
