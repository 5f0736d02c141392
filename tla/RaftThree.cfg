SPECIFICATION Spec
CONSTANTS
    Nil = Nil
    Server = {n1, n2, n3}
    Value = {v}
    MaxElections = 2
    MaxLog = 1
    MaxCalls = 100
    MaxKills = 1
SYMMETRY Symmetry
VIEW LiveView
CHECK_DEADLOCK FALSE
INVARIANTS
    TypeOK
    ElectionSafety
    StateMachineSafety
    CommittedOnMajority
    MatchIndexSound
PROPERTY
    CommitMonotonic
