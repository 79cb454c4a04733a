CONSTANTS
    n1 = n1
    n2 = n2
    n3 = n3
    v1 = v1
    v2 = v2
    Server = {n1, n2, n3}
    Value = {v1}
    None = None
    MaxTerm = 1
    MaxLog = 1
    MaxMessages = 2
    MaxApply = 0
    MaxRestarts = 1
    MaxSnaps = 0
    SlowTicker = FALSE
    SlowSender = FALSE
SPECIFICATION Spec
SYMMETRY Symmetry
VIEW View
CHECK_DEADLOCK FALSE
PROPERTIES
    CommittedSurviveRestart
