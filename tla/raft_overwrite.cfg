CONSTANTS
    n1 = n1
    n2 = n2
    n3 = n3
    v1 = v1
    v2 = v2
    Server = {n1, n2, n3}
    Value = {v1, v2}
    None = None
    MaxTerm = 4
    MaxLog = 2
    MaxMessages = 1
    MaxApply = 2
    MaxRestarts = 0
    MaxSnaps = 0
    SlowTicker = FALSE
    SlowSender = FALSE
SPECIFICATION SpecBackAgain
VIEW View
CHECK_DEADLOCK FALSE
INVARIANTS
    NoPanic
    CommittedAgree
    LeaderCompleteness
    MatchedIsHeld
PROPERTIES
    ImplementsReplicatedLog
    CommittedStay
