CONSTANTS
    n1 = n1
    n2 = n2
    n3 = n3
    v1 = v1
    v2 = v2
    Server = {n1, n2, n3}
    Value = {v1}
    None = None
    MaxTerm = 3
    MaxLog = 2
    MaxMessages = 2
    MaxApply = 0
    MaxRestarts = 0
    MaxSnaps = 0
    SlowTicker = FALSE
    SlowSender = FALSE
SPECIFICATION SpecDiverged
CHECK_DEADLOCK FALSE
PROPERTIES
    CommittedStay
    LogsRepaired
    TakenAreCommitted
INVARIANTS
    MatchedIsHeld
