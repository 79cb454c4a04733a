CONSTANTS
    n1 = n1
    n2 = n2
    n3 = n3
    v1 = v1
    v2 = v2
    Server = {n1}
    Value = {v1, v2}
    None = None
    MaxTerm = 2
    MaxLog = 3
    MaxMessages = 1
    MaxApply = 3
    MaxRestarts = 1
    MaxSnaps = 0
    SlowTicker = TRUE
    SlowSender = FALSE
SPECIFICATION SpecAlone
CHECK_DEADLOCK FALSE
INVARIANTS
    AppliedWithoutGaps
PROPERTIES
    EveryCommandApplied
