CONSTANTS
    n1 = n1
    n2 = n2
    n3 = n3
    v1 = v1
    v2 = v2
    Server = {n1, n2, n3}
    Value = {v1}
    None = None
    MaxTerm = 4
    MaxLog = 1
    MaxMessages = 1
    MaxApply = 0
    MaxRestarts = 0
    MaxSnaps = 1
    SlowTicker = FALSE
    SlowSender = TRUE
SPECIFICATION SpecOneAhead
VIEW View
CHECK_DEADLOCK FALSE
INVARIANTS
    TypeOK
    OneVotePerTerm
    ElectionSafety
    LogMatching
