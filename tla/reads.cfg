CONSTANTS
    n1 = n1
    n2 = n2
    n3 = n3
    v1 = v1
    r1 = r1
    Server = {n1, n2, n3}
    Value = {v1}
    None = None
    Reader = {r1}
    MaxTerm = 2
    MaxLog = 2
    MaxMessages = 2
    MaxApply = 2
    MaxRestarts = 0
    MaxSnaps = 0
    SlowTicker = FALSE
    SlowSender = FALSE
SPECIFICATION SpecSettled
VIEW ReadsView
CHECK_DEADLOCK FALSE
INVARIANTS
    ReadsSeeWhatWasTold
