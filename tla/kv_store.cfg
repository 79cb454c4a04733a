CONSTANTS
    a = a
    b = b
    c = c
    k1 = k1
    k2 = k2
    Node = {a, b}
    Client = {c}
    Key = {k1, k2}
    Commands <- AllCommands
    Threads = 1
    MaxRequests = 2
    MaxLog = 2
    MaxRestarts = 1
SPECIFICATION Spec
SYMMETRY Symmetry
CHECK_DEADLOCK FALSE
INVARIANTS
    TypeOK
    RevisionsUnique
    IndexMatchesDisk
    ReplicasAgree
    AppliedOnce
    AnsweredWasHandled
    NoDanglingLease
    ScanFindsLatest
PROPERTIES
    CompactKeepsReads
