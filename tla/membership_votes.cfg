CONSTANTS
    n1 = n1
    n2 = n2
    n3 = n3
    Node = {n1, n2, n3}
    FirstPeers <- Three
    Changes <- MCChanges
    MaxTerm = 2
    MaxLog = 1
    MaxMessages = 1
SPECIFICATION SpecLed
CHECK_DEADLOCK FALSE
INVARIANTS
    VotesOnce
