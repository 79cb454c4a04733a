CONSTANTS
    a = a
    b = b
    c = c
    k1 = k1
    p = p
    Node = {a}
    Client = {c}
    Key = {k1}
    Prefix = {p}
    Covers <- MCCovers
    Capacity = 2
    Watches <- MCWatches
    Entries <- MCEntries
    MaxLog = 3
    MaxStreams = 2
    MaxTickers = 1
    MaxBreaks = 1
SPECIFICATION FairSpec
CHECK_DEADLOCK FALSE
INVARIANTS
    StreamInOrder
    RegisteredMissesNothing
    ReplayIsComplete
    NothingBeforeStart
    PanicNeedsBreak
PROPERTIES
    DroppedStreamsEnd
    ShortReplaysEnd
