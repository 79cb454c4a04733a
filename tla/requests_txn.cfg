CONSTANTS
    t1 = t1
    t2 = t2
    Size = 2
    Caller = {t1, t2}
    Calls <- MCCalls
    MaxCalls = 2
    MaxFaults = 1
SPECIFICATION FairSpec
CHECK_DEADLOCK FALSE
PROPERTIES
    HandlersWait
