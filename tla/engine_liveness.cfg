SPECIFICATION FairSpec
CONSTANTS
    r1 = r1
    r2 = r2
    r3 = r3
    b1 = b1
    b2 = b2
    Requests <- TwoRequests
    Batchers <- OneBatcher
    MaxWaiting = 1
    MaxStates = 1
    MaxBatch = 2
PROPERTY CallsEnd
CHECK_DEADLOCK FALSE
