SPECIFICATION FairSpec
CONSTANTS
    w1 = w1
    w2 = w2
    c1 = c1
    c2 = c2
    Workers <- TwoWorkers
    Clients <- OneClient
    MaxJobs = 1
    MaxItems = 2
    ChunkSize = 1
    Retries = 1
    MaxFaults = 2
    FaultPoints <- AllFaults
    MaxRestarts = 1
INVARIANT TypeOK
INVARIANT CountersMatch
INVARIANT SingleCompleter
INVARIANT EvaluateReported
INVARIANT OneCarrier
INVARIANT Dispatched
PROPERTY FinalizedEnds
CHECK_DEADLOCK FALSE
