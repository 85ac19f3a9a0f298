SPECIFICATION Spec
CONSTANTS
    w1 = w1
    w2 = w2
    c1 = c1
    c2 = c2
    Workers <- TwoWorkers
    Clients <- TwoClients
    MaxJobs = 1
    MaxItems = 3
    ChunkSize = 2
    Retries = 0
    MaxFaults = 0
    FaultPoints <- NoFaultPoints
    MaxRestarts = 1
INVARIANT FinalStatusSound
INVARIANT NotFailedByShutdown
PROPERTY TerminalFrozen
PROPERTY ImplementsLifecycle
CHECK_DEADLOCK FALSE
