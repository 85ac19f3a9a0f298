SPECIFICATION Spec
CONSTANTS
    r1 = r1
    r2 = r2
    r3 = r3
    b1 = b1
    b2 = b2
    Requests <- ThreeRequests
    Batchers <- TwoBatchers
    MaxWaiting = 2
    MaxStates = 2
    MaxBatch = 1
INVARIANT TypeOK
INVARIANT SlotExclusive
INVARIANT AdmissionExact
INVARIANT NoLostWakeup
INVARIANT UnloadAfterLastPass
PROPERTY BatchYields
PROPERTY ServedInOrder
PROPERTY GivenUpNeverRuns
SYMMETRY Symmetry
CHECK_DEADLOCK FALSE
