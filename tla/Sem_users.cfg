SPECIFICATION FairSpec
CONSTANTS
    k1 = k1
    k2 = k2
    p1 = p1
    p2 = p2
    Tasks = {idle, k1, k2, p1, p2}
    Idle = idle
    MaxTimeSlices = 1
    KThreads = {k1, k2}
    Value = 1
INVARIANTS
    QueuesOK
    UnitsConserved
PROPERTIES
    ImplementsFifo
    WaiterEnters
