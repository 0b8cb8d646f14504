SPECIFICATION Spec
CONSTANTS
    c1 = c1
    v1 = v1
    v2 = v2
    Clients = {c1}
    N = 2
    NSectors = 3
    Values = {v1, v2}
    Junk = Junk
    Error = Error
    NULL = NULL
    Failures = {"read", "write"}
    MaxTime = 3
SYMMETRY Symmetry
INVARIANTS
    BuffersOK
PROPERTIES
    EvictsOldest
    ImplementsStore
    SyncDurable
