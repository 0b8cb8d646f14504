SPECIFICATION Spec
CONSTANTS
    t1 = t1
    t2 = t2
    t0 = t0
    Tasks = {t0, t1, t2}
    init_task = t0
    MMs = {1, 2, 3, 4}
    Programs <- SomePrograms
    NFrames = 10
    PG = 2
    PT = 2
    NPages = 5
    StackPages = 2
    Preloaded = 1
    None = None
    Dead = Dead
SYMMETRY UserTasks
INVARIANTS
    SpacesOK
    FramesExact
    LoadedExactly
    CopyExact
    PanicsExplained
PROPERTY
    KernelFaultsRefused
