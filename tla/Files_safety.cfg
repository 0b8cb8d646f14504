SPECIFICATION Spec
CONSTANTS
    p1 = p1
    p2 = p2
    f1 = f1
    root = root
    stdin = stdin
    stdout = stdout
    None = None
    Procs = {p1, p2}
    first = p1
    Files = {f1}
    OpenFlags <- SomeFlags
    Lengths = {2}
    Offsets = {0}
    IOBUF_SIZE = 1
    Capacity = 1
    MaxFds = 2
    MaxOpen = 3
    MaxPos = 3
    MaxSize = 2
SYMMETRY Processes
INVARIANTS
    TablesOK
    OpenCovers
    CountsExact
PROPERTIES
    CallsAdvance
CHECK_DEADLOCK FALSE
