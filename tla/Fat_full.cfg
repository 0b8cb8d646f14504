SPECIFICATION Spec
CONSTANTS
    f1 = f1
    f2 = f2
    Files = {f1, f2}
    Existing = f1
    max_clust = 6
    sects_clust = 2
    SS = 2
    Slots = 1
    Lengths = {9}
    Offsets = {0, 13}
    Cuts = {0, 4}
    MaxSize = 21
    MaxFaults = 0
    None = None
INVARIANTS
    WritesStayInside
