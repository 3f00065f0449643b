SPECIFICATION Spec
CONSTANTS
    Jobs = {j1, j2}
    Threads = {t1, t2}
    Tools = {}
    MaxFaults = 0
    MaxCrashes = 0
    MaxEdits = 0
SYMMETRY Symmetry
INVARIANTS
    RegisteredImagesKept
CHECK_DEADLOCK FALSE
