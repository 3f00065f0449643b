SPECIFICATION IndexesSpec
CONSTANTS
    Books = {b1, b2}
    Texts = {t1}
    MaxPages = 2
    MaxId = 4
    MaxPublications = 2
    MaxOperations = 4
    MaxFaults = 2
    FtsPages = {p1}
    FtsTexts = {x1, x2}
    FtsBuilders = {c1, c2}
    FtsReaders = {r1}
    MaxRevision = 3
    MaxTables = 2
    BookNames = {n1, n2}
    BookTexts = {{n1}, {n1, n2}}
    MaxBookPages = 2
    MaxBuilds = 2
    MaxRewrites = 1
SYMMETRY Symmetry
INVARIANTS
    IndexesTypeOK
    IndexesAgree
    ContentAgrees
PROPERTIES
    FailedPageIsRestored
    NamesAreKept
CHECK_DEADLOCK FALSE
