SPECIFICATION CatalogSpec
CONSTANTS
    Jobs = {j1}
    Threads = {t1, t2}
    Tools = {r1}
    MaxFaults = 2
    MaxCrashes = 1
    MaxEdits = 1
    Asins = {s1}
    MaxValue = 2
    Importers = {i1, i2}
    MaxFileChanges = 2
    MaxImportRuns = 2
    MaxImportBreaks = 1
    Reporters = {q1, q2}
    Prices = {1, 2}
    Threshold = 2
    MaxObservations = 3
    MaxBreaks = 1
    BackupTools = {k1, k2}
    RetentionDays = 1
    MaxDay = 2
    MaxTexts = 1
    MaxGenerations = 2
    MaxBackupFaults = 1
    BookNames = {1, 2, 3}
    BookCount = 2
    Fields = {"authors", "series"}
    Handlers = {1, 2}
    MaxRequests = 3
    MaxLibraryFaults = 1
    PageCount = 3
    Editors = {1, 2}
    MaxPageEdits = 2
    MaxPageBreaks = 1
INVARIANTS
    CatalogTypeOK
    RegisteredImagesKept
    PackagesAndEditsKept
    AllOrNothing
    RecordsMatchDamage
    
CHECK_DEADLOCK FALSE
