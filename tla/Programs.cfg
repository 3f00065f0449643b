SPECIFICATION ProgramsSpec
CONSTANTS
    Jobs = {j1}
    Threads = {t1}
    Tools = {r1}
    MaxFaults = 2
    MaxCrashes = 0
    MaxEdits = 1
    Looks = {1, 2, 3, 4}
    MaxScreens = 4
    RetryCount = 1
    MinCycleScreens = 3
    MaxSlips = 2
    NumPages = 4
    MaxServed = 3
    FailureLimit = 2
    FailureWindow = 3
    MaxSessions = 2
    MaxTroubles = 2
    NumSamples = 1
    CampaignSessions = {s1, s2, s3}
    MaxPilots = 2
    MaxTools = 6
    MaxChanges = 2
    Operators = {o1, o2}
    MaxHoldouts = 2
    MaxDeaths = 1
    MaxExports = 2
INVARIANTS
    ProgramsTypeOK
    CompleteOrRefused
    WorkerAgrees
PROPERTIES
    CampaignAgrees
    ProgramsEnd
CHECK_DEADLOCK FALSE
