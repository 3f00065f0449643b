SPECIFICATION ServicesSpec
CONSTANTS
    QueueJobs = {1, 2, 3}
    MaxDbFaults = 2
    MaxRestarts = 1
    CxAgents = {a1, a2, a3}
    Bodies = {m1}
    Keys = {k1}
    MaxTopics = 1
    MaxMessages = 2
    MaxWaiting = 1
    Artists = {x1, x2}
    Editors = {e1}
    HeadSize = 1
    MaxWorks = 2
    MaxNew = 1
    MaxEdits = 2
    MaxFailures = 1
    Items = {"x.zip", "x", "x/y"}
    BookOf <- MCBookOf
    Inside <- MCInside
    MaxVersion = 2
    MaxManual = 1
    MaxMishaps = 3
    NumVolumes = 2
    MaxStarts = 3
    MaxCrashes = 2
    MaxOthers = 1
    MaxUnlinks = 1
    QaRequests = {r1}
    QaPages = {p1, p2}
    MaxEditions = 2
    MaxDeparted = 1
    ChatRequests = {c1, c2}
    MaxTurns = 3
    MaxOutages = 1
INVARIANTS
    ServicesTypeOK
    QueueAgrees
    MessagesAgree
    ScriptsAgree
    ConversationsAgree
PROPERTIES
    WaitingIsServed
    ArchivedWasGenerated
    AnswersAreCurrent
CHECK_DEADLOCK FALSE
