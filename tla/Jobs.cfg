SPECIFICATION JobsSpec
CONSTANTS
    Jobs = {j1, j2, j3}
    Agents = {a1, a2}
    NoAgent = NoAgent
    Timeout = 2
    MaxLag = 1
    OcrJobs = {1, 2}
    Books = {b1, b2}
    Slots = {s1, s2}
    MaxRuns = 2
    MaxOcrFaults = 2
SYMMETRY Symmetry
INVARIANTS
    TypeOK
    SlotIsOwned
    OcrJobsTypeOK
    ReviewedRunsAreComplete
PROPERTIES
    TerminalIsFinal
    FreshJobIsNotTimedOut
    ImplementsSlot
    JobsServeReview
CHECK_DEADLOCK FALSE
