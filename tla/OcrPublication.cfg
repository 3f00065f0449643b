SPECIFICATION Spec
CONSTANTS
    Runs = {r1, r2}
    Legacy = legacy
    Pages = {1}
    Edits = {e1}
    Requests <- FewRequests
    Workers = {w1, w2}
    Outcomes <- OneOutcome
    SampleMayBeFound = TRUE
    MaxEvents = 3
SYMMETRY Symmetry
INVARIANTS
    TypeOK
    PublicationHistoryKept
    CanonicalIsActiveRun
CHECK_DEADLOCK FALSE
