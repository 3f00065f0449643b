SPECIFICATION Spec
CONSTANTS
    Runs = {r1}
    Legacy = legacy
    Pages = {1, 2}
    Edits = {e1}
    Requests <- AnyRequest
    Workers = {w1}
    Outcomes <- AnyOutcome
    SampleMayBeFound = FALSE
    MaxEvents = 3
INVARIANTS
    ReviewHolds
PROPERTIES
    PublishedIsApproved
CHECK_DEADLOCK FALSE
