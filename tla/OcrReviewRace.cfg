SPECIFICATION Spec
CONSTANTS
    Runs = {r1}
    Legacy = legacy
    Pages = {1}
    Edits = {e1}
    Requests <- AnyRequest
    Workers = {w1, w2}
    Outcomes <- AnyOutcome
    SampleMayBeFound = FALSE
    MaxEvents = 3
PROPERTIES
    PublishedIsApproved
CHECK_DEADLOCK FALSE
