SPECIFICATION PageSpec
CONSTANTS
    PageCount = 2
    Editors = {1}
    MaxPageEdits = 2
    MaxPageBreaks = 1
INVARIANTS
    PagesKept
CHECK_DEADLOCK FALSE
