SPECIFICATION Spec
CONSTANTS
    MaxLines = 4
    Targets = {1, 4}
    MinSize = 2
    MaxSize = 2
    TableRows = 1
    CodeLines = 2
    ListItems = 2
    PathDepth = 2
INVARIANT SectionsKeepText
CHECK_DEADLOCK FALSE
