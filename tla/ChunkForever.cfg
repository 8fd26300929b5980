SPECIFICATION Spec
CONSTANTS
    MaxLength = 3
    Sizes = {1, 2, 3}
    Overlaps = {0, 1, 3}
PROPERTY EveryTextIsChunked
CHECK_DEADLOCK FALSE
