SPECIFICATION Spec
CONSTANTS
    Images = {}
    Extents <- GapExtents
    MaxAdds = 6
    MaxLost = 0
    ImageLen = 81920
    Limit = 37004
INVARIANT
    FitsLimit
CHECK_DEADLOCK FALSE
