SPECIFICATION Spec
CONSTANTS
    Images <- MCImages
    Extents <- MCExtents
    MaxAdds = 4
    MaxLost = 2
    ImageLen = 131072
    Limit = 41040
INVARIANTS
    ListRight
    NothingLost
    Announced
    WithinLimit
    Flashed
    Suited
CHECK_DEADLOCK FALSE
