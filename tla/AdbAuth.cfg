SPECIFICATION FairSpec
CONSTANTS
    NumKeys = 2
    MaxRestarts = 3
    MaxConnects = 3
INVARIANTS OnlineProven Prompted Agreed
PROPERTY KnownConnects
CHECK_DEADLOCK FALSE
