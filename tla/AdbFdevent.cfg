SPECIFICATION FairSpec
CONSTANTS
    a = a
    b = b
    c = c
    Notify = Notify
    Fdes = {a, b}
    Sockets = {b}
    Shells = {b}
    MaxFd = 2
    MaxExits = 1
INVARIANTS InSync PendingListed
PROPERTY Served
CHECK_DEADLOCK FALSE
