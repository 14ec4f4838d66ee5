SPECIFICATION FairSpec
CONSTANTS
    t1 = t1
    t2 = t2
    Transports = {t1, t2}
    Usb = {t2}
    NoPerm = {t2}
    Emulators = {t1}
    Disconnect = {}
    Serial <- OwnSerial
    MaxSlots = 1
    MaxFd = 2
CHECK_DEADLOCK FALSE
INVARIANTS
    ClosedAfterThreads
    Listed
PROPERTIES
    Lifecycle
    Connects
    Retires
