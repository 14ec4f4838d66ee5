SPECIFICATION Spec
CONSTANTS
    t1 = t1
    t2 = t2
    Transports = {t1, t2}
    Usb = {}
    NoPerm = {}
    Emulators = {}
    Disconnect = {t1, t2}
    Serial <- SameSerial
    MaxSlots = 1
    MaxFd = 2
SYMMETRY Swap
CHECK_DEADLOCK FALSE
INVARIANTS
    KickedOnce
    RemovedOnce
