SPECIFICATION Spec
CONSTANTS
    MaxId = 2
    MaxPayload = 1
    MaxUnits = 1
    Openers = {"host"}
CHECK_DEADLOCK FALSE
INVARIANTS
    WindowOfOne
    Paired
    CloseIsLast
    NoneOutlivesTransport
