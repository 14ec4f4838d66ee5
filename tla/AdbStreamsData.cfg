SPECIFICATION FairSpec
CONSTANTS
    MaxId = 1
    MaxPayload = 2
    MaxUnits = 3
    Openers = {"host"}
CHECK_DEADLOCK FALSE
INVARIANTS
    TypeOK
    BacklogBounded
    StreamIntact
PROPERTIES
    Lifecycle
    OpenAnswered
    WriterResumes
    CloseSpreads
