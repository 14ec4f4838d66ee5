SPECIFICATION Spec
CONSTANTS
    NumFiles = 2
    MaxChunks = 1
    MaxSessions = 2
    Cap = 2
    Faulty = {2}
    Kinds <- MCKinds
    Commands = {"ls", "push", "pushdir", "sync", "dry", "pull", "pulldir"}
CHECK_DEADLOCK FALSE
INVARIANTS
    InStep
    Honest
    NoPartLeft
    NeverBothWait
