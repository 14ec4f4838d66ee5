SPECIFICATION Spec
CONSTANTS
    d1 = d1
    d2 = d2
    h1 = h1
    h2 = h2
    Devs = {d1, d2}
    ReadOnly = {d2}
    Handles = {h1, h2}
    ZeroMask = 512
    Lens = {0}
INVARIANTS HandlesRight 
PROPERTY KickedWhenGone
CHECK_DEADLOCK FALSE
