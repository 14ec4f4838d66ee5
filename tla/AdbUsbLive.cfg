SPECIFICATION FairSpec
CONSTANTS
    d1 = d1
    d2 = d2
    h1 = h1
    h2 = h2
    Devs = {d1}
    ReadOnly = {}
    Handles = {h1, h2}
    ZeroMask = 512
    Lens = {110, 512}
INVARIANT Delivered
PROPERTIES Closed WriterWoken
