SPECIFICATION FairSpec
CONSTANTS
    a1 = a1
    a2 = a2
    p1 = p1
    p2 = p2
    h1 = h1
    h2 = h2
    e1 = e1
    e2 = e2
    e3 = e3
    None = None
    Addr <- MCAddr
    Handle <- MCHandle
    Event <- MCEvent
    Adapter <- MCAdapter
    Wants <- MCWants
    Excluded <- MCExcluded
    MaxLeft = 1
    MaxAdapters = 2
    MaxQueue = 2
INVARIANTS
    EveryAdapterServed
    OneListener
    MaskHonest
PROPERTIES
    LossNoticed

