SPECIFICATION FairQueueSpec
CONSTANTS
    m1 = m1
    m2 = m2
    m3 = m3
    m4 = m4
    LocMsg <- FourMessages
    Deleted = TRUE
INVARIANTS
    ListShape
PROPERTIES
    ImplementsFifo
    MessageHandled
CHECK_DEADLOCK FALSE
