SPECIFICATION FairSpec
CONSTANTS
    k1 = k1
    k2 = k2
    Mode = {"standalone"}
    AidingData <- OneKind
    MaxCmds = 3
    MaxMsgs = 2
    MaxEvents = 2
    MaxCrashes = 1
INVARIANTS
    NoPhantomSession
    NoOrphanSession
    SessionIsReported
PROPERTIES
    RestartFollowed
CHECK_DEADLOCK FALSE
