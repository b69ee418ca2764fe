SPECIFICATION Spec
CONSTANTS
    k1 = k1
    k2 = k2
    Mode = {"standalone", "ms_based"}
    AidingData <- OneKind
    MaxCmds = 2
    MaxMsgs = 2
    MaxEvents = 2
    MaxCrashes = 1
PROPERTIES
    RestartKeepsMode
CHECK_DEADLOCK FALSE
