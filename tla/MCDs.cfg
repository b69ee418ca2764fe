SPECIFICATION FairSpec
CONSTANTS
    c1 = c1
    c2 = c2
    Client <- TwoClients
    MAX_START_DATA_CALL_RETRIES = 2
    MaxMsgs = 2
    MaxTimers = 2
    DsiStopMayFail = TRUE
    EngineRestarts = TRUE
INVARIANTS
    CallOwned
    AcquiredIsReal
PROPERTIES
    OneCallAtATime
    ReleaseAnswered
