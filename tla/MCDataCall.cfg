SPECIFICATION Spec
CONSTANTS
    s1 = s1
    s2 = s2
    s3 = s3
    d1 = d1
    d2 = d2
    None = None
    Session <- MCSession
    Dsi <- MCDsi
    ProfileLists <- MCLists
    MaxMsgs = 3
INVARIANTS
    LiveCallIsOurs
    CallbackDataIsLive
PROPERTIES
    ImplementsContract
CHECK_DEADLOCK FALSE
