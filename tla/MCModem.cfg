SPECIFICATION FairSpec
CONSTANTS
    Calls <- SomeCalls
    Sizes = {3, 5}
    PartLen = 2
    LenMod = 4
    GyroEtcValid = TRUE
    MaxPosts = 2
    MaxRefusals = 1
    MaxCrashes = 1
INVARIANTS
    SuccessIsEarned
    ConfigRestored
PROPERTIES
    RestartConfigures
CHECK_DEADLOCK FALSE
