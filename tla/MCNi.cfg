SPECIFICATION FairSpec
CONSTANTS
    UserAnswer = {"accept", "deny", "ignore"}
    MaxRequests = 2
    EngineRestarts = TRUE
INVARIANTS
    SessionHasThread
    AnsweredOnce
    OneOwner
    AnswerUsedOnce
PROPERTIES
    SessionEnds
CHECK_DEADLOCK FALSE
