SPECIFICATION AtlSpec
CONSTANTS
    c1 = c1
    c2 = c2
    c3 = c3
    Client <- ThreeClients
    WaitForClose = FALSE
    EnforceSingle = FALSE
    DropOnRestart = TRUE
    MaxCmds = 4
    MaxEvents = 4
INVARIANTS
    ClientBacked
    AnswerOutstanding
    AcquiredIsReal
PROPERTIES
    ImplementsContract
    RequestAnswered
